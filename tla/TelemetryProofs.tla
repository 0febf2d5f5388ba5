--------------------------- MODULE TelemetryProofs ---------------------------
(*****************************************************************************)
(* What a report carries and what becomes of it: no byte is counted twice,   *)
(* and the event tables tell what happened, once, for any number of bytes,   *)
(* lines, changes, faults and reports on their way.                          *)
(*****************************************************************************)
EXTENDS Telemetry, SequenceTheorems, TLAPS

(* A kernel counter, or none. *)
Counter == Nat \cup {Gone}

(* Bytes stored, held by the agent, and counted by the kernel since the     *)
(* last collect.                                                            *)
Balance(m) == totals[m] + Held(m) + counterDelta(kernel[m], prev[m])

ReportFields == {"counted", "path", "late", "awaited", "proxy"}
PastFields ==
  {"bytes", "moves", "requests", "faults", "dropped", "repeated", "overtaken"}

(* At most one report is awaited, the last one sent, and it carries what    *)
(* the agent holds.                                                         *)
Reports ==
  /\ flight \in Seq(Range(flight))
  /\ \A i \in DOMAIN flight :
       /\ DOMAIN flight[i] = ReportFields
       /\ flight[i].counted \in [Meters -> Nat]
       /\ flight[i].awaited => awaiting = "report" /\ flight[i].counted = pending
  /\ \A i, j \in DOMAIN flight : flight[i].awaited /\ flight[j].awaited => i = j

TelemetryTypes ==
  /\ kernel \in [Meters -> Counter]
  /\ prev \in [Meters -> Counter]
  /\ pending \in [Meters -> Nat]
  /\ totals \in [Meters -> Nat]
  /\ awaiting \in {"nothing", "report", "answer"}
  /\ DOMAIN past = PastFields
  /\ past.bytes \in [Meters -> Nat]

(* The uncollected bytes belong to the balance, in both directions; and     *)
(* unless something was dropped no counter is behind its last reading.      *)
Balanced ==
  \A m \in Meters :
    /\ ~past.repeated => Balance(m) <= past.bytes[m]
    /\ ~past.dropped => Balance(m) >= past.bytes[m] /\ kernel[m] >= prev[m]

TelemetryInv == TelemetryTypes /\ Reports /\ Balanced

-----------------------------------------------------------------------------
(* Counters *)

(* What a collect finds: nothing right after one, and at most one byte more *)
(* for each byte sent, exactly one unless the counter was reset.            *)
LEMMA DeltaFacts ==
  ASSUME NEW c \in Counter, NEW w \in Counter
  PROVE  /\ counterDelta(c, w) \in Nat
         /\ counterDelta(c, c) = 0
         /\ counterDelta(0, w) = 0 /\ counterDelta(Gone, w) = 0
         /\ LET n == IF c = Gone THEN 1 ELSE c + 1
            IN  /\ n \in Counter /\ n >= c
                /\ counterDelta(n, w) <= counterDelta(c, w) + 1
                /\ c >= w => counterDelta(n, w) = counterDelta(c, w) + 1
BY DEF counterDelta, Counter, Gone

LEMMA OfItsRange ==
  ASSUME NEW S, NEW s \in Seq(S)
  PROVE  s \in Seq(Range(s))
BY DEF Range

-----------------------------------------------------------------------------
(* The history *)

(* A step that moves no bytes. *)
LEMMA QuietKeeps ==
  ASSUME TelemetryInv, UNCHANGED <<kernel, prev, pending, totals, awaiting, flight>>,
         DOMAIN past' = PastFields, past'.bytes = past.bytes,
         past'.repeated = past.repeated, past'.dropped = past.dropped
  PROVE  TelemetryInv'
<1>1. TelemetryTypes'
  BY DEF TelemetryInv, TelemetryTypes
<1>2. Reports'
  BY DEF TelemetryInv, Reports
<1>3. \A m \in Meters : Balance(m)' = Balance(m)
  BY DEF Balance, Held
<1>4. /\ ~past'.repeated => ~past.repeated
      /\ ~past'.dropped => ~past.dropped
  BY Zenon
<1>5. Balanced'
  BY <1>3, <1>4 DEF TelemetryInv, Balanced
<1>. QED  BY <1>1, <1>2, <1>5 DEF TelemetryInv

LEMMA QuietSteps ==
  ASSUME TelemetryInv,
         \/ \E to \in PathKinds : WayChanges(to)
         \/ ProxyRequest \/ LogRotates \/ RemoteEnrolls \/ tailProxyLog
         \/ UNCHANGED reportVars
  PROVE  TelemetryInv'
<1>1. DOMAIN past = PastFields
  BY DEF TelemetryInv, TelemetryTypes
<1>2. UNCHANGED <<kernel, prev, pending, totals, awaiting, flight>>
  BY DEF WayChanges, ProxyRequest, LogRotates, RemoteEnrolls, tailProxyLog,
         agentSide, world, database, reportVars
<1>3. PICK x : \/ past' = past
               \/ past' = [past EXCEPT !.moves = x]
               \/ past' = [past EXCEPT !.requests = x]
               \/ past' = [past EXCEPT !.faults = x]
  BY DEF WayChanges, ProxyRequest, LogRotates, RemoteEnrolls, tailProxyLog, reportVars
<1>4. /\ DOMAIN past' = PastFields /\ past'.bytes = past.bytes
      /\ past'.repeated = past.repeated /\ past'.dropped = past.dropped
  <2>1. CASE past' = past
    BY <1>1, <2>1, Zenon
  <2>2. CASE past' = [past EXCEPT !.moves = x]
    BY <1>1, <2>2, Zenon DEF PastFields
  <2>3. CASE past' = [past EXCEPT !.requests = x]
    BY <1>1, <2>3, Zenon DEF PastFields
  <2>4. CASE past' = [past EXCEPT !.faults = x]
    BY <1>1, <2>4, Zenon DEF PastFields
  <2>. QED  BY <1>3, <2>1, <2>2, <2>3, <2>4
<1>. QED  BY <1>2, <1>4, QuietKeeps

-----------------------------------------------------------------------------
(* Traffic and resets *)

LEMMA TrafficKeeps ==
  ASSUME TelemetryInv, NEW n \in Meters, Traffic(n)
  PROVE  TelemetryInv'
<1>. DEFINE up == IF kernel[n] = Gone THEN 1 ELSE kernel[n] + 1
            sent == [past.bytes EXCEPT ![n] = @ + 1]
<1>1. /\ kernel' = [kernel EXCEPT ![n] = up]
      /\ UNCHANGED <<prev, pending, totals, awaiting, flight>>
  BY DEF Traffic, agentSide, database
<1>2. past' = [past EXCEPT !.bytes = sent]
  BY DEF Traffic, TelemetryInv, TelemetryTypes, PastFields
<1>3. /\ DOMAIN past' = PastFields /\ past'.bytes = sent
      /\ past'.repeated = past.repeated /\ past'.dropped = past.dropped
  <2>1. DOMAIN past = PastFields
    BY DEF TelemetryInv, TelemetryTypes
  <2>. HIDE DEF sent
  <2>. QED  BY <1>2, <2>1, Zenon DEF PastFields
<1>4. /\ up \in Counter /\ up >= kernel[n]
      /\ counterDelta(up, prev[n]) \in Nat /\ counterDelta(kernel[n], prev[n]) \in Nat
      /\ counterDelta(up, prev[n]) <= counterDelta(kernel[n], prev[n]) + 1
      /\ kernel[n] >= prev[n]
           => counterDelta(up, prev[n]) = counterDelta(kernel[n], prev[n]) + 1
  BY DeltaFacts DEF TelemetryInv, TelemetryTypes
<1>5. sent \in [Meters -> Nat] /\ sent[n] = past.bytes[n] + 1
      /\ \A m \in Meters \ {n} : sent[m] = past.bytes[m]
  BY DEF TelemetryInv, TelemetryTypes
<1>. HIDE DEF up, sent
<1>6. TelemetryTypes'
  BY <1>1, <1>3, <1>4, <1>5 DEF TelemetryInv, TelemetryTypes
<1>7. Reports'
  BY <1>1 DEF TelemetryInv, Reports
<1>8. /\ ~past'.repeated => ~past.repeated
      /\ ~past'.dropped => ~past.dropped
  BY <1>3, Zenon
<1>9. ASSUME NEW m \in Meters
      PROVE  /\ ~past'.repeated => Balance(m)' <= past'.bytes[m]
             /\ ~past'.dropped => Balance(m)' >= past'.bytes[m] /\ kernel'[m] >= prev'[m]
  <2>1. totals[m] \in Nat /\ Held(m) \in Nat /\ Held(m)' = Held(m)
    BY <1>1 DEF Held, TelemetryInv, TelemetryTypes
  <2>2. /\ ~past.repeated => Balance(m) <= past.bytes[m]
        /\ ~past.dropped => Balance(m) >= past.bytes[m] /\ kernel[m] >= prev[m]
    BY DEF TelemetryInv, Balanced
  <2>3. CASE m # n
    <3>1. kernel'[m] = kernel[m] /\ Balance(m)' = Balance(m) /\ past'.bytes[m] = past.bytes[m]
      BY <1>1, <1>3, <1>5, <2>1, <2>3 DEF Balance, TelemetryInv, TelemetryTypes
    <3>. QED  BY <1>1, <1>8, <2>2, <3>1
  <2>4. CASE m = n
    <3>1. kernel'[n] = up
      BY <1>1 DEF TelemetryInv, TelemetryTypes
    <3>2. /\ Balance(n)' = totals[n] + Held(n) + counterDelta(up, prev[n])
          /\ Balance(n) = totals[n] + Held(n) + counterDelta(kernel[n], prev[n])
      BY <1>1, <2>1, <2>4, <3>1 DEF Balance
    <3>3. past.bytes[n] \in Nat /\ past'.bytes[n] = past.bytes[n] + 1
      BY <1>3, <1>5 DEF TelemetryInv, TelemetryTypes
    <3>4. Balance(n)' <= Balance(n) + 1
          /\ (kernel[n] >= prev[n] => Balance(n)' = Balance(n) + 1)
      BY <1>4, <2>1, <2>4, <3>2
    <3>5. Balance(n) \in Nat /\ Balance(n)' \in Nat
      BY <1>4, <2>1, <2>4, <3>2
    <3>6. kernel[n] \in Int /\ prev[n] \in Int /\ up \in Int
      BY <1>4 DEF TelemetryInv, TelemetryTypes, Counter, Gone
    <3>. QED  BY <1>1, <1>4, <1>8, <2>2, <2>4, <3>1, <3>3, <3>4, <3>5, <3>6
  <2>. QED  BY <2>3, <2>4
<1>10. Balanced'
  BY <1>9 DEF Balanced
<1>. QED  BY <1>6, <1>7, <1>10 DEF TelemetryInv

LEMMA ResetKeeps ==
  ASSUME TelemetryInv, NEW n \in Meters, NEW to \in {0, Gone}, CounterResets(n, to)
  PROVE  TelemetryInv'
<1>1. /\ kernel' = [kernel EXCEPT ![n] = to]
      /\ UNCHANGED <<prev, pending, totals, awaiting, flight>>
  BY DEF CounterResets, agentSide, database
<1>2. /\ DOMAIN past' = PastFields /\ past'.bytes = past.bytes
      /\ past'.repeated = past.repeated /\ past'.dropped = TRUE
  BY Zenon DEF CounterResets, TelemetryInv, TelemetryTypes, PastFields
<1>3. TelemetryTypes'
  BY <1>1, <1>2 DEF TelemetryInv, TelemetryTypes, Counter
<1>4. Reports'
  BY <1>1 DEF TelemetryInv, Reports
<1>5. /\ ~past'.repeated => ~past.repeated
      /\ past'.dropped
  BY <1>2, Zenon
<1>6. ASSUME NEW m \in Meters
      PROVE  ~past'.repeated => Balance(m)' <= past'.bytes[m]
  <2>1. totals[m] \in Nat /\ Held(m) \in Nat /\ Held(m)' = Held(m)
    BY <1>1 DEF Held, TelemetryInv, TelemetryTypes
  <2>2. ~past.repeated => Balance(m) <= past.bytes[m]
    BY DEF TelemetryInv, Balanced
  <2>3. counterDelta(kernel[m], prev[m]) \in Nat /\ counterDelta(to, prev[m]) = 0
    BY DeltaFacts DEF TelemetryInv, TelemetryTypes
  <2>4. counterDelta(kernel[m], prev[m])' \in {counterDelta(kernel[m], prev[m]), 0}
    BY <1>1, <2>3 DEF TelemetryInv, TelemetryTypes
  <2>5. Balance(m)' <= Balance(m) /\ Balance(m) \in Nat /\ Balance(m)' \in Nat
    BY <1>1, <2>1, <2>3, <2>4 DEF Balance
  <2>6. past.bytes[m] \in Nat
    BY DEF TelemetryInv, TelemetryTypes
  <2>. QED  BY <1>2, <1>5, <2>2, <2>5, <2>6
<1>7. Balanced'
  BY <1>5, <1>6 DEF Balanced
<1>. QED  BY <1>3, <1>4, <1>7 DEF TelemetryInv

LEMMA RemovalKeeps ==
  ASSUME TelemetryInv, RemoteRemoved
  PROVE  TelemetryInv'
<1>1. /\ totals' = [totals EXCEPT !["link"] = 0]
      /\ UNCHANGED <<kernel, prev, pending, awaiting, flight>>
  BY DEF RemoteRemoved, agentSide, world
<1>2. /\ DOMAIN past' = PastFields /\ past'.bytes = past.bytes
      /\ past'.repeated = past.repeated /\ past'.dropped = TRUE
  BY Zenon DEF RemoteRemoved, TelemetryInv, TelemetryTypes, PastFields
<1>3. TelemetryTypes'
  BY <1>1, <1>2 DEF TelemetryInv, TelemetryTypes
<1>4. Reports'
  BY <1>1 DEF TelemetryInv, Reports
<1>5. /\ ~past'.repeated => ~past.repeated
      /\ past'.dropped
  BY <1>2, Zenon
<1>6. ASSUME NEW m \in Meters
      PROVE  ~past'.repeated => Balance(m)' <= past'.bytes[m]
  <2>1. totals[m] \in Nat /\ Held(m) \in Nat /\ Held(m)' = Held(m)
    BY <1>1 DEF Held, TelemetryInv, TelemetryTypes
  <2>2. ~past.repeated => Balance(m) <= past.bytes[m]
    BY DEF TelemetryInv, Balanced
  <2>3. counterDelta(kernel[m], prev[m]) \in Nat
    BY DeltaFacts DEF TelemetryInv, TelemetryTypes
  <2>4. totals'[m] \in {totals[m], 0}
    BY <1>1 DEF TelemetryInv, TelemetryTypes
  <2>5. Balance(m)' <= Balance(m) /\ Balance(m) \in Nat /\ Balance(m)' \in Nat
    BY <1>1, <2>1, <2>3, <2>4 DEF Balance
  <2>6. past.bytes[m] \in Nat
    BY DEF TelemetryInv, TelemetryTypes
  <2>. QED  BY <1>2, <1>5, <2>2, <2>5, <2>6
<1>7. Balanced'
  BY <1>5, <1>6 DEF Balanced
<1>. QED  BY <1>3, <1>4, <1>7 DEF TelemetryInv

-----------------------------------------------------------------------------
(* The agent *)

(* The reports on their way once the agent has stopped waiting. *)
LEMMA GivenUpFacts ==
  ASSUME Reports
  PROVE  /\ GivenUp \in Seq(Range(GivenUp))
         /\ DOMAIN GivenUp = DOMAIN flight
         /\ \A i \in DOMAIN flight :
              /\ DOMAIN GivenUp[i] = ReportFields
              /\ GivenUp[i].counted = flight[i].counted
              /\ ~GivenUp[i].awaited
<1>1. DOMAIN GivenUp = 1..Len(flight) /\ DOMAIN GivenUp = DOMAIN flight /\ Len(flight) \in Nat
  BY DEF GivenUp, Reports
<1>2. GivenUp \in Seq(Range(GivenUp))
  <2>1. GivenUp \in [1..Len(flight) -> Range(GivenUp)]
    BY <1>1 DEF GivenUp, Range
  <2>. QED  BY <1>1, <2>1, IsASeq
<1>3. ASSUME NEW i \in DOMAIN flight
      PROVE  /\ DOMAIN GivenUp[i] = ReportFields
             /\ GivenUp[i].counted = flight[i].counted
             /\ ~GivenUp[i].awaited
  <2>1. GivenUp[i] = [flight[i] EXCEPT !.awaited = FALSE] /\ DOMAIN flight[i] = ReportFields
    BY DEF GivenUp, Reports
  <2>. QED  BY <2>1, Zenon DEF ReportFields
<1>. QED  BY <1>1, <1>2, <1>3

LEMMA RestartKeeps ==
  ASSUME TelemetryInv, ReporterRestarts
  PROVE  TelemetryInv'
<1>1. /\ prev' = [m \in Meters |-> Gone] /\ pending' = [m \in Meters |-> 0]
      /\ awaiting' = "nothing" /\ kernel' = [kernel EXCEPT !["link"] = 0]
      /\ flight' = GivenUp /\ totals' = totals
  BY DEF ReporterRestarts, database
<1>2. /\ DOMAIN past' = PastFields /\ past'.bytes = past.bytes
      /\ past'.repeated = TRUE /\ past'.dropped = TRUE
  BY Zenon DEF ReporterRestarts, TelemetryInv, TelemetryTypes, PastFields
<1>3. TelemetryTypes'
  BY <1>1, <1>2 DEF TelemetryInv, TelemetryTypes, Counter
<1>4. Reports'
  BY <1>1, GivenUpFacts DEF TelemetryInv, Reports
<1>5. past'.repeated /\ past'.dropped
  BY <1>2, Zenon
<1>6. Balanced'
  BY <1>5 DEF Balanced
<1>. QED  BY <1>3, <1>4, <1>6 DEF TelemetryInv

(* A collect moves bytes from the kernel's side of the balance to the       *)
(* agent's.                                                                 *)
LEMMA sendReportKeeps ==
  ASSUME TelemetryInv, sendReport
  PROVE  TelemetryInv'
<1>. DEFINE r == [counted |-> pending', path |-> way, late |-> FALSE,
                  awaited |-> TRUE, proxy |-> SubSeq(queue, 1, Drained)]
<1>1. /\ awaiting = "nothing" /\ awaiting' = "report"
      /\ pending' = [m \in Meters |-> collect(m)] /\ prev' = kernel
      /\ flight' = Append(flight, r)
      /\ UNCHANGED <<kernel, totals, past>>
  BY DEF sendReport, world, database
<1>2. \A m \in Meters : /\ counterDelta(kernel[m], prev[m]) \in Nat
                        /\ counterDelta(kernel[m], kernel[m]) = 0
  BY DeltaFacts DEF TelemetryInv, TelemetryTypes
<1>3. \A m \in Meters : /\ pending'[m] = pending[m] + counterDelta(kernel[m], prev[m])
                        /\ pending[m] \in Nat
  BY <1>1 DEF collect, TelemetryInv, TelemetryTypes
<1>4. pending' \in [Meters -> Nat]
  <2>1. \A m \in Meters : collect(m) \in Nat
    BY <1>2 DEF collect, TelemetryInv, TelemetryTypes
  <2>. QED  BY <1>1, <2>1
<1>5. TelemetryTypes'
  BY <1>1, <1>4 DEF TelemetryInv, TelemetryTypes
<1>6. Reports'
  <2>1. DOMAIN r = ReportFields /\ r.counted = pending'
    BY DEF ReportFields
  <2>. HIDE DEF r
  <2>2. flight \in Seq(Range(flight)) /\ \A i \in DOMAIN flight : ~flight[i].awaited
    BY <1>1 DEF TelemetryInv, Reports
  <2>3. /\ flight' \in Seq(Range(flight) \cup {r})
        /\ DOMAIN flight' = DOMAIN flight \cup {Len(flight) + 1}
        /\ flight'[Len(flight) + 1] = r
        /\ \A i \in DOMAIN flight : flight'[i] = flight[i]
    BY <1>1, <2>2
  <2>4. flight' \in Seq(Range(flight'))
    BY <2>3, OfItsRange
  <2>. QED  BY <1>1, <1>4, <2>1, <2>2, <2>3, <2>4 DEF TelemetryInv, Reports
<1>7. ASSUME NEW m \in Meters PROVE Balance(m)' = Balance(m)
  <2>1. Held(m) = pending[m] /\ Held(m)' = pending'[m]
    BY <1>1 DEF Held
  <2>2. Balance(m)' = totals[m] + pending'[m] + counterDelta(kernel[m], kernel[m])
    BY <1>1, <2>1 DEF Balance
  <2>3. totals[m] \in Nat
    BY DEF TelemetryInv, TelemetryTypes
  <2>. QED  BY <1>2, <1>3, <2>1, <2>2, <2>3 DEF Balance
<1>8. \A m \in Meters : kernel[m] \in Int
  BY DEF TelemetryInv, TelemetryTypes, Counter, Gone
<1>9. Balanced'
  BY <1>1, <1>7, <1>8 DEF TelemetryInv, Balanced
<1>. QED  BY <1>5, <1>6, <1>9 DEF TelemetryInv

LEMMA postFailedKeeps ==
  ASSUME TelemetryInv, postFailed
  PROVE  TelemetryInv'
<1>1. /\ awaiting = "report" /\ awaiting' = "nothing" /\ flight' = GivenUp
      /\ UNCHANGED <<kernel, prev, pending, totals, past>>
  BY DEF postFailed, world, database
<1>2. TelemetryTypes'
  BY <1>1 DEF TelemetryInv, TelemetryTypes
<1>3. Reports'
  BY <1>1, GivenUpFacts DEF TelemetryInv, Reports
<1>4. \A m \in Meters : Balance(m)' = Balance(m)
  BY <1>1 DEF Balance, Held
<1>5. Balanced'
  BY <1>1, <1>4 DEF TelemetryInv, Balanced
<1>. QED  BY <1>2, <1>3, <1>5 DEF TelemetryInv

LEMMA answerFailedKeeps ==
  ASSUME TelemetryInv, answerFailed
  PROVE  TelemetryInv'
<1>1. /\ awaiting = "answer" /\ awaiting' = "nothing"
      /\ UNCHANGED <<kernel, prev, pending, totals, flight>>
  BY DEF answerFailed, world, database
<1>2. /\ DOMAIN past' = PastFields /\ past'.bytes = past.bytes
      /\ past'.repeated = TRUE /\ past'.dropped = past.dropped
  BY Zenon DEF answerFailed, TelemetryInv, TelemetryTypes, PastFields
<1>3. TelemetryTypes'
  BY <1>1, <1>2 DEF TelemetryInv, TelemetryTypes
<1>4. Reports'
  BY <1>1 DEF TelemetryInv, Reports
<1>5. past'.repeated /\ (~past'.dropped => ~past.dropped)
  BY <1>2, Zenon
<1>6. ASSUME NEW m \in Meters
      PROVE  Balance(m) \in Nat /\ Balance(m)' \in Nat /\ Balance(m)' >= Balance(m)
  <2>1. totals[m] \in Nat /\ Held(m) = 0 /\ Held(m)' = pending[m] /\ pending[m] \in Nat
    BY <1>1 DEF Held, TelemetryInv, TelemetryTypes
  <2>2. counterDelta(kernel[m], prev[m]) \in Nat
    BY DeltaFacts DEF TelemetryInv, TelemetryTypes
  <2>. QED  BY <1>1, <2>1, <2>2 DEF Balance
<1>7. \A m \in Meters : past.bytes[m] \in Nat
  BY DEF TelemetryInv, TelemetryTypes
<1>8. Balanced'
  BY <1>1, <1>2, <1>5, <1>6, <1>7 DEF TelemetryInv, Balanced
<1>. QED  BY <1>3, <1>4, <1>8 DEF TelemetryInv

LEMMA postedKeeps ==
  ASSUME TelemetryInv, posted
  PROVE  TelemetryInv'
<1>1. /\ awaiting = "answer" /\ awaiting' = "nothing" /\ pending' = [m \in Meters |-> 0]
      /\ UNCHANGED <<kernel, prev, totals, flight, past>>
  BY DEF posted, world, database
<1>2. TelemetryTypes'
  BY <1>1 DEF TelemetryInv, TelemetryTypes
<1>3. Reports'
  BY <1>1 DEF TelemetryInv, Reports
<1>4. \A m \in Meters : Balance(m)' = Balance(m)
  BY <1>1 DEF Balance, Held
<1>5. Balanced'
  BY <1>1, <1>4 DEF TelemetryInv, Balanced
<1>. QED  BY <1>2, <1>3, <1>5 DEF TelemetryInv

-----------------------------------------------------------------------------
(* The control plane *)

(* One report leaves, stored or lost; the others keep what they carry.  If  *)
(* it was the awaited one, none is any more.                                *)
LEMMA ReportLeaves ==
  ASSUME Reports, NEW i \in DOMAIN flight, pending' = pending,
         NEW S, flight' \in Seq(S), DOMAIN flight' = 1..(Len(flight) - 1),
         \A j \in DOMAIN flight' :
           LET old == flight[IF j < i THEN j ELSE j + 1]
           IN  /\ DOMAIN flight'[j] = DOMAIN old
               /\ flight'[j].counted = old.counted
               /\ flight'[j].awaited => old.awaited,
         awaiting' = awaiting \/ flight[i].awaited
  PROVE  Reports'
<1>. DEFINE from(j) == IF j < i THEN j ELSE j + 1
<1>1. DOMAIN flight = 1..Len(flight) /\ Len(flight) \in Nat /\ i \in 1..Len(flight)
  BY DEF Reports
<1>2. \A j \in DOMAIN flight' : from(j) \in DOMAIN flight /\ from(j) # i
  BY <1>1
<1>3. \A j, k \in DOMAIN flight' : from(j) = from(k) => j = k
  BY <1>1
<1>4. \A j \in DOMAIN flight' :
        /\ DOMAIN flight'[j] = DOMAIN flight[from(j)]
        /\ flight'[j].counted = flight[from(j)].counted
        /\ flight'[j].awaited => flight[from(j)].awaited
  OBVIOUS
<1>. HIDE DEF from
<1>5. flight' \in Seq(Range(flight'))
  BY OfItsRange
<1>6. \A j \in DOMAIN flight' :
        flight'[j].awaited => awaiting' = "report" /\ flight'[j].counted = pending'
  BY <1>2, <1>4 DEF Reports
<1>7. \A j, k \in DOMAIN flight' : flight'[j].awaited /\ flight'[k].awaited => j = k
  BY <1>2, <1>3, <1>4 DEF Reports
<1>8. \A j \in DOMAIN flight' : /\ DOMAIN flight'[j] = ReportFields
                                /\ flight'[j].counted \in [Meters -> Nat]
  BY <1>2, <1>4 DEF Reports
<1>. QED  BY <1>5, <1>6, <1>7, <1>8 DEF Reports

LEMMA reportLostKeeps ==
  ASSUME TelemetryInv, NEW i \in DOMAIN flight, reportLost(i)
  PROVE  TelemetryInv'
<1>1. UNCHANGED <<kernel, prev, pending, awaiting, totals, past>>
  BY DEF reportLost, agentSide, world, database
<1>2. /\ flight' \in Seq(Range(flight')) /\ DOMAIN flight' = 1..(Len(flight) - 1)
      /\ \A j \in DOMAIN flight' : flight'[j] = flight[IF j < i THEN j ELSE j + 1]
  <2>1. Len(flight) \in Nat /\ i \in 1..Len(flight)
    BY DEF TelemetryInv, Reports
  <2>2. flight' = [j \in 1..(Len(flight) - 1) |-> IF j >= i THEN flight[j + 1] ELSE flight[j]]
    BY DEF reportLost, Leaves
  <2>3. DOMAIN flight' = 1..(Len(flight) - 1) /\ Len(flight) - 1 \in Nat
    BY <2>1, <2>2
  <2>4. flight' \in [1..(Len(flight) - 1) -> Range(flight')]
    BY <2>2, <2>3 DEF Range
  <2>5. flight' \in Seq(Range(flight'))
    BY <2>3, <2>4, IsASeq
  <2>. QED  BY <2>1, <2>2, <2>3, <2>5
<1>3. Reports'
  BY <1>1, <1>2, ReportLeaves DEF TelemetryInv
<1>4. TelemetryTypes'
  BY <1>1 DEF TelemetryInv, TelemetryTypes
<1>5. \A m \in Meters : Balance(m)' = Balance(m)
  BY <1>1 DEF Balance, Held
<1>6. Balanced'
  BY <1>1, <1>5 DEF TelemetryInv, Balanced
<1>. QED  BY <1>3, <1>4, <1>6 DEF TelemetryInv

(* Storing moves bytes from the agent's side to the database's, exactly     *)
(* those the agent will forget, when it is the report the agent waits for;  *)
(* any other report may count bytes again and is marked as such.            *)
LEMMA storeReportKeeps ==
  ASSUME TelemetryInv, NEW i \in DOMAIN flight, storeReport(i)
  PROVE  TelemetryInv'
<1>. DEFINE r == flight[i]
<1>1. /\ flight' = [j \in 1..(Len(flight) - 1) |->
                      IF j >= i THEN flight[j + 1] ELSE [flight[j] EXCEPT !.late = TRUE]]
      /\ totals' = [totals EXCEPT !["link"] = IF row THEN @ + r.counted["link"] ELSE @,
                                  !["flow"] = @ + r.counted["flow"]]
      /\ awaiting' = IF r.awaited THEN "answer" ELSE awaiting
      /\ UNCHANGED <<kernel, prev, pending>>
  BY DEF storeReport, Leaves, world
<1>2. /\ DOMAIN past' = PastFields /\ past'.bytes = past.bytes
      /\ ~past'.repeated => ~past.repeated /\ r.awaited
      /\ ~past'.dropped => ~past.dropped /\ (row \/ ~(r.counted["link"] > 0))
  BY Zenon DEF storeReport, TelemetryInv, TelemetryTypes, PastFields
<1>3. r.counted \in [Meters -> Nat] /\ (r.awaited => awaiting = "report" /\ r.counted = pending)
  BY DEF TelemetryInv, Reports
<1>4. Reports'
  <2>1. Len(flight) \in Nat /\ DOMAIN flight = 1..Len(flight) /\ i \in 1..Len(flight)
    BY DEF TelemetryInv, Reports
  <2>2. DOMAIN flight' = 1..(Len(flight) - 1) /\ Len(flight) - 1 \in Nat
    BY <1>1, <2>1
  <2>3. flight' \in Seq(Range(flight'))
    <3>1. flight' \in [1..(Len(flight) - 1) -> Range(flight')]
      BY <1>1 DEF Range
    <3>. QED  BY <2>2, <3>1, IsASeq
  <2>4. ASSUME NEW j \in DOMAIN flight'
        PROVE  LET old == flight[IF j < i THEN j ELSE j + 1]
               IN  /\ DOMAIN flight'[j] = DOMAIN old
                   /\ flight'[j].counted = old.counted
                   /\ flight'[j].awaited => old.awaited
    <3>1. CASE j < i
      <4>1. flight'[j] = [flight[j] EXCEPT !.late = TRUE]
        BY <1>1, <2>2, <3>1
      <4>2. DOMAIN flight[j] = ReportFields
        BY <2>1, <2>2, <3>1 DEF TelemetryInv, Reports
      <4>3. /\ DOMAIN flight'[j] = DOMAIN flight[j]
            /\ flight'[j].counted = flight[j].counted
            /\ flight'[j].awaited => flight[j].awaited
        BY <4>1, <4>2, Zenon DEF ReportFields
      <4>. QED  BY <3>1, <4>3
    <3>2. CASE ~(j < i)
      <4>1. flight'[j] = flight[j + 1]
        BY <1>1, <2>2, <3>2
      <4>. QED  BY <3>2, <4>1
    <3>. QED  BY <3>1, <3>2
  <2>5. awaiting' = awaiting \/ flight[i].awaited
    BY <1>1
  <2>. QED  BY <1>1, <2>2, <2>3, <2>4, <2>5, ReportLeaves DEF TelemetryInv
<1>. HIDE DEF r
<1>5. ASSUME NEW m \in Meters
      PROVE  /\ totals[m] \in Nat /\ r.counted[m] \in Nat
             /\ totals'[m] \in {totals[m], totals[m] + r.counted[m]}
             /\ m = "flow" \/ row \/ r.counted[m] = 0 => totals'[m] = totals[m] + r.counted[m]
  BY <1>1, <1>3 DEF TelemetryInv, TelemetryTypes, Meters
<1>6. TelemetryTypes'
  <2>1. DOMAIN totals' = Meters /\ totals' = [m \in Meters |-> totals'[m]]
    BY <1>1 DEF TelemetryInv, TelemetryTypes
  <2>2. \A m \in Meters : totals'[m] \in Nat
    BY <1>5
  <2>3. totals' \in [Meters -> Nat]
    BY <2>1, <2>2
  <2>. QED  BY <1>1, <1>2, <2>3 DEF TelemetryInv, TelemetryTypes
<1>7. ASSUME NEW m \in Meters
      PROVE  /\ Balance(m) \in Nat /\ Balance(m)' \in Nat
             /\ ~past'.repeated => Balance(m)' <= Balance(m)
             /\ ~past'.dropped => Balance(m)' >= Balance(m)
  <2>1. counterDelta(kernel[m], prev[m]) \in Nat /\ pending[m] \in Nat
    BY DeltaFacts DEF TelemetryInv, TelemetryTypes
  <2>2. counterDelta(kernel[m], prev[m])' = counterDelta(kernel[m], prev[m])
    BY <1>1
  <2>3. Held(m) \in Nat /\ Held(m)' \in Nat
    BY <1>1, <2>1 DEF Held
  <2>4. CASE r.awaited
    <3>1. Held(m) = r.counted[m] /\ Held(m)' = 0
      BY <1>1, <1>3, <2>4 DEF Held
    <3>2. ~past'.dropped => m = "flow" \/ row \/ r.counted[m] = 0
      BY <1>2, <1>5 DEF Meters
    <3>3. /\ Balance(m) = totals[m] + r.counted[m] + counterDelta(kernel[m], prev[m])
          /\ Balance(m)' = totals'[m] + 0 + counterDelta(kernel[m], prev[m])
      BY <2>2, <3>1 DEF Balance
    <3>. HIDE DEF Balance
    <3>4. /\ totals[m] \in Nat /\ r.counted[m] \in Nat
          /\ totals'[m] = totals[m] \/ totals'[m] = totals[m] + r.counted[m]
          /\ ~past'.dropped => totals'[m] = totals[m] + r.counted[m]
      BY <1>5, <3>2
    <3>. QED  BY <2>1, <3>3, <3>4
  <2>5. CASE ~r.awaited
    <3>1. Held(m)' = Held(m)
      BY <1>1, <2>5 DEF Held
    <3>2. /\ Balance(m) = totals[m] + Held(m) + counterDelta(kernel[m], prev[m])
          /\ Balance(m)' = totals'[m] + Held(m) + counterDelta(kernel[m], prev[m])
      BY <2>2, <3>1 DEF Balance
    <3>3. past'.repeated
      BY <1>2, <2>5, Zenon
    <3>4. totals[m] \in Nat /\ totals'[m] \in Nat /\ totals'[m] >= totals[m]
      BY <1>5
    <3>. QED  BY <2>1, <2>3, <3>2, <3>3, <3>4
  <2>. QED  BY <2>4, <2>5
<1>8. \A m \in Meters : past.bytes[m] \in Nat
  BY DEF TelemetryInv, TelemetryTypes
<1>9. Balanced'
  BY <1>1, <1>2, <1>7, <1>8 DEF TelemetryInv, Balanced
<1>. QED  BY <1>4, <1>6, <1>9 DEF TelemetryInv

-----------------------------------------------------------------------------
LEMMA TelemetryAlways == ReportingSpec => []TelemetryInv
<1>1. ReportingInit => TelemetryInv
  <2>. SUFFICES ASSUME ReportingInit PROVE TelemetryInv
    OBVIOUS
  <2>1. /\ kernel = [link |-> 0, flow |-> Gone] /\ prev = [m \in Meters |-> Gone]
        /\ pending = [m \in Meters |-> 0] /\ totals = [m \in Meters |-> 0]
        /\ awaiting = "nothing" /\ flight = <<>>
    BY DEF ReportingInit
  <2>2. DOMAIN past = PastFields /\ past.bytes = [m \in Meters |-> 0]
    <3>1. past = HistoryInit
      BY DEF ReportingInit
    <3>. QED  BY <3>1 DEF HistoryInit, PastFields
  <2>3. kernel \in [Meters -> Counter] /\ \A m \in Meters : kernel[m] \in {0, Gone}
    <3>1. DOMAIN kernel = Meters /\ kernel = [m \in Meters |-> kernel[m]]
      BY <2>1 DEF Meters
    <3>2. \A m \in Meters : kernel[m] \in {0, Gone}
      BY <2>1 DEF Meters
    <3>. QED  BY <3>1, <3>2 DEF Counter
  <2>4. TelemetryTypes
    BY <2>1, <2>2, <2>3 DEF TelemetryTypes, Counter
  <2>5. Reports
    <3>1. DOMAIN flight = {} /\ flight \in Seq(Range(flight))
      BY <2>1
    <3>. QED  BY <3>1 DEF Reports
  <2>6. Balanced
    <3>1. SUFFICES ASSUME NEW m \in Meters
                   PROVE  /\ Balance(m) <= past.bytes[m]
                          /\ Balance(m) >= past.bytes[m] /\ kernel[m] >= prev[m]
      BY DEF Balanced
    <3>2. /\ totals[m] = 0 /\ Held(m) = 0 /\ prev[m] = Gone
          /\ kernel[m] \in {0, Gone} /\ past.bytes[m] = 0
      BY <2>1, <2>2, <2>3 DEF Held
    <3>3. counterDelta(kernel[m], prev[m]) = 0
      BY <3>2 DEF counterDelta
    <3>. QED  BY <3>2, <3>3 DEF Balance, Gone
  <2>. QED  BY <2>4, <2>5, <2>6 DEF TelemetryInv
<1>2. TelemetryInv /\ [ReportingNext]_reportVars => TelemetryInv'
  BY QuietSteps, TrafficKeeps, ResetKeeps, RemovalKeeps, RestartKeeps, sendReportKeeps,
     postedKeeps, postFailedKeeps, answerFailedKeeps, storeReportKeeps, reportLostKeeps
     DEF ReportingNext
<1>. QED  BY <1>1, <1>2, PTL DEF ReportingSpec

(* No byte is counted twice unless a report was stored without the agent    *)
(* hearing of it or the agent restarted, and none is lost unless a counter  *)
(* was reset or the remote's row removed, for any number of bytes, faults   *)
(* and reports on their way.                                                *)
THEOREM TrafficIsAccounted == ReportingSpec => []TrafficAccounted
<1>1. TelemetryInv => TrafficAccounted
  <2>. SUFFICES ASSUME TelemetryInv, NEW m \in Meters
                PROVE  /\ ~past.repeated => totals[m] + Held(m) <= past.bytes[m]
                       /\ ~past.dropped =>
                            totals[m] + Held(m) + counterDelta(kernel[m], prev[m]) >= past.bytes[m]
    BY DEF TrafficAccounted
  <2>1. totals[m] \in Nat /\ Held(m) \in Nat /\ past.bytes[m] \in Nat
    BY DEF Held, TelemetryInv, TelemetryTypes
  <2>2. counterDelta(kernel[m], prev[m]) \in Nat
    BY DeltaFacts DEF TelemetryInv, TelemetryTypes
  <2>. QED  BY <2>1, <2>2 DEF TelemetryInv, Balanced, Balance
<1>. QED  BY <1>1, TelemetryAlways, PTL

-----------------------------------------------------------------------------
(* The event tables *)

(* What is known of the reports and the history. *)
Shaped ==
  /\ DOMAIN past = PastFields
  /\ flight \in Seq(Range(flight))
  /\ \A i \in DOMAIN flight : DOMAIN flight[i] = ReportFields

LEMMA GivenUpShape ==
  ASSUME Shaped
  PROVE  DOMAIN GivenUp = DOMAIN flight
BY DEF GivenUp, Shaped

LEMMA FcnIsSeq ==
  ASSUME NEW S, NEW n \in Nat, NEW s \in [1..n -> S]
  PROVE  s \in Seq(S) /\ Len(s) = n
<1>1. s \in Seq(S)
  BY SeqDef
<1>2. 1..Len(s) = 1..n /\ Len(s) \in Nat
  BY <1>1
<1>. QED  BY <1>1, <1>2

LEMMA LeavesFacts ==
  ASSUME Shaped, NEW i \in DOMAIN flight, NEW stored \in BOOLEAN, Leaves(i, stored)
  PROVE  /\ Len(flight) \in Nat /\ DOMAIN flight = 1..Len(flight) /\ i \in 1..Len(flight)
         /\ flight' \in Seq(Range(flight')) /\ DOMAIN flight' = 1..(Len(flight) - 1)
         /\ \A j \in DOMAIN flight' :
              /\ j < i => j \in DOMAIN flight
                         /\ flight'[j] = IF stored THEN [flight[j] EXCEPT !.late = TRUE] ELSE flight[j]
              /\ ~(j < i) => j + 1 \in DOMAIN flight /\ flight'[j] = flight[j + 1]
<1>1. Len(flight) \in Nat /\ DOMAIN flight = 1..Len(flight) /\ i \in 1..Len(flight)
  BY DEF Shaped
<1>2. DOMAIN flight' = 1..(Len(flight) - 1) /\ Len(flight) - 1 \in Nat
  BY <1>1 DEF Leaves
<1>3. flight' = [j \in 1..(Len(flight) - 1) |-> flight'[j]]
  BY <1>2 DEF Leaves
<1>4. flight' \in Seq(Range(flight'))
  <2>1. flight' \in [1..(Len(flight) - 1) -> Range(flight')]
    BY <1>2, <1>3 DEF Range
  <2>. QED  BY <1>2, <2>1, IsASeq
<1>5. ASSUME NEW j \in DOMAIN flight'
      PROVE  /\ j < i => j \in DOMAIN flight
                        /\ flight'[j] = IF stored THEN [flight[j] EXCEPT !.late = TRUE] ELSE flight[j]
             /\ ~(j < i) => j + 1 \in DOMAIN flight /\ flight'[j] = flight[j + 1]
  BY <1>1, <1>2 DEF Leaves
<1>. QED  BY <1>1, <1>2, <1>4, <1>5

InOrder(s) == \A i, j \in DOMAIN s : i < j => s[i] < s[j]

(* Every line of s is before every line of t. *)
Before(s, t) == \A i \in DOMAIN s, j \in DOMAIN t : s[i] < t[j]

(* No line is in both. *)
Apart(s, t) == \A i \in DOMAIN s, j \in DOMAIN t : s[i] # t[j]

(* The number of the last line the tailer will not read any more. *)
ReadUpTo ==
  IF offset = Gone THEN past.requests
  ELSE IF offset > file.length THEN file.first ELSE file.first + offset

UpTo(s, n) == \A i \in DOMAIN s : s[i] <= n

EventTypes ==
  /\ DOMAIN file = {"first", "length"}
  /\ file.first \in Nat /\ file.length \in Nat
  /\ past.requests = file.first + file.length
  /\ past.moves \in Nat
  /\ offset \in Nat \cup {Gone}
  /\ queue \in Seq(Nat) /\ proxyLog \in Seq(Nat)
  /\ way \in PathKinds
  /\ events \in Nat
  /\ \A i \in DOMAIN flight : flight[i].proxy \in Seq(Nat) /\ flight[i].path \in PathKinds

(* The lines on their way: read once, in the queue after those of every     *)
(* report, and in a report after those of every older one.                  *)
LinesOnTheirWay ==
  /\ InOrder(queue) /\ UpTo(queue, ReadUpTo)
  /\ \A i \in DOMAIN flight :
       /\ InOrder(flight[i].proxy) /\ UpTo(flight[i].proxy, ReadUpTo)
       /\ Before(flight[i].proxy, queue)
  /\ \A i, j \in DOMAIN flight : i < j => Before(flight[i].proxy, flight[j].proxy)

(* The lines stored: none twice, none still on its way, and in order as     *)
(* long as no report was overtaken.                                         *)
LinesStored ==
  /\ \A i, j \in DOMAIN proxyLog : i < j => proxyLog[i] # proxyLog[j]
  /\ UpTo(proxyLog, ReadUpTo) /\ Before(proxyLog, queue)
  /\ \A i \in DOMAIN flight :
       /\ Apart(proxyLog, flight[i].proxy)
       /\ ~past.overtaken /\ ~flight[i].late => Before(proxyLog, flight[i].proxy)
  /\ ~past.overtaken => InOrder(proxyLog)

(* When each report was sent, and the last one stored, counted in changes   *)
(* of the path: within one count the path is the same.                      *)
Stamped(sent, last) ==
  /\ sent \in [DOMAIN flight -> 0..past.moves] /\ last \in 0..past.moves
  /\ \A i \in DOMAIN flight : sent[i] = past.moves => flight[i].path = way
  /\ \A i, j \in DOMAIN flight :
       i < j => sent[i] <= sent[j] /\ (sent[i] = sent[j] => flight[i].path = flight[j].path)
  /\ IF lastPath = NoPath THEN events = 0
     ELSE /\ events <= last + 1
          /\ last = past.moves => lastPath = way
          /\ \A i \in DOMAIN flight :
               ~flight[i].late =>
                 last <= sent[i] /\ (last = sent[i] => flight[i].path = lastPath)

Stampable ==
  \E sent \in [DOMAIN flight -> 0..past.moves], last \in 0..past.moves : Stamped(sent, last)

EventsInv ==
  /\ EventTypes
  /\ LinesOnTheirWay /\ LinesStored
  /\ ~past.overtaken => Stampable

(* The reports on their way after a step, each one that was on its way      *)
(* before it, in the same order; some may be gone.                          *)
Thinned(from) ==
  /\ from \in [DOMAIN flight' -> DOMAIN flight]
  /\ \A i, j \in DOMAIN flight' : i < j => from[i] < from[j]
  /\ \A i \in DOMAIN flight' :
       /\ flight'[i].proxy = flight[from[i]].proxy /\ flight'[i].path = flight[from[i]].path
       /\ ~flight'[i].late => ~flight[from[i]].late

LEMMA BeforeIsApart ==
  ASSUME NEW s \in Seq(Nat), NEW t \in Seq(Nat), Before(s, t)
  PROVE  Apart(s, t) /\ Apart(t, s)
<1>1. ASSUME NEW i \in DOMAIN s, NEW j \in DOMAIN t PROVE s[i] # t[j]
  BY DEF Before
<1>. QED  BY <1>1 DEF Apart

LEMMA ThinnedKeepsLines ==
  ASSUME EventTypes, LinesOnTheirWay, LinesStored, NEW from, Thinned(from),
         queue' \in {queue, <<>>}, proxyLog' = proxyLog,
         ~past'.overtaken => ~past.overtaken,
         ReadUpTo \in Nat, ReadUpTo' \in Nat, ReadUpTo <= ReadUpTo'
  PROVE  LinesOnTheirWay' /\ LinesStored'
<1>1. ASSUME NEW s \in Seq(Nat), UpTo(s, ReadUpTo) PROVE UpTo(s, ReadUpTo')
  BY <1>1 DEF UpTo
<1>2. ASSUME NEW s, Before(s, queue) PROVE Before(s, queue')
  BY <1>2 DEF Before
<1>3. InOrder(queue') /\ UpTo(queue', ReadUpTo')
  BY <1>1 DEF InOrder, UpTo, LinesOnTheirWay, EventTypes
<1>4. ASSUME NEW i \in DOMAIN flight'
      PROVE  /\ InOrder(flight'[i].proxy) /\ UpTo(flight'[i].proxy, ReadUpTo')
             /\ Before(flight'[i].proxy, queue') /\ Apart(proxyLog', flight'[i].proxy)
             /\ ~past'.overtaken /\ ~flight'[i].late => Before(proxyLog', flight'[i].proxy)
  <2>1. from[i] \in DOMAIN flight /\ flight'[i].proxy = flight[from[i]].proxy
        /\ (~flight'[i].late => ~flight[from[i]].late)
    BY DEF Thinned
  <2>2. flight[from[i]].proxy \in Seq(Nat)
    BY <2>1 DEF EventTypes
  <2>. QED  BY <1>1, <1>2, <2>1, <2>2 DEF LinesOnTheirWay, LinesStored
<1>5. ASSUME NEW i \in DOMAIN flight', NEW j \in DOMAIN flight', i < j
      PROVE  Before(flight'[i].proxy, flight'[j].proxy)
  <2>1. from[i] \in DOMAIN flight /\ from[j] \in DOMAIN flight /\ from[i] < from[j]
    BY <1>5 DEF Thinned
  <2>. QED  BY <2>1 DEF Thinned, LinesOnTheirWay
<1>6. UpTo(proxyLog', ReadUpTo') /\ Before(proxyLog', queue')
  BY <1>1, <1>2 DEF LinesStored, EventTypes
<1>7. LinesOnTheirWay'
  BY <1>3, <1>4, <1>5 DEF LinesOnTheirWay
<1>8. LinesStored'
  BY <1>4, <1>6 DEF LinesStored
<1>. QED  BY <1>7, <1>8

LEMMA ThinnedKeepsStamps ==
  ASSUME Stampable, NEW from, Thinned(from), past'.moves = past.moves, way' = way,
         (lastPath' = lastPath /\ events' = events) \/ (lastPath' = NoPath /\ events' = 0)
  PROVE  Stampable'
<1>1. PICK sent \in [DOMAIN flight -> 0..past.moves], last \in 0..past.moves : Stamped(sent, last)
  BY DEF Stampable
<1>2. PICK new : new = [i \in DOMAIN flight' |-> sent[from[i]]]
  OBVIOUS
<1>3. /\ new \in [DOMAIN flight' -> 0..past'.moves] /\ last \in 0..past'.moves
      /\ \A i \in DOMAIN flight' : new[i] = sent[from[i]] /\ from[i] \in DOMAIN flight
  BY <1>1, <1>2 DEF Thinned
<1>4. Stamped(new, last)'
  <2>1. ASSUME NEW i \in DOMAIN flight', new[i] = past'.moves PROVE flight'[i].path = way'
    <3>1. from[i] \in DOMAIN flight /\ sent[from[i]] = past.moves
          /\ flight'[i].path = flight[from[i]].path
      BY <1>3, <2>1 DEF Thinned
    <3>. QED  BY <1>1, <3>1 DEF Stamped
  <2>2. ASSUME NEW i \in DOMAIN flight', NEW j \in DOMAIN flight', i < j
        PROVE  new[i] <= new[j] /\ (new[i] = new[j] => flight'[i].path = flight'[j].path)
    <3>1. /\ from[i] \in DOMAIN flight /\ from[j] \in DOMAIN flight /\ from[i] < from[j]
          /\ new[i] = sent[from[i]] /\ new[j] = sent[from[j]]
          /\ flight'[i].path = flight[from[i]].path /\ flight'[j].path = flight[from[j]].path
      BY <1>3, <2>2 DEF Thinned
    <3>. QED  BY <1>1, <3>1 DEF Stamped
  <2>3. ASSUME lastPath' # NoPath, NEW i \in DOMAIN flight', ~flight'[i].late
        PROVE  last <= new[i] /\ (last = new[i] => flight'[i].path = lastPath')
    BY <1>1, <1>3, <2>3 DEF Thinned, Stamped
  <2>4. IF lastPath' = NoPath THEN events' = 0
        ELSE events' <= last + 1 /\ (last = past'.moves => lastPath' = way')
    BY <1>1 DEF Stamped
  <2>. QED  BY <1>3, <2>1, <2>2, <2>3, <2>4 DEF Stamped
<1>. QED  BY <1>3, <1>4 DEF Stampable

LEMMA ReadUpToType ==
  ASSUME EventTypes
  PROVE  ReadUpTo \in Nat /\ ReadUpTo <= past.requests
BY DEF EventTypes, ReadUpTo, Gone

LEMMA SameReports ==
  ASSUME Shaped, flight' = flight \/ flight' = GivenUp
  PROVE  \E from : Thinned(from)
<1>1. PICK from : from = [i \in DOMAIN flight' |-> i]
  OBVIOUS
<1>2. DOMAIN flight' = DOMAIN flight
  BY GivenUpShape
<1>3. ASSUME NEW i \in DOMAIN flight'
      PROVE  /\ flight'[i].proxy = flight[i].proxy /\ flight'[i].path = flight[i].path
             /\ flight'[i].late = flight[i].late
  <2>1. CASE flight' = flight
    BY <2>1, Zenon
  <2>2. CASE flight' = GivenUp
    <3>1. flight'[i] = [flight[i] EXCEPT !.awaited = FALSE] /\ DOMAIN flight[i] = ReportFields
      BY <1>2, <2>2 DEF GivenUp, Shaped
    <3>. QED  BY <3>1, Zenon DEF ReportFields
  <2>. QED  BY <2>1, <2>2
<1>4. \A i \in DOMAIN flight' : ~flight'[i].late => ~flight[i].late
  BY <1>3, Zenon
<1>5. Thinned(from)
  BY <1>1, <1>2, <1>3, <1>4 DEF Thinned
<1>. QED  BY <1>5

LEMMA ThinnedTypes ==
  ASSUME EventTypes, NEW from, Thinned(from), NEW i \in DOMAIN flight'
  PROVE  flight'[i].proxy \in Seq(Nat) /\ flight'[i].path \in PathKinds
BY DEF EventTypes, Thinned

(* A step that stores nothing and leaves the path alone. *)
LEMMA ThinnedKeeps ==
  ASSUME EventsInv, EventTypes', NEW from, Thinned(from),
         queue' \in {queue, <<>>}, proxyLog' = proxyLog, way' = way,
         past'.moves = past.moves, past'.overtaken = past.overtaken, ReadUpTo <= ReadUpTo',
         (lastPath' = lastPath /\ events' = events) \/ (lastPath' = NoPath /\ events' = 0)
  PROVE  EventsInv'
<1>1. ReadUpTo \in Nat /\ ReadUpTo' \in Nat
  <2>1. ReadUpTo \in Nat
    BY ReadUpToType DEF EventsInv
  <2>2. ReadUpTo' \in Nat
    BY DEF EventTypes, ReadUpTo, Gone
  <2>. QED  BY <2>1, <2>2
<1>2. ~past'.overtaken => ~past.overtaken
  BY Zenon
<1>3. LinesOnTheirWay' /\ LinesStored'
  BY <1>1, <1>2, ThinnedKeepsLines DEF EventsInv
<1>4. ~past'.overtaken => Stampable'
  BY <1>2, ThinnedKeepsStamps DEF EventsInv
<1>. QED  BY <1>3, <1>4 DEF EventsInv

LEMMA QuietKeepsEvents ==
  ASSUME Shaped, EventsInv,
         \/ \E m \in Meters : Traffic(m) \/ \E to \in {0, Gone} : CounterResets(m, to)
         \/ RemoteRemoved \/ RemoteEnrolls \/ posted \/ postFailed \/ answerFailed
         \/ UNCHANGED reportVars
  PROVE  EventsInv'
<1>1. UNCHANGED <<file, offset, queue, way, proxyLog>> /\ (flight' = flight \/ flight' = GivenUp)
  BY DEF Traffic, CounterResets, RemoteRemoved, RemoteEnrolls, posted, postFailed, answerFailed,
         reportVars, agentSide, world, database
<1>2. (lastPath' = lastPath /\ events' = events) \/ (lastPath' = NoPath /\ events' = 0)
  BY DEF Traffic, CounterResets, RemoteRemoved, RemoteEnrolls, posted, postFailed, answerFailed,
         reportVars, database
<1>3. DOMAIN past = PastFields
  BY DEF Shaped
<1>4. PICK x, y : \/ past' = past
                  \/ past' = [past EXCEPT !.bytes = x]
                  \/ past' = [past EXCEPT !.faults = x, !.dropped = y]
                  \/ past' = [past EXCEPT !.faults = x, !.repeated = y]
  <2>1. CASE \E m \in Meters : Traffic(m)
    <3>1. PICK m \in Meters : past' = [past EXCEPT !.bytes[m] = @ + 1]
      BY <2>1 DEF Traffic
    <3>2. past' = [past EXCEPT !.bytes = [past.bytes EXCEPT ![m] = @ + 1]]
      BY <3>1, <1>3 DEF PastFields
    <3>. QED  BY <3>2
  <2>2. CASE \/ \E m \in Meters, to \in {0, Gone} : CounterResets(m, to)
             \/ RemoteRemoved
    <3>1. past' = [past EXCEPT !.faults = past.faults + 1, !.dropped = TRUE]
      BY <2>2 DEF CounterResets, RemoteRemoved
    <3>. QED  BY <3>1
  <2>3. CASE answerFailed
    <3>1. past' = [past EXCEPT !.faults = past.faults + 1, !.repeated = TRUE]
      BY <2>3 DEF answerFailed
    <3>. QED  BY <3>1
  <2>4. CASE RemoteEnrolls \/ posted \/ postFailed \/ UNCHANGED reportVars
    BY <2>4 DEF RemoteEnrolls, posted, postFailed, reportVars
  <2>. QED  BY <2>1, <2>2, <2>3, <2>4
<1>5. /\ past'.moves = past.moves /\ past'.requests = past.requests
      /\ past'.overtaken = past.overtaken
  BY <1>3, <1>4, Zenon DEF PastFields
<1>6. PICK from : Thinned(from)
  BY <1>1, SameReports
<1>7. EventTypes'
  <2>1. \A i \in DOMAIN flight' : flight'[i].proxy \in Seq(Nat) /\ flight'[i].path \in PathKinds
    BY <1>6, ThinnedTypes DEF EventsInv
  <2>2. events' \in Nat
    BY <1>2 DEF EventsInv, EventTypes
  <2>. QED  BY <1>1, <1>5, <2>1, <2>2 DEF EventsInv, EventTypes
<1>8. ReadUpTo' = ReadUpTo /\ ReadUpTo \in Nat
  BY <1>1, <1>5, ReadUpToType DEF ReadUpTo, EventsInv
<1>. QED  BY <1>1, <1>2, <1>5, <1>6, <1>7, <1>8, ThinnedKeeps

(* The log grows or is truncated, the agent restarts: the tailer is never   *)
(* set back.                                                                *)
LEMMA LogKeepsEvents ==
  ASSUME Shaped, EventsInv, ProxyRequest \/ LogRotates \/ ReporterRestarts
  PROVE  EventsInv'
<1>1. UNCHANGED <<way, proxyLog, lastPath, events>> /\ (flight' = flight \/ flight' = GivenUp)
      /\ queue' \in {queue, <<>>} /\ offset' \in {offset, Gone}
  BY DEF ProxyRequest, LogRotates, ReporterRestarts, agentSide, database
<1>2. DOMAIN past = PastFields
  BY DEF Shaped
<1>3. /\ past'.moves = past.moves /\ past'.overtaken = past.overtaken
      /\ past'.requests = IF ProxyRequest THEN past.requests + 1 ELSE past.requests
  <2>1. CASE ProxyRequest
    BY <1>2, <2>1, Zenon DEF PastFields, ProxyRequest
  <2>2. CASE ~ProxyRequest /\ (LogRotates \/ ReporterRestarts)
    <3>1. PICK x, y, z : \/ past' = [past EXCEPT !.faults = x]
                         \/ past' = [past EXCEPT !.faults = x, !.dropped = y, !.repeated = z]
      BY <2>2 DEF LogRotates, ReporterRestarts
    <3>. QED  BY <1>2, <2>2, <3>1, Zenon DEF PastFields
  <2>. QED  BY <2>1, <2>2
<1>4. PICK from : Thinned(from)
  BY <1>1, SameReports
<1>5. /\ DOMAIN file' = {"first", "length"} /\ file'.first \in Nat /\ file'.length \in Nat
      /\ past'.requests = file'.first + file'.length
      /\ \/ file' = file
         \/ file'.first = file.first /\ file'.length = file.length + 1
         \/ file'.first = past.requests /\ file'.length = 0
  <2>1. CASE ProxyRequest
    <3>1. file' = [file EXCEPT !.length = @ + 1] /\ past'.requests = past.requests + 1
      BY <1>3, <2>1 DEF ProxyRequest
    <3>2. file'.length = file.length + 1 /\ file'.first = file.first
          /\ DOMAIN file' = {"first", "length"}
      BY <3>1 DEF EventsInv, EventTypes
    <3>. QED  BY <3>1, <3>2 DEF EventsInv, EventTypes
  <2>2. CASE ~ProxyRequest /\ LogRotates
    BY <1>3, <2>2 DEF LogRotates, EventsInv, EventTypes
  <2>3. CASE ~ProxyRequest /\ ReporterRestarts
    BY <1>3, <2>3 DEF ReporterRestarts, EventsInv, EventTypes
  <2>. QED  BY <2>1, <2>2, <2>3
<1>6. EventTypes'
  <2>1. \A i \in DOMAIN flight' : flight'[i].proxy \in Seq(Nat) /\ flight'[i].path \in PathKinds
    BY <1>4, ThinnedTypes DEF EventsInv
  <2>2. queue' \in Seq(Nat) /\ proxyLog' \in Seq(Nat) /\ offset' \in Nat \cup {Gone}
    <3>1. <<>> \in Seq(Nat)
      OBVIOUS
    <3>. QED  BY <1>1, <3>1 DEF EventsInv, EventTypes
  <2>3. past'.moves \in Nat /\ way' \in PathKinds /\ events' \in Nat
    BY <1>1, <1>3 DEF EventsInv, EventTypes
  <2>. QED  BY <1>5, <2>1, <2>2, <2>3 DEF EventTypes
<1>7. ReadUpTo <= ReadUpTo'
  BY <1>1, <1>3, <1>5 DEF ReadUpTo, EventsInv, EventTypes, Gone
<1>. QED  BY <1>1, <1>3, <1>4, <1>6, <1>7, ThinnedKeeps

LEMMA WayKeepsEvents ==
  ASSUME Shaped, EventsInv, NEW to \in PathKinds, WayChanges(to)
  PROVE  EventsInv'
<1>1. /\ way' = to /\ past' = [past EXCEPT !.moves = @ + 1]
      /\ UNCHANGED <<file, offset, queue, flight, proxyLog, lastPath, events>>
  BY DEF WayChanges, agentSide, database
<1>2. DOMAIN past = PastFields
  BY DEF Shaped
<1>3. /\ past'.moves = past.moves + 1 /\ past'.requests = past.requests
      /\ past'.overtaken = past.overtaken
  BY <1>1, <1>2, Zenon DEF PastFields
<1>4. EventTypes' /\ ReadUpTo' = ReadUpTo
  BY <1>1, <1>3 DEF EventsInv, EventTypes, ReadUpTo
<1>5. ~past'.overtaken => ~past.overtaken
  BY <1>3, Zenon
<1>6. LinesOnTheirWay' /\ LinesStored'
  BY <1>1, <1>4, <1>5 DEF EventsInv, LinesOnTheirWay, LinesStored
<1>7. ASSUME Stampable PROVE Stampable'
  <2>1. PICK sent \in [DOMAIN flight -> 0..past.moves], last \in 0..past.moves :
          Stamped(sent, last)
    BY <1>7 DEF Stampable
  <2>2. past.moves \in Nat /\ sent \in [DOMAIN flight' -> 0..past'.moves] /\ last \in 0..past'.moves
    BY <1>1, <1>3, <2>1 DEF EventsInv, EventTypes
  <2>3. \A i \in DOMAIN flight : sent[i] # past'.moves
    BY <1>3, <2>1, <2>2
  <2>4. last # past'.moves
    BY <1>3, <2>1, <2>2
  <2>5. Stamped(sent, last)'
    BY <1>1, <2>1, <2>2, <2>3, <2>4 DEF Stamped
  <2>. QED  BY <2>2, <2>5 DEF Stampable
<1>. QED  BY <1>4, <1>5, <1>6, <1>7 DEF EventsInv

-----------------------------------------------------------------------------
(* Reading the log *)

(* What is left in the queue is the end of what was read. *)
LEMMA IngestFacts ==
  ASSUME NEW q \in Seq(Nat), NEW lines \in Seq(Nat),
         NEW n \in Nat, n = Len(q) + Len(lines)
  PROVE  \E d \in 0..n :
           /\ ingest(q, lines) \in Seq(Nat)
           /\ DOMAIN ingest(q, lines) = 1..(n - d)
           /\ \A i \in 1..(n - d) :
                ingest(q, lines)[i] =
                  IF i + d <= Len(q) THEN q[i + d] ELSE lines[i + d - Len(q)]
<1>. DEFINE all == q \o lines
<1>1. /\ all \in Seq(Nat) /\ Len(all) = n /\ Len(q) \in Nat
      /\ \A i \in 1..n : all[i] = IF i <= Len(q) THEN q[i] ELSE lines[i - Len(q)]
  BY ConcatProperties
<1>2. proxyTailMaxQueue \in Nat
  BY QueueAssumption
<1>. HIDE DEF all
<1>3. CASE n > proxyTailMaxQueue
  <2>1. PICK d : d = n - proxyTailMaxQueue
    OBVIOUS
  <2>. DEFINE s == SubSeq(all, d + 1, n)
  <2>2. d \in 0..n /\ n - d = proxyTailMaxQueue /\ n - proxyTailMaxQueue + 1 = d + 1
    BY <1>2, <1>3, <2>1
  <2>3. ingest(q, lines) = s
    BY <1>1, <1>3, <2>2 DEF ingest, all
  <2>4. /\ s \in Seq(Nat) /\ Len(s) = IF d + 1 <= n THEN n - (d + 1) + 1 ELSE 0
        /\ \A i \in 1..(n - (d + 1) + 1) : s[i] = all[(d + 1) + i - 1]
    <3>1. d + 1 \in Int /\ n \in Int /\ \A i \in (d + 1)..n : all[i] \in Nat
      BY <1>1, <2>2
    <3>. QED  BY <3>1, SubSeqProperties
  <2>. HIDE DEF s
  <2>5. n - (d + 1) + 1 = n - d
    BY <2>2
  <2>6. DOMAIN s = 1..(n - d)
    <3>1. Len(s) = n - d
      BY <2>2, <2>4
    <3>2. DOMAIN s = 1..Len(s)
      BY <2>4
    <3>. QED  BY <3>1, <3>2
  <2>7. \A i \in 1..(n - d) : s[i] = IF i + d <= Len(q) THEN q[i + d] ELSE lines[i + d - Len(q)]
    <3>1. TAKE i \in 1..(n - d)
    <3>2. PICK k \in 1..n : k = i + d /\ (d + 1) + i - 1 = k /\ i \in 1..(n - (d + 1) + 1)
      BY <2>2
    <3>3. s[i] = all[k]
      BY <2>4, <3>2
    <3>4. all[k] = IF k <= Len(q) THEN q[k] ELSE lines[k - Len(q)]
      BY <1>1
    <3>. QED  BY <2>2, <3>2, <3>3, <3>4
  <2>8. s \in Seq(Nat)
    BY <2>4
  <2>. QED  BY <2>2, <2>3, <2>6, <2>7, <2>8
<1>4. CASE ~(n > proxyTailMaxQueue)
  <2>1. ingest(q, lines) = all
    BY <1>1, <1>4 DEF ingest, all
  <2>2. DOMAIN all = 1..n
    BY <1>1
  <2>3. /\ 0 \in 0..n /\ n - 0 = n
        /\ \A i \in 1..n : i + 0 = i
    OBVIOUS
  <2>4. \A i \in 1..(n - 0) :
          all[i] = IF i + 0 <= Len(q) THEN q[i + 0] ELSE lines[i + 0 - Len(q)]
    BY <1>1
  <2>. QED  BY <1>1, <2>1, <2>2, <2>3, <2>4
<1>. QED  BY <1>3, <1>4

LEMMA tailKeepsEvents ==
  ASSUME Shaped, EventsInv, tailProxyLog
  PROVE  EventsInv'
<1>. DEFINE start == IF file.length < offset THEN 0 ELSE offset
            lines == [i \in 1..(file.length - start) |-> file.first + start + i]
<1>1. /\ offset' = file.length
      /\ queue' = IF offset = Gone THEN queue ELSE ingest(queue, lines)
      /\ UNCHANGED <<file, way, flight, proxyLog, lastPath, events, past>>
  BY DEF tailProxyLog, world, database
<1>2. ReadUpTo \in Nat /\ ReadUpTo' = past.requests /\ ReadUpTo <= past.requests
      /\ past.requests \in Nat
  BY <1>1, ReadUpToType DEF EventsInv, EventTypes, ReadUpTo, Gone
<1>3. CASE offset = Gone
  <2>1. PICK from : Thinned(from)
    BY <1>1, SameReports
  <2>2. EventTypes'
    BY <1>1, <1>3 DEF EventsInv, EventTypes
  <2>. QED  BY <1>1, <1>2, <1>3, <2>1, <2>2, ThinnedKeeps
<1>4. CASE offset # Gone
  <2>1. /\ start \in Nat /\ file.length - start \in Nat /\ ReadUpTo = file.first + start
        /\ file.first \in Nat /\ file.length \in Nat
    BY <1>4 DEF EventsInv, EventTypes, ReadUpTo
  <2>. HIDE DEF start
  <2>2. PICK m \in Nat : m = file.length - start /\ ReadUpTo + m = past.requests
    BY <2>1 DEF EventsInv, EventTypes
  <2>3. /\ lines \in Seq(Nat) /\ Len(lines) = m
        /\ \A i \in 1..m : lines[i] = ReadUpTo + i
    <3>1. \A i \in 1..m : file.first + start + i \in Nat
      BY <2>1
    <3>2. lines \in [1..m -> Nat]
      BY <2>2, <3>1
    <3>. HIDE DEF lines
    <3>3. lines \in Seq(Nat) /\ Len(lines) = m
      BY <3>2, FcnIsSeq
    <3>. USE DEF lines
    <3>. QED  BY <2>1, <2>2, <3>3
  <2>. HIDE DEF lines
  <2>4. PICK l \in Nat : l = Len(queue) /\ DOMAIN queue = 1..l /\ queue \in Seq(Nat)
    BY DEF EventsInv, EventTypes
  <2>5. PICK n \in Nat : n = l + m
    BY <2>4
  <2>6. PICK d \in 0..n :
          /\ queue' \in Seq(Nat) /\ DOMAIN queue' = 1..(n - d)
          /\ \A i \in 1..(n - d) :
               queue'[i] = IF i + d <= l THEN queue[i + d] ELSE lines[i + d - l]
    <3>1. queue' = ingest(queue, lines) /\ n = Len(queue) + Len(lines)
      BY <1>1, <1>4, <2>3, <2>4, <2>5
    <3>2. \E d \in 0..n :
            /\ ingest(queue, lines) \in Seq(Nat)
            /\ DOMAIN ingest(queue, lines) = 1..(n - d)
            /\ \A i \in 1..(n - d) :
                 ingest(queue, lines)[i] =
                   IF i + d <= Len(queue) THEN queue[i + d] ELSE lines[i + d - Len(queue)]
      BY <2>3, <2>4, <3>1, IngestFacts
    <3>. QED  BY <2>4, <3>1, <3>2
  (* A line of the queue was there before, or is one of the new ones. *)
  <2>7. ASSUME NEW i \in DOMAIN queue'
        PROVE  \E k \in 1..n : /\ k = i + d
                               /\ k <= l => k \in DOMAIN queue /\ queue'[i] = queue[k]
                               /\ k > l => k - l <= m /\ queue'[i] = ReadUpTo + (k - l)
    <3>1. PICK k \in 1..n : k = i + d
      BY <2>6
    <3>2. queue'[i] = IF k <= l THEN queue[k] ELSE lines[k - l]
      BY <2>6, <3>1
    <3>3. k > l => k - l \in 1..m
      BY <2>4, <2>5, <3>1
    <3>4. k <= l => k \in DOMAIN queue /\ queue'[i] = queue[k]
      BY <2>4, <3>1, <3>2
    <3>5. k > l => k - l <= m /\ queue'[i] = ReadUpTo + (k - l)
      <4>1. SUFFICES ASSUME k > l PROVE k - l <= m /\ queue'[i] = ReadUpTo + (k - l)
        OBVIOUS
      <4>2. ~(k <= l) /\ k - l \in 1..m /\ k - l <= m
        BY <2>4, <2>5, <3>1, <3>3, <4>1
      <4>. QED  BY <2>3, <3>2, <4>2
    <3>. QED  BY <3>1, <3>4, <3>5
  <2>8. \A i \in DOMAIN queue : queue[i] \in Nat /\ queue[i] <= ReadUpTo
    BY <2>4 DEF EventsInv, LinesOnTheirWay, UpTo
  <2>9. InOrder(queue') /\ UpTo(queue', past.requests)
    <3>1. ASSUME NEW i \in DOMAIN queue', NEW j \in DOMAIN queue', i < j
          PROVE  queue'[i] < queue'[j]
      <4>1. PICK k \in 1..n : /\ k = i + d
                              /\ k <= l => k \in DOMAIN queue /\ queue'[i] = queue[k]
                              /\ k > l => queue'[i] = ReadUpTo + (k - l)
        BY <2>7
      <4>2. PICK h \in 1..n : /\ h = j + d
                              /\ h <= l => h \in DOMAIN queue /\ queue'[j] = queue[h]
                              /\ h > l => queue'[j] = ReadUpTo + (h - l)
        BY <2>7
      <4>3. k < h
        BY <2>6, <3>1, <4>1, <4>2
      <4>4. CASE h <= l
        BY <4>1, <4>2, <4>3, <4>4 DEF EventsInv, LinesOnTheirWay, InOrder
      <4>5. CASE h > l
        BY <1>2, <2>8, <4>1, <4>2, <4>3, <4>5
      <4>. QED  BY <4>4, <4>5
    <3>2. ASSUME NEW i \in DOMAIN queue' PROVE queue'[i] <= past.requests
      BY <1>2, <2>2, <2>7, <2>8
    <3>. QED  BY <3>1, <3>2 DEF InOrder, UpTo
  <2>10. ASSUME NEW s \in Seq(Nat), Before(s, queue), UpTo(s, ReadUpTo)
         PROVE  Before(s, queue')
    <3>1. SUFFICES ASSUME NEW h \in DOMAIN s, NEW i \in DOMAIN queue' PROVE s[h] < queue'[i]
      BY DEF Before
    <3>2. s[h] \in Nat /\ s[h] <= ReadUpTo /\ \A k \in DOMAIN queue : s[h] < queue[k]
      BY <2>10 DEF UpTo, Before
    <3>. QED  BY <1>2, <2>7, <3>2
  <2>11. ASSUME NEW s \in Seq(Nat), UpTo(s, ReadUpTo) PROVE UpTo(s, past.requests)
    BY <1>2, <2>11 DEF UpTo
  <2>12. EventTypes'
    BY <1>1, <2>1, <2>6 DEF EventsInv, EventTypes
  <2>13. LinesOnTheirWay'
    BY <1>1, <1>2, <2>9, <2>10, <2>11 DEF EventsInv, EventTypes, LinesOnTheirWay
  <2>14. LinesStored'
    BY <1>1, <1>2, <2>10, <2>11 DEF EventsInv, EventTypes, LinesStored
  <2>15. ~past'.overtaken => Stampable'
    BY <1>1 DEF EventsInv, Stampable, Stamped
  <2>. QED  BY <2>12, <2>13, <2>14, <2>15 DEF EventsInv
<1>. QED  BY <1>3, <1>4

-----------------------------------------------------------------------------
(* Reports *)

(* A report takes the first lines of the queue and leaves the others. *)
LEMMA DrainFacts ==
  ASSUME EventsInv
  PROVE  /\ SubSeq(queue, 1, Drained) \in Seq(Nat) /\ drain \in Seq(Nat)
         /\ InOrder(SubSeq(queue, 1, Drained)) /\ InOrder(drain)
         /\ Before(SubSeq(queue, 1, Drained), drain)
         /\ \A i \in DOMAIN SubSeq(queue, 1, Drained) :
              \E k \in DOMAIN queue : SubSeq(queue, 1, Drained)[i] = queue[k]
         /\ \A i \in DOMAIN drain : \E k \in DOMAIN queue : drain[i] = queue[k]
<1>. DEFINE front == SubSeq(queue, 1, Drained)
<1>1. PICK l \in Nat : l = Len(queue) /\ DOMAIN queue = 1..l /\ \A i \in 1..l : queue[i] \in Nat
  <2>1. queue \in Seq(Nat)
    BY DEF EventsInv, EventTypes
  <2>2. Len(queue) \in Nat /\ DOMAIN queue = 1..Len(queue) /\ \A i \in 1..Len(queue) : queue[i] \in Nat
    BY <2>1
  <2>. QED  BY <2>2
<1>2. PICK t \in 0..l : t = Drained
  <2>1. Drained \in 0..l
    <3>1. CASE Len(queue) < proxyDrainPerTick
      BY <1>1, <3>1 DEF Drained
    <3>2. CASE ~(Len(queue) < proxyDrainPerTick)
      BY <1>1, <3>2, QueueAssumption DEF Drained
    <3>. QED  BY <3>1, <3>2
  <2>. QED  BY <2>1
<1>3. front = SubSeq(queue, 1, t) /\ drain = SubSeq(queue, t + 1, l)
  BY <1>1, <1>2 DEF drain
<1>4. /\ front \in Seq(Nat) /\ Len(front) = t
      /\ \A i \in 1..t : front[i] = queue[i]
  <2>1. 1 \in Int /\ t \in Int /\ \A i \in 1..t : queue[i] \in Nat
    BY <1>1
  <2>2. /\ SubSeq(queue, 1, t) \in Seq(Nat)
        /\ Len(SubSeq(queue, 1, t)) = IF 1 <= t THEN t - 1 + 1 ELSE 0
        /\ \A i \in 1..(t - 1 + 1) : SubSeq(queue, 1, t)[i] = queue[1 + i - 1]
    BY <2>1, SubSeqProperties
  <2>3. t - 1 + 1 = t /\ (~(1 <= t) => t = 0) /\ \A i \in 1..t : 1 + i - 1 = i
    OBVIOUS
  <2>4. Len(front) = t
    BY <1>3, <2>2, <2>3
  <2>5. \A i \in 1..t : front[i] = queue[i]
    BY <1>3, <2>2, <2>3
  <2>. QED  BY <1>3, <2>2, <2>4, <2>5
<1>5. /\ drain \in Seq(Nat) /\ Len(drain) = l - t
      /\ \A i \in 1..(l - t) : drain[i] = queue[t + i]
  <2>1. t + 1 \in Int /\ l \in Int /\ \A i \in (t + 1)..l : queue[i] \in Nat
    BY <1>1
  <2>2. /\ SubSeq(queue, t + 1, l) \in Seq(Nat)
        /\ Len(SubSeq(queue, t + 1, l)) = IF t + 1 <= l THEN l - (t + 1) + 1 ELSE 0
        /\ \A i \in 1..(l - (t + 1) + 1) : SubSeq(queue, t + 1, l)[i] = queue[(t + 1) + i - 1]
    BY <2>1, SubSeqProperties
  <2>3. l - (t + 1) + 1 = l - t /\ \A i \in 1..(l - t) : (t + 1) + i - 1 = t + i
    OBVIOUS
  <2>. QED  BY <1>3, <2>2, <2>3
<1>6. DOMAIN front = 1..t /\ DOMAIN drain = 1..(l - t)
  <2>1. DOMAIN front = 1..Len(front) /\ DOMAIN drain = 1..Len(drain)
    BY <1>4, <1>5
  <2>. QED  BY <1>4, <1>5, <2>1
<1>. HIDE DEF front
<1>7. \A i \in DOMAIN front : i \in DOMAIN queue /\ front[i] = queue[i]
  BY <1>1, <1>4, <1>6
<1>8. \A i \in DOMAIN drain : t + i \in DOMAIN queue /\ drain[i] = queue[t + i]
  BY <1>1, <1>5, <1>6
<1>9. \A i, j \in DOMAIN queue : i < j => queue[i] < queue[j]
  BY DEF EventsInv, LinesOnTheirWay, InOrder
<1>10. InOrder(front)
  BY <1>7, <1>9 DEF InOrder
<1>11. InOrder(drain)
  <2>1. SUFFICES ASSUME NEW i \in DOMAIN drain, NEW j \in DOMAIN drain, i < j
                 PROVE  drain[i] < drain[j]
    BY DEF InOrder
  <2>2. t + i < t + j
    BY <1>6, <2>1
  <2>. QED  BY <1>8, <1>9, <2>2
<1>12. Before(front, drain)
  <2>1. SUFFICES ASSUME NEW i \in DOMAIN front, NEW j \in DOMAIN drain
                 PROVE  front[i] < drain[j]
    BY DEF Before
  <2>2. i < t + j
    BY <1>6, <2>1
  <2>. QED  BY <1>7, <1>8, <1>9, <2>2
<1>. QED  BY <1>4, <1>5, <1>7, <1>8, <1>10, <1>11, <1>12 DEF front

LEMMA sendKeepsEvents ==
  ASSUME Shaped, EventsInv, sendReport
  PROVE  EventsInv'
<1>. DEFINE front == SubSeq(queue, 1, Drained)
            r == [counted |-> pending', path |-> way, late |-> FALSE,
                  awaited |-> TRUE, proxy |-> front]
<1>1. /\ flight' = Append(flight, r) /\ queue' = drain
      /\ UNCHANGED <<file, offset, way, proxyLog, lastPath, events, past>>
  BY DEF sendReport, world, database
<1>2. /\ front \in Seq(Nat) /\ drain \in Seq(Nat)
      /\ InOrder(front) /\ InOrder(drain) /\ Before(front, drain)
      /\ \A i \in DOMAIN front : \E k \in DOMAIN queue : front[i] = queue[k]
      /\ \A i \in DOMAIN drain : \E k \in DOMAIN queue : drain[i] = queue[k]
  BY DrainFacts
<1>. HIDE DEF front
<1>3. r.path = way /\ r.proxy = front
  OBVIOUS
<1>. HIDE DEF r
<1>4. PICK n \in Nat : n = Len(flight) /\ DOMAIN flight = 1..n
  BY DEF Shaped
<1>5. /\ DOMAIN flight' = 1..(n + 1) /\ flight'[n + 1] = r
      /\ \A i \in DOMAIN flight : flight'[i] = flight[i]
  BY <1>1, <1>4 DEF Shaped
<1>6. \A i \in DOMAIN flight' : i \in DOMAIN flight \/ i = n + 1
  BY <1>4, <1>5
<1>7. EventTypes' /\ ReadUpTo' = ReadUpTo
  <2>1. \A i \in DOMAIN flight' : flight'[i].proxy \in Seq(Nat) /\ flight'[i].path \in PathKinds
    BY <1>2, <1>3, <1>5, <1>6 DEF EventsInv, EventTypes
  <2>. QED  BY <1>1, <1>2, <2>1 DEF EventsInv, EventTypes, ReadUpTo
<1>8. UpTo(front, ReadUpTo) /\ UpTo(drain, ReadUpTo)
  BY <1>2 DEF EventsInv, LinesOnTheirWay, UpTo
<1>9. ASSUME NEW s, Before(s, queue) PROVE Before(s, front) /\ Before(s, drain)
  BY <1>2, <1>9 DEF Before
<1>10. LinesOnTheirWay'
  <2>1. ASSUME NEW i \in DOMAIN flight'
        PROVE  /\ InOrder(flight'[i].proxy) /\ UpTo(flight'[i].proxy, ReadUpTo)
               /\ Before(flight'[i].proxy, drain)
    BY <1>2, <1>3, <1>5, <1>6, <1>8, <1>9 DEF EventsInv, LinesOnTheirWay
  <2>2. ASSUME NEW i \in DOMAIN flight', NEW j \in DOMAIN flight', i < j
        PROVE  Before(flight'[i].proxy, flight'[j].proxy)
    <3>1. i \in DOMAIN flight /\ flight'[i] = flight[i]
      BY <1>4, <1>5, <2>2
    <3>2. CASE j \in DOMAIN flight
      BY <1>5, <2>2, <3>1, <3>2 DEF EventsInv, LinesOnTheirWay
    <3>3. CASE j = n + 1
      BY <1>3, <1>5, <1>9, <3>1, <3>3 DEF EventsInv, LinesOnTheirWay
    <3>. QED  BY <1>6, <3>2, <3>3
  <2>. QED  BY <1>1, <1>2, <1>7, <1>8, <2>1, <2>2 DEF LinesOnTheirWay
<1>11. LinesStored'
  <2>1. Before(proxyLog, front) /\ Before(proxyLog, drain)
    BY <1>9 DEF EventsInv, LinesStored
  <2>2. Apart(proxyLog, front)
    BY <1>2, <2>1, BeforeIsApart DEF EventsInv, EventTypes
  <2>3. ASSUME NEW i \in DOMAIN flight'
        PROVE  /\ Apart(proxyLog, flight'[i].proxy)
               /\ ~past.overtaken /\ ~flight'[i].late => Before(proxyLog, flight'[i].proxy)
    BY <1>3, <1>5, <1>6, <2>1, <2>2 DEF EventsInv, LinesStored
  <2>. QED  BY <1>1, <1>7, <2>1, <2>3 DEF EventsInv, LinesStored
<1>12. ASSUME Stampable PROVE Stampable'
  <2>1. PICK sent \in [DOMAIN flight -> 0..past.moves], last \in 0..past.moves :
          Stamped(sent, last)
    BY <1>12 DEF Stampable
  <2>2. past.moves \in Nat
    BY DEF EventsInv, EventTypes
  <2>3. PICK new : new = [i \in DOMAIN flight' |-> IF i = n + 1 THEN past.moves ELSE sent[i]]
    OBVIOUS
  <2>4. /\ new \in [DOMAIN flight' -> 0..past.moves] /\ new[n + 1] = past.moves
        /\ \A i \in DOMAIN flight : i # n + 1 /\ new[i] = sent[i] /\ sent[i] <= past.moves
    BY <1>4, <1>5, <1>6, <2>1, <2>2, <2>3
  <2>5. \A i \in DOMAIN flight' : new[i] = past.moves => flight'[i].path = way
    BY <1>3, <1>5, <1>6, <2>1, <2>4 DEF Stamped
  <2>6. ASSUME NEW i \in DOMAIN flight', NEW j \in DOMAIN flight', i < j
        PROVE  new[i] <= new[j] /\ (new[i] = new[j] => flight'[i].path = flight'[j].path)
    <3>1. i \in DOMAIN flight /\ flight'[i] = flight[i] /\ new[i] = sent[i] /\ sent[i] <= past.moves
      BY <1>4, <1>5, <2>4, <2>6
    <3>2. CASE j \in DOMAIN flight
      <4>1. flight'[j] = flight[j] /\ new[j] = sent[j]
        BY <1>5, <2>4, <3>2
      <4>. QED  BY <2>1, <2>6, <3>1, <3>2, <4>1 DEF Stamped
    <3>3. CASE j = n + 1
      BY <1>3, <1>5, <2>1, <2>4, <3>1, <3>3 DEF Stamped
    <3>. QED  BY <1>6, <3>2, <3>3
  <2>7. ASSUME lastPath # NoPath, NEW i \in DOMAIN flight', ~flight'[i].late
        PROVE  last <= new[i] /\ (last = new[i] => flight'[i].path = lastPath)
    <3>1. CASE i \in DOMAIN flight
      BY <1>5, <2>1, <2>4, <2>7, <3>1 DEF Stamped
    <3>2. CASE i = n + 1
      <4>1. new[i] = past.moves /\ flight'[i].path = way /\ last <= past.moves
        BY <1>3, <1>5, <2>1, <2>2, <2>4, <3>2
      <4>2. last = past.moves => lastPath = way
        BY <2>1, <2>7 DEF Stamped
      <4>. QED  BY <4>1, <4>2
    <3>. QED  BY <1>6, <3>1, <3>2
  <2>8. Stamped(new, last)'
    BY <1>1, <2>1, <2>4, <2>5, <2>6, <2>7 DEF Stamped
  <2>. QED  BY <1>1, <2>1, <2>4, <2>8 DEF Stampable
<1>. QED  BY <1>1, <1>7, <1>10, <1>11, <1>12 DEF EventsInv

(* A report leaves, stored or lost: the others keep their order. *)
LEMMA LeavingThins ==
  ASSUME Shaped, NEW i \in DOMAIN flight, NEW stored \in BOOLEAN, Leaves(i, stored)
  PROVE  \E from \in [DOMAIN flight' -> DOMAIN flight] :
           /\ Thinned(from)
           /\ \A j \in DOMAIN flight' : from[j] = (IF j < i THEN j ELSE j + 1) /\ from[j] # i
<1>1. /\ Len(flight) \in Nat /\ DOMAIN flight = 1..Len(flight) /\ i \in 1..Len(flight)
      /\ DOMAIN flight' = 1..(Len(flight) - 1)
      /\ \A j \in DOMAIN flight' :
           /\ j < i => j \in DOMAIN flight
                      /\ flight'[j] = IF stored THEN [flight[j] EXCEPT !.late = TRUE] ELSE flight[j]
           /\ ~(j < i) => j + 1 \in DOMAIN flight /\ flight'[j] = flight[j + 1]
  BY LeavesFacts
<1>2. PICK from : from = [j \in DOMAIN flight' |-> IF j < i THEN j ELSE j + 1]
  OBVIOUS
<1>3. \A j \in DOMAIN flight' : j \in Nat /\ from[j] = (IF j < i THEN j ELSE j + 1)
  BY <1>1, <1>2
<1>4. \A j \in DOMAIN flight' : from[j] \in DOMAIN flight /\ from[j] # i
  BY <1>1, <1>3
<1>5. \A j, k \in DOMAIN flight' : j < k => from[j] < from[k]
  BY <1>1, <1>3
<1>6. ASSUME NEW j \in DOMAIN flight'
      PROVE  /\ flight'[j].proxy = flight[from[j]].proxy /\ flight'[j].path = flight[from[j]].path
             /\ ~flight'[j].late => ~flight[from[j]].late
  <2>1. CASE flight'[j] = flight[from[j]]
    BY <2>1, Zenon
  <2>2. CASE flight'[j] = [flight[from[j]] EXCEPT !.late = TRUE]
    <3>1. DOMAIN flight[from[j]] = ReportFields
      BY <1>4 DEF Shaped
    <3>2. /\ flight'[j].proxy = flight[from[j]].proxy /\ flight'[j].path = flight[from[j]].path
          /\ flight'[j].late
      BY <2>2, <3>1, Zenon DEF ReportFields
    <3>. QED  BY <3>2
  <2>3. flight'[j] = flight[from[j]] \/ flight'[j] = [flight[from[j]] EXCEPT !.late = TRUE]
    BY <1>1, <1>3
  <2>. QED  BY <2>1, <2>2, <2>3
<1>7. from \in [DOMAIN flight' -> DOMAIN flight]
  BY <1>2, <1>4
<1>8. Thinned(from)
  BY <1>5, <1>6, <1>7 DEF Thinned
<1>. QED  BY <1>3, <1>4, <1>7, <1>8

LEMMA lostKeepsEvents ==
  ASSUME Shaped, EventsInv, NEW i \in DOMAIN flight, reportLost(i)
  PROVE  EventsInv'
<1>1. /\ Leaves(i, FALSE)
      /\ UNCHANGED <<file, offset, queue, way, proxyLog, lastPath, events, past>>
  BY DEF reportLost, agentSide, world, database
<1>2. PICK from : Thinned(from)
  BY <1>1, LeavingThins
<1>3. \A j \in DOMAIN flight' : flight'[j].proxy \in Seq(Nat) /\ flight'[j].path \in PathKinds
  BY <1>2, ThinnedTypes DEF EventsInv
<1>4. EventTypes'
  BY <1>1, <1>3 DEF EventsInv, EventTypes
<1>5. ReadUpTo' = ReadUpTo /\ ReadUpTo \in Nat
  BY <1>1, ReadUpToType DEF ReadUpTo, EventsInv
<1>. QED  BY <1>1, <1>2, <1>4, <1>5, ThinnedKeeps

(* The report that is stored: after every older one, before every younger   *)
(* one, and after what is stored unless it is late.                         *)
LEMMA storeKeepsEvents ==
  ASSUME Shaped, EventsInv, NEW i \in DOMAIN flight, storeReport(i)
  PROVE  EventsInv'
<1>. DEFINE r == flight[i]
<1>1. /\ Leaves(i, TRUE)
      /\ events' = IF row /\ connectionEventKind(lastPath, r.path) THEN events + 1 ELSE events
      /\ lastPath' = IF row THEN r.path ELSE lastPath
      /\ proxyLog' = proxyLog \o r.proxy
      /\ UNCHANGED <<file, offset, queue, way>>
  BY DEF storeReport, world
<1>2. /\ past'.moves = past.moves /\ past'.requests = past.requests
      /\ ~past'.overtaken => ~past.overtaken /\ ~r.late
  BY Zenon DEF storeReport, Shaped, PastFields
<1>3. /\ Len(flight) \in Nat /\ DOMAIN flight = 1..Len(flight) /\ i \in 1..Len(flight)
      /\ DOMAIN flight' = 1..(Len(flight) - 1)
      /\ \A j \in DOMAIN flight' :
           j < i => j \in DOMAIN flight /\ flight'[j] = [flight[j] EXCEPT !.late = TRUE]
  BY <1>1, LeavesFacts
<1>5. PICK from \in [DOMAIN flight' -> DOMAIN flight] :
           /\ Thinned(from)
           /\ \A j \in DOMAIN flight' : from[j] = (IF j < i THEN j ELSE j + 1) /\ from[j] # i
  BY <1>1, LeavingThins
<1>6. ASSUME NEW j \in DOMAIN flight', ~flight'[j].late
      PROVE  i < from[j] /\ ~flight[from[j]].late
  <2>1. ~(j < i)
    <3>1. SUFFICES ASSUME j < i PROVE flight'[j].late
      BY <1>6
    <3>2. flight'[j] = [flight[j] EXCEPT !.late = TRUE] /\ j \in DOMAIN flight
      BY <1>3, <3>1
    <3>3. DOMAIN flight[j] = ReportFields
      BY <3>2 DEF Shaped
    <3>. QED  BY <3>2, <3>3, Zenon DEF ReportFields
  <2>2. i < from[j]
    BY <1>3, <1>5, <2>1
  <2>. QED  BY <1>5, <1>6, <2>2 DEF Thinned
<1>7. r.proxy \in Seq(Nat) /\ r.path \in PathKinds /\ proxyLog \in Seq(Nat)
  BY DEF EventsInv, EventTypes
<1>. HIDE DEF r
<1>8. PICK p \in Nat : p = Len(proxyLog) /\ DOMAIN proxyLog = 1..p
  BY <1>7
<1>9. PICK q \in Nat : q = Len(r.proxy) /\ DOMAIN r.proxy = 1..q
  BY <1>7
<1>10. /\ proxyLog' \in Seq(Nat) /\ DOMAIN proxyLog' = 1..(p + q)
       /\ \A k \in 1..(p + q) :
            proxyLog'[k] = IF k <= p THEN proxyLog[k] ELSE r.proxy[k - p]
  <2>1. PICK s \in Seq(Nat) : s = r.proxy
    BY <1>7
  <2>2. /\ proxyLog \o s \in Seq(Nat) /\ Len(proxyLog \o s) = p + q
        /\ \A k \in 1..(p + q) :
             (proxyLog \o s)[k] = IF k <= p THEN proxyLog[k] ELSE s[k - p]
    BY <1>7, <1>8, <1>9, <2>1, ConcatProperties
  <2>3. DOMAIN (proxyLog \o s) = 1..(p + q)
    BY <2>2
  <2>. QED  BY <1>1, <2>1, <2>2, <2>3
<1>11. ASSUME NEW k \in DOMAIN proxyLog'
       PROVE  /\ k \in Int
              /\ k <= p => k \in DOMAIN proxyLog /\ proxyLog'[k] = proxyLog[k]
              /\ ~(k <= p) => /\ k - p \in DOMAIN r.proxy /\ proxyLog'[k] = r.proxy[k - p]
                            /\ r.proxy[k - p] \in Nat
  <2>1. k \in 1..(p + q)
    BY <1>10
  <2>2. k \in Int /\ (k <= p => k \in 1..p) /\ (~(k <= p) => k - p \in 1..q)
    BY <2>1
  <2>3. \A l \in 1..q : r.proxy[l] \in Nat
    BY <1>7, <1>9
  <2>. QED  BY <1>8, <1>9, <1>10, <2>1, <2>2, <2>3
<1>12. EventTypes' /\ ReadUpTo' = ReadUpTo
  <2>1. \A j \in DOMAIN flight' : flight'[j].proxy \in Seq(Nat) /\ flight'[j].path \in PathKinds
    BY <1>5, ThinnedTypes DEF EventsInv
  <2>2. events' \in Nat
    BY <1>1 DEF EventsInv, EventTypes
  <2>3. EventTypes'
    BY <1>1, <1>2, <1>10, <2>1, <2>2 DEF EventsInv, EventTypes
  <2>. QED  BY <1>1, <1>2, <2>3 DEF ReadUpTo
<1>13. LinesOnTheirWay'
  <2>1. ASSUME NEW j \in DOMAIN flight'
        PROVE  /\ InOrder(flight'[j].proxy) /\ UpTo(flight'[j].proxy, ReadUpTo)
               /\ Before(flight'[j].proxy, queue)
    BY <1>5 DEF Thinned, EventsInv, LinesOnTheirWay
  <2>2. ASSUME NEW j \in DOMAIN flight', NEW k \in DOMAIN flight', j < k
        PROVE  Before(flight'[j].proxy, flight'[k].proxy)
    <3>1. from[j] \in DOMAIN flight /\ from[k] \in DOMAIN flight /\ from[j] < from[k]
      BY <1>5, <2>2 DEF Thinned
    <3>. QED  BY <1>5, <3>1 DEF Thinned, EventsInv, LinesOnTheirWay
  <2>. QED  BY <1>1, <1>12, <2>1, <2>2 DEF EventsInv, LinesOnTheirWay
<1>14. LinesStored'
  <2>1. /\ Apart(proxyLog, r.proxy) /\ UpTo(r.proxy, ReadUpTo) /\ InOrder(r.proxy)
        /\ Before(r.proxy, queue)
        /\ ~past'.overtaken => Before(proxyLog, r.proxy)
    BY <1>2 DEF r, EventsInv, LinesOnTheirWay, LinesStored
  <2>2. UpTo(proxyLog', ReadUpTo) /\ Before(proxyLog', queue)
    BY <1>11, <2>1 DEF EventsInv, LinesStored, UpTo, Before
  <2>3. ASSUME NEW j \in DOMAIN proxyLog', NEW k \in DOMAIN proxyLog', j < k
        PROVE  proxyLog'[j] # proxyLog'[k] /\ (~past'.overtaken => proxyLog'[j] < proxyLog'[k])
    <3>1. CASE j <= p /\ k <= p
      <4>1. j \in DOMAIN proxyLog /\ k \in DOMAIN proxyLog
            /\ proxyLog'[j] = proxyLog[j] /\ proxyLog'[k] = proxyLog[k]
        BY <1>11, <2>3, <3>1
      <4>. QED  BY <1>2, <2>3, <4>1 DEF EventsInv, LinesStored, InOrder
    <3>2. CASE j <= p /\ ~(k <= p)
      <4>1. j \in DOMAIN proxyLog /\ k - p \in DOMAIN r.proxy
            /\ proxyLog'[j] = proxyLog[j] /\ proxyLog'[k] = r.proxy[k - p]
        BY <1>11, <2>3, <3>2
      <4>. QED  BY <2>1, <4>1 DEF Apart, Before
    <3>3. CASE ~(j <= p)
      <4>1. j \in Int /\ k \in Int /\ ~(k <= p)
        BY <1>8, <1>11, <2>3, <3>3
      <4>2. PICK g \in DOMAIN r.proxy : /\ g = j - p /\ proxyLog'[j] = r.proxy[g]
                                       /\ r.proxy[g] \in Nat
        BY <1>11, <3>3
      <4>3. PICK h \in DOMAIN r.proxy : /\ h = k - p /\ proxyLog'[k] = r.proxy[h]
                                       /\ r.proxy[h] \in Nat
        BY <1>11, <4>1
      <4>4. g < h
        BY <1>8, <2>3, <4>1, <4>2, <4>3
      <4>5. r.proxy[g] < r.proxy[h]
        BY <2>1, <4>4 DEF InOrder
      <4>. QED  BY <4>2, <4>3, <4>5
    <3>. QED  BY <3>1, <3>2, <3>3
  <2>4. ASSUME NEW j \in DOMAIN flight'
        PROVE  /\ Apart(proxyLog', flight'[j].proxy)
               /\ ~past'.overtaken /\ ~flight'[j].late => Before(proxyLog', flight'[j].proxy)
    <3>1. from[j] \in DOMAIN flight /\ from[j] # i /\ from[j] \in Nat /\ i \in Nat
          /\ flight'[j].proxy = flight[from[j]].proxy
      BY <1>3, <1>5 DEF Thinned
    <3>2. PICK s \in Seq(Nat) : s = flight[from[j]].proxy
      BY <3>1 DEF EventsInv, EventTypes
    <3>3. Apart(proxyLog, s)
          /\ (~past'.overtaken /\ ~flight[from[j]].late => Before(proxyLog, s))
      BY <1>2, <3>1, <3>2 DEF EventsInv, LinesStored
    <3>4. Apart(r.proxy, s) /\ (i < from[j] => Before(r.proxy, s))
      <4>1. CASE i < from[j]
        <5>1. Before(r.proxy, s)
          BY <3>1, <3>2, <4>1 DEF r, EventsInv, LinesOnTheirWay
        <5>. QED  BY <1>7, <3>2, <5>1, BeforeIsApart
      <4>2. CASE from[j] < i
        <5>1. Before(s, r.proxy)
          BY <3>1, <3>2, <4>2 DEF r, EventsInv, LinesOnTheirWay
        <5>2. ~(i < from[j])
          BY <3>1, <4>2
        <5>. QED  BY <1>7, <3>2, <5>1, <5>2, BeforeIsApart
      <4>3. i < from[j] \/ from[j] < i
        BY <3>1
      <4>. QED  BY <4>1, <4>2, <4>3
    <3>5. Apart(proxyLog', s)
      <4>1. SUFFICES ASSUME NEW h \in DOMAIN proxyLog', NEW k \in DOMAIN s
                     PROVE  proxyLog'[h] # s[k]
        BY DEF Apart
      <4>2. CASE h <= p
        BY <1>11, <3>3, <4>2 DEF Apart
      <4>3. CASE ~(h <= p)
        BY <1>11, <3>4, <4>3 DEF Apart
      <4>. QED  BY <4>2, <4>3
    <3>6. ASSUME ~past'.overtaken, ~flight'[j].late PROVE Before(proxyLog', s)
      <4>1. Before(proxyLog, s) /\ Before(r.proxy, s)
        BY <1>6, <3>3, <3>4, <3>6
      <4>. QED  BY <1>11, <4>1 DEF Before
    <3>. QED  BY <3>1, <3>2, <3>5, <3>6
  <2>. QED  BY <1>1, <1>12, <2>2, <2>3, <2>4 DEF LinesStored, InOrder
<1>15. ASSUME ~past'.overtaken PROVE Stampable'
  <2>1. Stampable
    BY <1>2, <1>15 DEF EventsInv
  <2>2. CASE ~row
    <3>1. lastPath' = lastPath /\ events' = events
      BY <1>1, <2>2
    <3>. QED  BY <1>1, <1>2, <1>5, <2>1, <3>1, ThinnedKeepsStamps
  <2>3. CASE row
    <3>1. PICK sent \in [DOMAIN flight -> 0..past.moves], last \in 0..past.moves :
            Stamped(sent, last)
      BY <2>1 DEF Stampable
    <3>2. PICK m \in Nat : m = past.moves
      BY DEF EventsInv, EventTypes
    <3>3. PICK t \in 0..m : t = sent[i]
      BY <3>1, <3>2
    <3>4. PICK new : new = [j \in DOMAIN flight' |-> sent[from[j]]]
      OBVIOUS
    <3>5. /\ new \in [DOMAIN flight' -> 0..m]
          /\ \A j \in DOMAIN flight' : new[j] = sent[from[j]] /\ from[j] \in DOMAIN flight
      BY <1>5, <3>1, <3>2, <3>4
    <3>6. ASSUME NEW j \in DOMAIN flight', new[j] = m PROVE flight'[j].path = way
      <4>1. from[j] \in DOMAIN flight /\ sent[from[j]] = past.moves
            /\ flight'[j].path = flight[from[j]].path
        BY <1>5, <3>2, <3>5, <3>6 DEF Thinned
      <4>. QED  BY <3>1, <4>1 DEF Stamped
    <3>7. ASSUME NEW j \in DOMAIN flight', NEW k \in DOMAIN flight', j < k
          PROVE  new[j] <= new[k] /\ (new[j] = new[k] => flight'[j].path = flight'[k].path)
      <4>1. /\ from[j] < from[k] /\ from[j] \in DOMAIN flight /\ from[k] \in DOMAIN flight
            /\ flight'[j].path = flight[from[j]].path /\ flight'[k].path = flight[from[k]].path
        BY <1>5, <3>7 DEF Thinned
      <4>2. /\ sent[from[j]] <= sent[from[k]]
            /\ sent[from[j]] = sent[from[k]] => flight[from[j]].path = flight[from[k]].path
        BY <3>1, <4>1 DEF Stamped
      <4>3. new[j] = sent[from[j]] /\ new[k] = sent[from[k]]
        BY <3>5
      <4>. QED  BY <4>1, <4>2, <4>3
    <3>8. lastPath' = r.path /\ lastPath' # NoPath
      BY <1>1, <1>7, <2>3 DEF PathKinds, Relays, NoPath
    <3>9. t = m => lastPath' = way
      BY <3>1, <3>2, <3>3, <3>8 DEF Stamped, r
    <3>10. ASSUME NEW j \in DOMAIN flight', ~flight'[j].late
           PROVE  t <= new[j] /\ (t = new[j] => flight'[j].path = lastPath')
      <4>1. i < from[j] /\ from[j] \in DOMAIN flight /\ flight'[j].path = flight[from[j]].path
        BY <1>5, <1>6, <3>10 DEF Thinned
      <4>2. sent[i] <= sent[from[j]] /\ (sent[i] = sent[from[j]] => flight[i].path = flight[from[j]].path)
        BY <3>1, <4>1 DEF Stamped
      <4>. QED  BY <3>3, <3>5, <3>8, <4>1, <4>2 DEF r
    <3>11. events' <= t + 1
      <4>1. events \in Nat /\ events' \in {events, events + 1}
            /\ (events' = events + 1 => lastPath # r.path)
        BY <1>1 DEF connectionEventKind, EventsInv, EventTypes
      <4>2. CASE lastPath = NoPath
        <5>1. events = 0 /\ t \in Nat
          BY <3>1, <3>3, <4>2 DEF Stamped
        <5>. QED  BY <4>1, <5>1
      <4>3. CASE lastPath # NoPath
        <5>1. ~flight[i].late
          BY <1>2, <1>15 DEF r
        <5>3. /\ events <= last + 1 /\ last <= sent[i]
              /\ last = sent[i] => flight[i].path = lastPath
          BY <3>1, <4>3, <5>1 DEF Stamped
        <5>4. events <= last + 1 /\ last <= t /\ (last = t => r.path = lastPath)
          BY <3>3, <5>3 DEF r
        <5>2. last \in Nat
          BY <3>1, <3>2
        <5>. QED  BY <4>1, <5>2, <5>4
      <4>. QED  BY <4>2, <4>3
    <3>12. Stamped(new, t)'
      BY <1>1, <1>2, <3>2, <3>5, <3>6, <3>7, <3>8, <3>9, <3>10, <3>11 DEF Stamped
    <3>. QED  BY <1>2, <3>2, <3>5, <3>12 DEF Stampable
  <2>. QED  BY <2>2, <2>3
<1>. QED  BY <1>12, <1>13, <1>14, <1>15 DEF EventsInv

-----------------------------------------------------------------------------
(* No line of the proxy's log is stored twice, whatever is rotated, lost or *)
(* restarted; and unless a late report was stored after a younger one, the  *)
(* lines are stored in order and there are no more connection events than   *)
(* changes of the path, and one, for any length of queue and drain.         *)
THEOREM EventsAreFaithful == ReportingSpec => []EventsFaithful
<1>1. ReportingInit => EventsInv
  <2>. SUFFICES ASSUME ReportingInit PROVE EventsInv
    OBVIOUS
  <2>1. /\ file = [first |-> 0, length |-> 0] /\ offset = Gone /\ queue = <<>>
        /\ proxyLog = <<>> /\ flight = <<>> /\ way \in PathKinds /\ lastPath = NoPath /\ events = 0
    BY DEF ReportingInit, PathKinds
  <2>2. past.moves = 0 /\ past.requests = 0 /\ past.overtaken = FALSE
    BY DEF ReportingInit, HistoryInit
  <2>3. DOMAIN flight = {} /\ DOMAIN queue = {} /\ DOMAIN proxyLog = {}
        /\ queue \in Seq(Nat) /\ proxyLog \in Seq(Nat)
    BY <2>1
  <2>4. EventTypes
    BY <2>1, <2>2, <2>3 DEF EventTypes
  <2>5. LinesOnTheirWay /\ LinesStored
    BY <2>3 DEF LinesOnTheirWay, LinesStored, InOrder, UpTo, Before
  <2>6. Stampable
    <3>1. PICK sent : sent = [i \in DOMAIN flight |-> 0]
      OBVIOUS
    <3>2. sent \in [DOMAIN flight -> 0..past.moves] /\ 0 \in 0..past.moves
      BY <2>2, <3>1
    <3>3. Stamped(sent, 0)
      BY <2>1, <2>3, <3>2 DEF Stamped
    <3>. QED  BY <3>2, <3>3 DEF Stampable
  <2>. QED  BY <2>4, <2>5, <2>6 DEF EventsInv
<1>2. Shaped /\ EventsInv /\ [ReportingNext]_reportVars => EventsInv'
  BY QuietKeepsEvents, LogKeepsEvents, WayKeepsEvents, tailKeepsEvents, sendKeepsEvents,
     lostKeepsEvents, storeKeepsEvents DEF ReportingNext
<1>3. EventsInv => EventsFaithful
  <2>. SUFFICES ASSUME EventsInv PROVE EventsFaithful
    OBVIOUS
  <2>1. DOMAIN proxyLog = 1..Len(proxyLog)
    BY DEF EventsInv, EventTypes
  <2>2. \A i, j \in 1..Len(proxyLog) :
          i < j => proxyLog[i] # proxyLog[j] /\ (~past.overtaken => proxyLog[i] < proxyLog[j])
    BY <2>1 DEF EventsInv, LinesStored, InOrder
  <2>3. ASSUME ~past.overtaken PROVE events <= past.moves + 1
    <3>1. PICK sent \in [DOMAIN flight -> 0..past.moves], last \in 0..past.moves :
            Stamped(sent, last)
      BY <2>3 DEF EventsInv, Stampable
    <3>2. past.moves \in Nat /\ events \in Nat
      BY DEF EventsInv, EventTypes
    <3>. QED  BY <3>1, <3>2 DEF Stamped
  <2>. QED  BY <2>2, <2>3 DEF EventsFaithful
<1>4. TelemetryInv => Shaped
  BY DEF TelemetryInv, TelemetryTypes, Reports, Shaped
<1>. QED  BY <1>1, <1>2, <1>3, <1>4, TelemetryAlways, PTL DEF ReportingSpec

=============================================================================
