----------------------------- MODULE PortMapper -----------------------------
(***************************************************************************)
(* The goroutine that keeps the listen port mapped on the home router       *)
(* (cmd/agent/portmap.go).  Time is a tick; the lease and the timer count   *)
(* down.                                                                    *)
(***************************************************************************)
EXTENDS Integers

CONSTANTS
  portMapLease, portMapRenew, portMapRetryMin, portMapRetryMax

(* A mapping is renewed before its lease is over ("portMapLease / 2"). *)
ASSUME LeaseAssumption ==
  /\ portMapLease \in Nat /\ portMapRenew \in Nat /\ portMapRenew < portMapLease
  /\ portMapRetryMin \in Nat /\ portMapRetryMax \in Nat

VARIABLES
  lease,  \* on the router: ticks until the mapping expires, 0 when there is none
  mapper  \* the goroutine: alive, the advertised endpoint, unmap, timer and back-off

mapVars == <<lease, mapper>>

MapperOff == [on |-> FALSE, ext |-> FALSE, unmap |-> FALSE, wait |-> 0, retry |-> portMapRetryMin]

newPortMapper == [MapperOff EXCEPT !.on = TRUE]

Least2(a, b) == IF a < b THEN a ELSE b

(* What an attempt may come to: UPnP or NAT-PMP grants the mapping; no      *)
(* gateway answers, refuses, or is behind another NAT (nothing is mapped);  *)
(* the mapping is made but the answer is lost.                              *)
Attempts == {"granted", "refused", "lost"}

(* Mutant: a renewal that fails leaves the endpoint advertised. *)
unmappedStillAdvertised(m) ==
  [m EXCEPT !.unmap = FALSE, !.wait = m.retry, !.retry = Least2(2 * @, portMapRetryMax)]

(* "m.setExternal(""); unmap = nil" and back off. *)
unmapped(m) ==
  [m EXCEPT !.ext = FALSE, !.unmap = FALSE, !.wait = m.retry,
            !.retry = Least2(2 * @, portMapRetryMax)]

mapPort(attempt) ==
  /\ mapper.on /\ mapper.wait = 0
  /\ lease' = IF attempt = "refused" THEN lease ELSE portMapLease
  /\ mapper' = IF attempt = "granted"
               THEN [mapper EXCEPT !.ext = TRUE, !.unmap = TRUE, !.wait = portMapRenew,
                                   !.retry = portMapRetryMin]
               ELSE unmapped(mapper)

(* close(): the goroutine removes the mapping it knows of and ends.         *)
closeMapper(done) ==
  /\ lease' = IF mapper.unmap /\ done THEN 0 ELSE lease
  /\ mapper' = MapperOff

(* The router drops the mapping before the lease asked for is over: it       *)
(* restarts, or granted a shorter one, which the agent does not look at     *)
(* (natpmpMap).                                                             *)
RouterForgets == lease > 0 /\ lease' = 0 /\ UNCHANGED mapper

(* Time passes; a timer that has fired is served first. *)
LeaseTick ==
  /\ mapper.on => mapper.wait > 0
  /\ lease' = IF lease > 0 THEN lease - 1 ELSE 0
  /\ mapper' = IF mapper.on THEN [mapper EXCEPT !.wait = @ - 1] ELSE mapper

MapInit == lease = 0 /\ mapper = MapperOff

=============================================================================
