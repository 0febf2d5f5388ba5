---------------------------- MODULE RateLimiter -----------------------------
(***************************************************************************)
(* The per-source limit on public routes (internal/httpx/ratelimit.go): a   *)
(* token bucket per client address, made when the address is first seen and *)
(* dropped by a sweep once it has been idle.                                *)
(***************************************************************************)
EXTENDS Integers

CONSTANTS
  Sources,     \* client addresses
  Rate,        \* tokens per unit of time
  Burst,       \* size of a bucket, at least 1 (NewRateLimiter)
  EvictAfter   \* idle time after which a bucket is dropped

(* A source that stays away for EvictAfter has a full bucket again; 20 per  *)
(* second, a burst of 40 and ten minutes by default.                        *)
ASSUME RefillAssumption ==
  /\ Rate \in Nat /\ Burst \in Nat \ {0} /\ EvictAfter \in Nat
  /\ Rate * (EvictAfter + 1) >= Burst

VARIABLES
  buckets,  \* rl.clients: per source its tokens and idle time; no entry is NoBucket
  ideal     \* history: the tokens of a bucket that is never dropped

limitVars == <<buckets, ideal>>

NoBucket == [tokens |-> -1, idle |-> 0]
Refilled(tokens) == IF tokens + Rate > Burst THEN Burst ELSE tokens + Rate

LimitInit ==
  /\ buckets = [k \in Sources |-> NoBucket]
  /\ ideal = [k \in Sources |-> Burst]

(* One request: served when a token is left. *)
Allow(k) ==
  LET tokens == IF buckets[k] = NoBucket THEN Burst ELSE buckets[k].tokens IN
  /\ buckets' = [buckets EXCEPT ![k] = [tokens |-> IF tokens > 0 THEN tokens - 1 ELSE 0,
                                        idle |-> 0]]
  /\ ideal' = [ideal EXCEPT ![k] = IF tokens > 0 THEN @ - 1 ELSE @]

(* Idle times count no further than a sweep can tell. *)
TimePasses ==
  /\ buckets' = [k \in Sources |->
       IF buckets[k] = NoBucket THEN NoBucket
       ELSE [tokens |-> Refilled(buckets[k].tokens),
             idle |-> IF buckets[k].idle > EvictAfter THEN buckets[k].idle ELSE buckets[k].idle + 1]]
  /\ ideal' = [k \in Sources |-> Refilled(ideal[k])]

(* Mutant: the sweep is off by one. *)
evictLoopEarly ==
  /\ buckets' = [k \in Sources |-> IF buckets[k].idle >= EvictAfter THEN NoBucket ELSE buckets[k]]
  /\ UNCHANGED ideal

evictLoop ==
  /\ buckets' = [k \in Sources |-> IF buckets[k].idle > EvictAfter THEN NoBucket ELSE buckets[k]]
  /\ UNCHANGED ideal

LimitNext == (\E k \in Sources : Allow(k)) \/ TimePasses \/ evictLoop

LimitSpec == LimitInit /\ [][LimitNext]_limitVars

-----------------------------------------------------------------------------
(* Dropping buckets gives nothing away: a source is never served more than  *)
(* one bucket, kept for ever, would serve it, so that at most               *)
(* Burst + Rate * t requests pass in any t units of time (Allow,            *)
(* evictLoop).                                                              *)
NoExtraTokens == \A k \in Sources : ideal[k] >= 0

=============================================================================
