------------------------- MODULE ControlPlaneProofs -------------------------
(*****************************************************************************)
(* The smaller parts of the control plane: rate limiter, secrets, signal     *)
(* sessions, user accounts and hole-punch epochs.                            *)
(*****************************************************************************)
EXTENDS RateLimiter, SecretFiles, SignalHub, Accounts, Punch, TLAPS

-----------------------------------------------------------------------------
(*****************************************************************************)
(* The rate limiter gives nothing away by dropping idle buckets, for every   *)
(* rate, burst and idle time that satisfy RefillAssumption.                  *)
(*****************************************************************************)

Bucket == [tokens : 0..Burst, idle : Nat]

(* A bucket never holds more than the one that is kept for ever, and that   *)
(* one has been refilled for as long as the bucket has been idle; a source  *)
(* without a bucket would find a full one either way.                       *)
Covered(b, i) ==
  /\ i \in 0..Burst
  /\ b = NoBucket => i = Burst
  /\ b # NoBucket => b \in Bucket /\ i >= b.tokens /\ (i >= Rate * b.idle \/ i = Burst)

LimitInv ==
  /\ buckets \in [Sources -> Bucket \cup {NoBucket}]
  /\ ideal \in [Sources -> 0..Burst]
  /\ \A k \in Sources : Covered(buckets[k], ideal[k])

LEMMA NoBucketIsNone == NoBucket \notin Bucket
BY DEF NoBucket, Bucket

LEMMA AllowKeeps ==
  ASSUME LimitInv, NEW k \in Sources, Allow(k)
  PROVE  LimitInv'
<1>. DEFINE tokens == IF buckets[k] = NoBucket THEN Burst ELSE buckets[k].tokens
            left == IF tokens > 0 THEN tokens - 1 ELSE 0
            kept == IF tokens > 0 THEN ideal[k] - 1 ELSE ideal[k]
<1>1. tokens \in 0..Burst /\ ideal[k] \in 0..Burst /\ tokens <= ideal[k]
  BY RefillAssumption DEF LimitInv, Covered, Bucket
<1>2. left \in 0..Burst /\ kept \in 0..Burst /\ left <= kept
  BY <1>1, RefillAssumption
<1>3. /\ buckets' = [buckets EXCEPT ![k] = [tokens |-> left, idle |-> 0]]
      /\ ideal' = [ideal EXCEPT ![k] = kept]
  BY DEF Allow, LimitInv
<1>. HIDE DEF tokens, left, kept
<1>4. [tokens |-> left, idle |-> 0] \in Bucket
  BY <1>2 DEF Bucket
<1>5. Covered([tokens |-> left, idle |-> 0], kept)
  BY <1>2, <1>4, NoBucketIsNone, RefillAssumption DEF Covered
<1>. QED  BY <1>2, <1>3, <1>4, <1>5 DEF LimitInv

(* One unit of time for one source. *)
LEMMA TickCovers ==
  ASSUME NEW b \in Bucket, NEW i \in 0..Burst, Covered(b, i),
         NEW idle, idle = IF b.idle > EvictAfter THEN b.idle ELSE b.idle + 1
  PROVE  /\ [tokens |-> Refilled(b.tokens), idle |-> idle] \in Bucket
         /\ Covered([tokens |-> Refilled(b.tokens), idle |-> idle], Refilled(i))
<1>1. b.tokens \in 0..Burst /\ b.idle \in Nat /\ b.tokens <= i
  BY NoBucketIsNone DEF Bucket, Covered
<1>2. /\ Refilled(i) \in 0..Burst /\ Refilled(b.tokens) \in 0..Burst
      /\ Refilled(b.tokens) <= Refilled(i)
  BY <1>1, RefillAssumption DEF Refilled
<1>3. idle \in Nat /\ (idle = b.idle \/ idle = b.idle + 1)
  BY <1>1, RefillAssumption
<1>4. i >= Rate * b.idle \/ i = Burst
  BY NoBucketIsNone DEF Covered
<1>5. Rate * b.idle \in Nat /\ Rate * (b.idle + 1) = Rate * b.idle + Rate
  BY <1>1, RefillAssumption
<1>6. Refilled(i) >= Rate * idle \/ Refilled(i) = Burst
  <2>1. CASE i = Burst
    BY <2>1, RefillAssumption DEF Refilled
  <2>2. CASE i >= Rate * b.idle
    BY <2>2, <1>3, <1>5, RefillAssumption DEF Refilled
  <2>. QED  BY <1>4, <2>1, <2>2
<1>7. [tokens |-> Refilled(b.tokens), idle |-> idle] \in Bucket
  BY <1>2, <1>3 DEF Bucket
<1>. QED  BY <1>2, <1>6, <1>7, NoBucketIsNone DEF Covered

LEMMA TimeKeeps ==
  ASSUME LimitInv, TimePasses
  PROVE  LimitInv'
<1>1. ASSUME NEW k \in Sources
      PROVE  /\ buckets'[k] \in Bucket \cup {NoBucket}
             /\ ideal'[k] \in 0..Burst
             /\ Covered(buckets'[k], ideal'[k])
  <2>1. ideal'[k] = Refilled(ideal[k]) /\ ideal[k] \in 0..Burst
    BY <1>1 DEF TimePasses, LimitInv
  <2>2. ideal'[k] \in 0..Burst
    BY <2>1, RefillAssumption DEF Refilled
  <2>3. CASE buckets[k] = NoBucket
    <3>1. buckets'[k] = NoBucket
      BY <2>3 DEF TimePasses
    <3>2. ideal'[k] = Burst
      BY <2>1, <2>3, RefillAssumption DEF LimitInv, Covered, Refilled
    <3>. QED  BY <2>2, <3>1, <3>2 DEF Covered
  <2>4. CASE buckets[k] # NoBucket
    <3>1. buckets[k] \in Bucket /\ Covered(buckets[k], ideal[k])
      BY <2>4 DEF LimitInv
    <3>2. buckets'[k] = [tokens |-> Refilled(buckets[k].tokens),
                         idle |-> IF buckets[k].idle > EvictAfter THEN buckets[k].idle
                                  ELSE buckets[k].idle + 1]
      BY <2>4 DEF TimePasses
    <3>. QED  BY <2>1, <2>2, <3>1, <3>2, TickCovers
  <2>. QED  BY <2>3, <2>4
<1>. QED  BY <1>1 DEF LimitInv, TimePasses

(* A bucket that is dropped would be full. *)
LEMMA EvictionKeeps ==
  ASSUME LimitInv, evictLoop
  PROVE  LimitInv'
<1>1. ASSUME NEW k \in Sources
      PROVE  /\ buckets'[k] \in Bucket \cup {NoBucket}
             /\ Covered(buckets'[k], ideal[k])
  <2>1. CASE buckets[k] \in Bucket /\ buckets[k].idle > EvictAfter
    <3>1. buckets[k] # NoBucket /\ buckets[k].idle \in Nat /\ ideal[k] \in 0..Burst
      BY <2>1, NoBucketIsNone DEF Bucket, LimitInv
    <3>2. ideal[k] >= Rate * buckets[k].idle \/ ideal[k] = Burst
      BY <3>1 DEF LimitInv, Covered
    <3>3. Rate * buckets[k].idle >= Rate * (EvictAfter + 1)
      BY <2>1, <3>1, RefillAssumption
    <3>4. ideal[k] = Burst
      BY <3>1, <3>2, <3>3, RefillAssumption
    <3>5. buckets'[k] = NoBucket
      BY <2>1 DEF evictLoop
    <3>. QED  BY <3>4, <3>5, RefillAssumption DEF Covered
  <2>2. CASE ~(buckets[k] \in Bucket /\ buckets[k].idle > EvictAfter)
    <3>1. buckets'[k] = buckets[k]
      BY <2>2 DEF evictLoop, LimitInv
    <3>. QED  BY <3>1 DEF LimitInv
  <2>. QED  BY <2>1, <2>2
<1>. QED  BY <1>1 DEF LimitInv, evictLoop

(* No source is ever served more than one bucket, kept for ever, would      *)
(* serve it, whenever the sweep of evictLoop runs.                          *)
THEOREM EvictionGivesNothing == LimitSpec => []NoExtraTokens
<1>1. LimitInit => LimitInv
  <2>1. Covered(NoBucket, Burst) /\ Burst \in 0..Burst
    BY RefillAssumption DEF Covered
  <2>. QED  BY <2>1 DEF LimitInit, LimitInv
<1>2. LimitInv /\ [LimitNext]_limitVars => LimitInv'
  <2>. SUFFICES ASSUME LimitInv, [LimitNext]_limitVars PROVE LimitInv'
    OBVIOUS
  <2>1. CASE UNCHANGED limitVars
    BY <2>1 DEF LimitInv, limitVars
  <2>. QED  BY <2>1, AllowKeeps, TimeKeeps, EvictionKeeps DEF LimitNext
<1>3. LimitInv => NoExtraTokens
  <2>1. ASSUME LimitInv, NEW k \in Sources PROVE ideal[k] >= 0
    <3>1. ideal[k] \in 0..Burst
      BY <2>1 DEF LimitInv
    <3>. QED  BY <3>1, RefillAssumption
  <2>. QED  BY <2>1 DEF NoExtraTokens
<1>. QED  BY <1>1, <1>2, <1>3, PTL DEF LimitSpec

-----------------------------------------------------------------------------
(*****************************************************************************)
(* The control plane keeps its secrets and its certificate, for any number   *)
(* of starts that end at any point.                                          *)
(*****************************************************************************)

Singles == {"psk", "admin", "session"}
Before(f) ==
  CASE f = "psk" -> {}
    [] f = "admin" -> {"psk"}
    [] f = "session" -> {"psk", "admin"}
    [] OTHER -> Singles

Complete ==
  /\ \A f \in Files : disk[f] # Absent /\ disk[f] # Cut
  /\ disk["tlsKey"] = disk["tlsCert"]

SecretTypeOK ==
  /\ disk \in [Files -> Int]
  /\ mem \in [Files -> Int]
  /\ at \in Files \cup {"listen", "up", "down"}
  /\ blamed \in SUBSET Files
  /\ drawn \in Nat
  /\ \A f \in Files : disk[f] >= Absent /\ disk[f] <= drawn

(* A file under way is where the start is, and holds nothing yet; behind    *)
(* the start are secrets as they are on disk; a certificate is generated    *)
(* for the key just written.                                                *)
StartInv ==
  /\ created => at \in Files /\ disk[at] = Cut
  /\ \A f \in Before(at) :
       at # "down" => mem[f] = disk[f] /\ disk[f] # Absent /\ disk[f] # Cut
  /\ created /\ at \in Files => drawn > 0
  /\ at = "tlsKey" => mem["tlsKey"] = Absent /\ (created => disk["tlsCert"] = Absent)
  /\ at = "tlsCert" => /\ disk["tlsKey"] = drawn /\ drawn > 0
                       /\ mem["tlsKey"] = drawn
                       /\ disk["tlsCert"] \in {Absent, Cut}
  /\ at = "listen" => disk["tlsKey"] # Absent /\ disk["tlsCert"] # Absent
  /\ at \in Singles \cup {"down"} => mem["tlsKey"] = Absent

(* What was used is on disk and complete; nothing complete is blamed. *)
UsedInv ==
  /\ used # {} => used = {disk} /\ Complete
  /\ blamed # {} => ~Complete /\ at = "down"

SecretInv == SecretTypeOK /\ StartInv /\ UsedInv /\ PairMatches

(* A start that ends leaves the files as they are. *)
LEMMA RefusalKeeps ==
  ASSUME SecretInv, NEW fs \in SUBSET Files, Refuse(fs), fs # {} => ~Complete
  PROVE  SecretInv'
<1>1. UNCHANGED <<disk, drawn, used>> /\ at' = "down" /\ created' = FALSE /\ blamed' = fs
      /\ mem' = [f \in Files |-> Absent]
  BY DEF Refuse, NoSecrets
<1>2. SecretTypeOK'
  BY <1>1 DEF SecretInv, SecretTypeOK, Absent
<1>3. StartInv'
  BY <1>1 DEF StartInv, Files, Singles
<1>4. UsedInv'
  BY <1>1 DEF SecretInv, UsedInv, Complete
<1>. QED  BY <1>1, <1>2, <1>3, <1>4 DEF SecretInv, PairMatches

LEMMA LoadKeeps ==
  ASSUME SecretInv, NEW f \in Singles, load(f)
  PROVE  SecretInv'
<1>1. CASE disk[f] = Cut /\ Refuse({f})
  BY <1>1, RefusalKeeps DEF Complete, Singles, Files
<1>2. CASE disk[f] # Cut /\ mem' = [mem EXCEPT ![f] = disk[f]] /\ at' = Then[f]
           /\ UNCHANGED <<disk, created, blamed, drawn, used>>
  <2>1. f \in Files /\ at = f /\ ~created /\ disk[f] # Absent /\ at' \in {"admin", "session", "tlsKey"}
    BY <1>2 DEF load, Then, Singles, Files
  <2>2. SecretTypeOK'
    BY <1>2, <2>1 DEF SecretInv, SecretTypeOK, Files
  <2>3. StartInv'
    BY <1>2, <2>1 DEF SecretInv, SecretTypeOK, StartInv, Before, Then, Singles, Files
  <2>4. UsedInv'
    BY <1>2, <2>1 DEF SecretInv, UsedInv, Complete, Files
  <2>. QED  BY <1>2, <2>2, <2>3, <2>4 DEF SecretInv, PairMatches
<1>. QED  BY <1>1, <1>2 DEF load

LEMMA CreateKeeps ==
  ASSUME SecretInv, NEW f \in Files, create(f),
         f = "tlsKey" => disk["tlsCert"] = Absent
  PROVE  SecretInv'
<1>1. /\ at = f /\ ~created /\ disk[f] = Absent /\ at' = f /\ created'
      /\ disk' = [disk EXCEPT ![f] = Cut]
      /\ drawn' = (IF f = "tlsCert" THEN drawn ELSE drawn + 1)
      /\ UNCHANGED <<mem, blamed, used>>
  BY DEF create
<1>2. SecretTypeOK'
  BY <1>1 DEF SecretInv, SecretTypeOK, Absent, Cut
<1>3. StartInv'
  BY <1>1 DEF SecretInv, SecretTypeOK, StartInv, Before, Singles, Files, Absent, Cut
<1>4. UsedInv'
  BY <1>1 DEF SecretInv, UsedInv, Complete, Files
<1>5. PairMatches'
  BY <1>1 DEF SecretInv, SecretTypeOK, PairMatches, Files, Absent, Cut
<1>. QED  BY <1>2, <1>3, <1>4, <1>5 DEF SecretInv

LEMMA WriteKeeps ==
  ASSUME SecretInv, NEW f \in Files, write(f)
  PROVE  SecretInv'
<1>1. /\ at = f /\ created /\ disk[f] = Cut /\ created' = FALSE
      /\ disk' = [disk EXCEPT ![f] = drawn] /\ mem' = [mem EXCEPT ![f] = drawn]
      /\ at' = Then[f] /\ UNCHANGED <<blamed, drawn, used>>
  BY DEF write, SecretInv, StartInv
<1>2. drawn \in Nat /\ drawn > 0 /\ disk \in [Files -> Int] /\ mem \in [Files -> Int]
  BY <1>1 DEF SecretInv, SecretTypeOK, StartInv
<1>3. at' \in {"admin", "session", "tlsKey", "tlsCert", "listen"}
  BY <1>1 DEF Then, Files
<1>4. SecretTypeOK'
  BY <1>1, <1>2, <1>3 DEF SecretInv, SecretTypeOK, Files, Absent
<1>5. StartInv'
  BY <1>1, <1>2, <1>3 DEF SecretInv, SecretTypeOK, StartInv, Before, Then, Singles, Files, Absent, Cut
<1>6. UsedInv'
  BY <1>1, <1>2, <1>3 DEF SecretInv, UsedInv, Complete, Files
<1>7. PairMatches'
  BY <1>1, <1>2 DEF SecretInv, SecretTypeOK, StartInv, PairMatches, Files, Absent, Cut
<1>. QED  BY <1>4, <1>5, <1>6, <1>7 DEF SecretInv

LEMMA CertKeeps ==
  ASSUME SecretInv, LoadOrGenerateCert
  PROVE  SecretInv'
<1>1. CASE PairComplete
  <2>1. /\ at = "tlsKey" /\ ~created /\ at' = "listen"
        /\ disk["tlsKey"] # Absent /\ disk["tlsCert"] # Absent
        /\ UNCHANGED <<disk, created, mem, blamed, drawn, used>>
    BY <1>1 DEF PairComplete, PairFiles
  <2>2. SecretTypeOK' /\ UsedInv' /\ PairMatches'
    BY <2>1 DEF SecretInv, SecretTypeOK, UsedInv, Complete, PairMatches
  <2>3. StartInv'
    BY <2>1 DEF SecretInv, StartInv, Before, Singles, Files
  <2>. QED  BY <2>2, <2>3 DEF SecretInv
<1>2. CASE PairFiles \in {{"tlsKey"}, {"tlsCert"}} /\ Refuse(PairFiles)
  <2>1. PairFiles \in SUBSET Files
    BY DEF PairFiles, Files
  <2>2. "tlsKey" \notin PairFiles \/ "tlsCert" \notin PairFiles
    BY <1>2
  <2>3. ~Complete
    BY <2>2 DEF PairFiles, Complete, Files
  <2>. QED  BY <1>2, <2>1, <2>3, RefusalKeeps
<1>3. CASE PairFiles = {} /\ create("tlsKey")
  <2>1. disk["tlsCert"] = Absent
    BY <1>3 DEF PairFiles
  <2>. QED  BY <1>3, <2>1, CreateKeeps DEF Files
<1>4. CASE create("tlsCert")
  BY <1>4, CreateKeeps DEF Files
<1>. QED  BY <1>1, <1>2, <1>3, <1>4 DEF LoadOrGenerateCert

(* The control plane comes up with what is on disk. *)
LEMMA ListenKeeps ==
  ASSUME SecretInv, listen
  PROVE  SecretInv'
<1>1. CASE /\ disk["tlsKey"] = disk["tlsCert"] /\ disk["tlsKey"] # Cut
           /\ mem' = [mem EXCEPT !["tlsKey"] = disk["tlsKey"], !["tlsCert"] = disk["tlsCert"]]
           /\ at' = "up" /\ used' = used \cup {mem'}
           /\ UNCHANGED <<disk, created, blamed, drawn>>
  <2>1. at = "listen" /\ ~created
    BY DEF listen, SecretInv, StartInv, Files
  <2>2. \A f \in Singles : mem[f] = disk[f] /\ disk[f] # Absent /\ disk[f] # Cut
    BY <2>1 DEF SecretInv, StartInv, Before
  <2>3. disk \in [Files -> Int] /\ mem' \in [Files -> Int]
    BY <1>1 DEF SecretInv, SecretTypeOK, Files
  <2>4. \A f \in Files : mem'[f] = disk[f]
    BY <1>1, <2>2 DEF SecretInv, SecretTypeOK, Files, Singles
  <2>5. mem' = disk
    BY <2>3, <2>4
  <2>6. disk["tlsKey"] # Absent
    BY <2>1 DEF SecretInv, StartInv
  <2>7. Complete
    BY <1>1, <2>2, <2>6 DEF Complete, Files, Singles
  <2>8. UsedInv'
    BY <1>1, <2>1, <2>5, <2>7 DEF SecretInv, UsedInv, Complete
  <2>9. SecretTypeOK'
    BY <1>1, <2>3 DEF SecretInv, SecretTypeOK
  <2>10. StartInv'
    BY <1>1, <2>1, <2>2, <2>5 DEF StartInv, Before, Singles, Files
  <2>. QED  BY <1>1, <2>8, <2>9, <2>10 DEF SecretInv, PairMatches
<1>2. CASE /\ disk["tlsKey"] # disk["tlsCert"] \/ disk["tlsKey"] = Cut
           /\ Refuse({"tlsKey", "tlsCert"})
  BY <1>2, RefusalKeeps DEF Complete, Files
<1>. QED  BY <1>1, <1>2 DEF listen

LEMMA RemovalKeeps ==
  ASSUME SecretInv, operatorRemoves
  PROVE  SecretInv'
<1>1. /\ at = "down" /\ at' = "down" /\ blamed # {} /\ blamed' = {}
      /\ disk' = [f \in Files |-> IF f \in blamed THEN Absent ELSE disk[f]]
      /\ UNCHANGED <<created, mem, drawn, used>>
  BY DEF operatorRemoves
<1>2. used = {} /\ ~created
  BY <1>1 DEF SecretInv, UsedInv, StartInv, Files
<1>3. SecretTypeOK'
  BY <1>1 DEF SecretInv, SecretTypeOK, Absent
<1>4. StartInv'
  BY <1>1, <1>2 DEF SecretInv, StartInv, Singles, Files
<1>5. UsedInv'
  BY <1>1, <1>2 DEF UsedInv
<1>6. PairMatches'
  BY <1>1 DEF SecretInv, SecretTypeOK, PairMatches, Files, Absent, Cut
<1>. QED  BY <1>3, <1>4, <1>5, <1>6 DEF SecretInv

LEMMA StartKeeps ==
  ASSUME SecretInv, serverStarts
  PROVE  SecretInv'
<1>1. /\ at = "down" /\ at' = "psk" /\ blamed' = {}
      /\ UNCHANGED <<disk, created, mem, drawn, used>>
  BY DEF serverStarts
<1>2. SecretTypeOK' /\ UsedInv' /\ PairMatches'
  BY <1>1 DEF SecretInv, SecretTypeOK, UsedInv, Complete, PairMatches, Files
<1>3. StartInv'
  BY <1>1 DEF SecretInv, StartInv, Before, Singles, Files
<1>. QED  BY <1>2, <1>3 DEF SecretInv

(* The invariant is inductive. *)
THEOREM SecretInvariant == SecretSpec => []SecretInv
<1>1. SecretInit => SecretInv
  <2>. SUFFICES ASSUME SecretInit PROVE SecretInv
    OBVIOUS
  <2>1. SecretTypeOK
    BY DEF SecretInit, SecretTypeOK, NoSecrets, Absent
  <2>2. StartInv
    BY DEF SecretInit, StartInv, NoSecrets, Files, Singles
  <2>3. UsedInv /\ PairMatches
    BY DEF SecretInit, UsedInv, PairMatches, NoSecrets, Files, Absent, Cut
  <2>. QED  BY <2>1, <2>2, <2>3 DEF SecretInv
<1>2. SecretInv /\ [SecretNext]_secretVars => SecretInv'
  <2>. SUFFICES ASSUME SecretInv, [SecretNext]_secretVars PROVE SecretInv'
    OBVIOUS
  <2>1. ASSUME NEW f \in {"psk", "admin", "session"}, load(f) \/ create(f) PROVE SecretInv'
    BY <2>1, LoadKeeps, CreateKeeps DEF Singles, Files
  <2>2. ASSUME NEW f \in Files, write(f) PROVE SecretInv'
    BY <2>2, WriteKeeps
  <2>3. ASSUME NEW f \in Files, writeFails(f) PROVE SecretInv'
    BY <2>3, RefusalKeeps DEF writeFails
  <2>4. CASE serverEnds
    BY <2>4, RefusalKeeps DEF serverEnds
  <2>5. CASE UNCHANGED secretVars
    BY <2>5 DEF secretVars, SecretInv, SecretTypeOK, StartInv, UsedInv, Complete, PairMatches
  <2>. QED  BY <2>1, <2>2, <2>3, <2>4, <2>5, StartKeeps, CertKeeps, ListenKeeps, RemovalKeeps
            DEF SecretNext
<1>. QED  BY <1>1, <1>2, PTL DEF SecretSpec

(* The control plane is never up with two different sets of secrets,        *)
(* wherever starts were cut off (LoadOrGenerate, LoadOrGenerateCert).       *)
THEOREM SecretsStayStable == SecretSpec => []SecretsStable
<1>1. SecretInv => SecretsStable
  BY DEF SecretInv, UsedInv, SecretsStable
<1>. QED  BY <1>1, SecretInvariant, PTL

(* A complete certificate on disk always belongs to the key beside it       *)
(* (LoadOrGenerateCert).                                                    *)
THEOREM PairsStayMatched == SecretSpec => []PairMatches
<1>1. SecretInv => PairMatches
  BY DEF SecretInv
<1>. QED  BY <1>1, SecretInvariant, PTL

-----------------------------------------------------------------------------
(*****************************************************************************)
(* Signal sessions, for every number of sessions and broadcasters.           *)
(*****************************************************************************)

Served == {"closeOld", "reading"}
States == {"unused", "upgraded", "closeOld", "reading", "done"}
SessionRow == [at : States, open : BOOLEAN, old : Sessions \cup {0}]

(* A session that displaces another displaces another: it was not yet       *)
(* registered when it read the map.                                         *)
HubInv ==
  /\ client \in Sessions \cup {0}
  /\ session \in [Sessions -> SessionRow]
  /\ \A s \in Sessions : session[s].old # s
  /\ NoDeafSession

LEMMA ZeroIsNoSession == 0 \notin Sessions
BY SessionsAssumption DEF Sessions

LEMMA DialKeeps ==
  ASSUME HubInv, NEW s \in Sessions, NEW kept \in BOOLEAN, dialSignal(s, kept)
  PROVE  HubInv'
<1>. DEFINE row == [Undialled EXCEPT !.at = "upgraded", !.open = TRUE]
<1>1. row \in SessionRow /\ row.at = "upgraded" /\ row.old = 0
  BY DEF Undialled, SessionRow, States
<1>2. session' = [session EXCEPT ![s] = row] /\ client' = client /\ session[s].at = "unused"
  BY DEF dialSignal
<1>. HIDE DEF row
<1>. QED  BY <1>1, <1>2, ZeroIsNoSession DEF HubInv, NoDeafSession

LEMMA RegisterKeeps ==
  ASSUME HubInv, NEW s \in Sessions, register(s)
  PROVE  HubInv'
<1>1. session[s] \in SessionRow /\ client # s
  BY ZeroIsNoSession DEF HubInv, register, NoDeafSession
<1>2. session' = [session EXCEPT ![s] = [session[s] EXCEPT !.at = "closeOld", !.old = client]]
  BY DEF register, HubInv
<1>. DEFINE row == [session[s] EXCEPT !.at = "closeOld", !.old = client]
<1>3. row \in SessionRow /\ row.at = "closeOld" /\ row.old = client
  BY <1>1 DEF SessionRow, States, HubInv
<1>4. client' = s /\ session[s].at = "upgraded"
  BY DEF register
<1>. HIDE DEF row
<1>5. session' = [session EXCEPT ![s] = row]
  BY <1>2 DEF row
<1>. QED  BY <1>1, <1>3, <1>4, <1>5, ZeroIsNoSession DEF HubInv, NoDeafSession

LEMMA CloseOldKeeps ==
  ASSUME HubInv, NEW s \in Sessions, closeOld(s)
  PROVE  HubInv'
<1>. DEFINE mine == [session[s] EXCEPT !.at = "reading", !.old = 0]
            shut(t) == [session[t] EXCEPT !.open = @ /\ t # session[s].old]
<1>1. \A t \in Sessions : session[t] \in SessionRow
  BY DEF HubInv
<1>2. mine \in SessionRow /\ mine.at = "reading" /\ mine.old = 0
  BY <1>1 DEF SessionRow, States
<1>3. mine.open = session[s].open
  BY <1>1, Zenon DEF SessionRow
<1>4. ASSUME NEW t \in Sessions
      PROVE  shut(t) \in SessionRow /\ shut(t).at = session[t].at /\ shut(t).old = session[t].old
  BY <1>1 DEF SessionRow
<1>5. ASSUME NEW t \in Sessions, shut(t).open
      PROVE  session[t].open /\ t # session[s].old
  <2>1. shut(t).open = (session[t].open /\ t # session[s].old)
    BY <1>1, Zenon DEF SessionRow
  <2>. QED  BY <1>5, <2>1
<1>6. /\ client' = client /\ session[s].at = "closeOld"
      /\ session' = [t \in Sessions |-> IF t = s THEN mine ELSE shut(t)]
  BY DEF closeOld
<1>. HIDE DEF mine, shut
<1>7. session' \in [Sessions -> SessionRow]
  BY <1>2, <1>4, <1>6
<1>8. \A t \in Sessions : session'[t].old # t
  BY <1>2, <1>4, <1>6, ZeroIsNoSession DEF HubInv
<1>9. client' # 0 => session'[client'].at \in Served
  BY <1>2, <1>4, <1>6 DEF HubInv, NoDeafSession, Served
<1>10. ASSUME NEW r \in Sessions, session'[r].at \in Served, session'[r].open
       PROVE  client' = r \/ \E t \in Sessions : session'[t].at = "closeOld" /\ session'[t].old = r
  <2>1. session[r].at \in Served /\ session[r].open /\ (r = s \/ r # session[s].old)
    BY <1>3, <1>4, <1>5, <1>6, <1>10 DEF Served
  <2>2. client = r \/ \E t \in Sessions : session[t].at = "closeOld" /\ session[t].old = r
    BY <2>1 DEF HubInv, NoDeafSession, Served
  <2>3. ASSUME NEW t \in Sessions, session[t].at = "closeOld", session[t].old = r
        PROVE  session'[t].at = "closeOld" /\ session'[t].old = r
    <3>1. t # s
      BY <2>1, <2>3 DEF HubInv
    <3>. QED  BY <2>3, <3>1, <1>4, <1>6
  <2>. QED  BY <2>2, <2>3, <1>6
<1>. QED  BY <1>6, <1>7, <1>8, <1>9, <1>10 DEF HubInv, NoDeafSession, Served

LEMMA UnregisterKeeps ==
  ASSUME HubInv, NEW s \in Sessions, unregister(s)
  PROVE  HubInv'
<1>. DEFINE row == [session[s] EXCEPT !.at = "done"]
<1>1. session[s] \in SessionRow
  BY DEF HubInv
<1>2. row \in SessionRow /\ row.at = "done" /\ row.old = session[s].old
  BY <1>1 DEF SessionRow, States
<1>3. /\ session' = [session EXCEPT ![s] = row]
      /\ client' = IF client = s THEN 0 ELSE client
      /\ session[s].at = "reading"
  BY DEF unregister, HubInv
<1>4. ~session[s].open
  BY DEF unregister
<1>. HIDE DEF row
<1>. QED  BY <1>2, <1>3, <1>4, ZeroIsNoSession DEF HubInv, NoDeafSession

LEMMA BreakKeeps ==
  ASSUME HubInv, NEW s \in Sessions, connectionBreaks(s)
  PROVE  HubInv'
<1>. DEFINE row == [session[s] EXCEPT !.open = FALSE]
<1>1. session[s] \in SessionRow
  BY DEF HubInv
<1>2. row \in SessionRow /\ row.at = session[s].at /\ row.old = session[s].old
  BY <1>1 DEF SessionRow
<1>3. ~row.open
  BY <1>1, Zenon DEF SessionRow
<1>4. session' = [session EXCEPT ![s] = row] /\ client' = client
  BY DEF connectionBreaks, HubInv
<1>. HIDE DEF row
<1>. QED  BY <1>2, <1>3, <1>4 DEF HubInv, NoDeafSession

LEMMA StopKeeps ==
  ASSUME HubInv, serverStops
  PROVE  HubInv'
<1>. DEFINE ended == [Undialled EXCEPT !.at = "done"]
<1>1. /\ Undialled \in SessionRow /\ Undialled.at = "unused" /\ Undialled.old = 0
      /\ ended \in SessionRow /\ ended.at = "done" /\ ended.old = 0
  BY DEF Undialled, SessionRow, States
<1>2. client' = 0 /\ session' = [s \in Sessions |-> IF session[s].at = "unused" THEN Undialled ELSE ended]
  BY DEF serverStops
<1>. HIDE DEF ended
<1>. QED  BY <1>1, <1>2, ZeroIsNoSession DEF HubInv, NoDeafSession

(* Whatever connections break, are replaced or given up, and however late   *)
(* their handlers notice, no agent is left on a registered, open session    *)
(* that no broadcast reaches (register, unregister).                        *)
THEOREM NoSessionIsDeaf == HubSpec => []NoDeafSession
<1>1. HubInit => HubInv
  <2>1. Undialled \in SessionRow /\ Undialled.at = "unused" /\ Undialled.old = 0
    BY DEF Undialled, SessionRow, States
  <2>. QED  BY <2>1, ZeroIsNoSession DEF HubInit, HubInv, NoDeafSession
<1>2. HubInv /\ [HubNext]_hubVars => HubInv'
  <2>. SUFFICES ASSUME HubInv, [HubNext]_hubVars PROVE HubInv'
    OBVIOUS
  <2>1. CASE UNCHANGED <<client, session>>
    BY <2>1 DEF HubInv, NoDeafSession
  <2>2. ASSUME \/ readSignalEnds \/ readSyncNow
               \/ \E w \in Broadcasters : \/ broadcast(w) \/ broadcastDone(w)
                                         \/ \E s \in Sessions : writeSyncNow(w, s)
        PROVE  UNCHANGED <<client, session>>
    BY <2>2 DEF readSignalEnds, readSyncNow, broadcast, broadcastDone, writeSyncNow
  <2>. QED  BY <2>1, <2>2, DialKeeps, RegisterKeeps, CloseOldKeeps, UnregisterKeeps,
               BreakKeeps, StopKeeps DEF HubNext, hubVars
<1>3. HubInv => NoDeafSession
  BY DEF HubInv
<1>. QED  BY <1>1, <1>2, <1>3, PTL DEF HubSpec

-----------------------------------------------------------------------------
(*****************************************************************************)
(* Sign-in, for every set of user names, and any order of requests,          *)
(* password changes, renames and deletions.                                  *)
(*****************************************************************************)

AnyName == UserNames \cup {SeedName}
AccountRow == [name : AnyName, pw : Nat, session_epoch : Nat, born : Nat]
Stages == {"none", "issue", "authenticate", "set"}
Request == [at : Stages, id : Nat, name : AnyName, born : Nat, pw : Nat]
Cookie == [id : Nat, epoch : Nat, born : Nat, pw : Nat, late : BOOLEAN]

(* Passwords and epochs change together, and a cookie that is not late      *)
(* names the epoch of its password.                                         *)
AccountsInv ==
  /\ DOMAIN users \subseteq Nat
  /\ users \in [DOMAIN users -> AccountRow]
  /\ births \in Nat
  /\ asking \in [Browsers -> Request]
  /\ cookie \in [Browsers -> Cookie]
  /\ \A i \in DOMAIN users : users[i].session_epoch = users[i].pw
  /\ \A b \in Browsers : cookie[b].late \/ cookie[b].epoch = cookie[b].pw

LEMMA InsertKeeps ==
  ASSUME AccountsInv, NEW n \in AnyName, InsertUser(n), UNCHANGED <<asking, cookie>>
  PROVE  AccountsInv'
<1>. DEFINE row == [name |-> n, pw |-> 0, session_epoch |-> 0, born |-> births + 1]
<1>1. row \in AccountRow /\ row.session_epoch = row.pw
  BY DEF AccountsInv, AccountRow
<1>2. PICK i \in UserIds :
        users' = [j \in DOMAIN users \cup {i} |-> IF j = i THEN row ELSE users[j]]
  BY DEF InsertUser
<1>3. i \in Nat /\ births' \in Nat
  BY DEF UserIds, AccountsInv, InsertUser
<1>. HIDE DEF row
<1>. QED  BY <1>1, <1>2, <1>3 DEF AccountsInv

LEMMA KnownIsRequest ==
  ASSUME AccountsInv, NEW i \in DOMAIN users, NEW stage \in Stages
  PROVE  [Known(i) EXCEPT !.at = stage] \in Request
<1>1. users[i] \in AccountRow /\ i \in Nat
  BY DEF AccountsInv
<1>. QED  BY <1>1 DEF Known, NoRequest, Request, AccountRow, Stages

LEMMA IssueKeeps ==
  ASSUME AccountsInv, NEW b \in Browsers, issueCookie(b)
  PROVE  AccountsInv'
<1>. DEFINE q == asking[b]
            new == signUISession(q)
<1>1. q \in Request /\ NoRequest \in Request
  BY DEF AccountsInv, NoRequest, Request, AnyName, Stages
<1>2. asking' \in [Browsers -> Request]
  BY <1>1 DEF AccountsInv, issueCookie
<1>3. CASE q.id \in DOMAIN users
  <2>1. users[q.id] \in AccountRow /\ users[q.id].session_epoch = users[q.id].pw
    BY <1>3 DEF AccountsInv
  <2>2. new \in Cookie
    BY <1>1, <2>1 DEF signUISession, Cookie, Request, AccountRow
  <2>3. new.late \/ new.epoch = new.pw
    BY <2>1 DEF signUISession
  <2>4. cookie' = [cookie EXCEPT ![b] = new]
    BY <1>3 DEF issueCookie
  <2>. HIDE DEF new
  <2>. QED  BY <1>2, <2>2, <2>3, <2>4 DEF AccountsInv, issueCookie
<1>4. CASE q.id \notin DOMAIN users
  BY <1>2, <1>4 DEF AccountsInv, issueCookie
<1>. QED  BY <1>3, <1>4

LEMMA PasswordRow ==
  ASSUME NEW r \in AccountRow, NEW p \in Nat, NEW e \in Nat
  PROVE  [r EXCEPT !.pw = p, !.session_epoch = e] \in AccountRow
BY DEF AccountRow

LEMMA IssuingRequest ==
  ASSUME NEW q \in Request, NEW p \in Nat, NEW n \in Nat
  PROVE  [q EXCEPT !.at = "issue", !.pw = p, !.born = n] \in Request
<1>1. "issue" \in Stages
  BY DEF Stages
<1>2. \A s \in Stages : [q EXCEPT !.at = s, !.pw = p, !.born = n] \in Request
  BY DEF Request
<1>. QED  BY <1>1, <1>2

LEMMA SetPasswordKeeps ==
  ASSUME AccountsInv, NEW b \in Browsers, SetPassword(b)
  PROVE  AccountsInv'
<1>. DEFINE i == asking[b].id
            p == users[i].pw + 1
            e == users[i].session_epoch + 1
            row == [users[i] EXCEPT !.pw = p, !.session_epoch = e]
            next == [asking[b] EXCEPT !.at = "issue", !.pw = users[i].pw + 1, !.born = users[i].born]
<1>1. asking[b] \in Request /\ NoRequest \in Request
  BY DEF AccountsInv, NoRequest, Request, AnyName, Stages
<1>2. CASE i \in DOMAIN users
  <2>1. users[i] \in AccountRow /\ users[i].session_epoch = users[i].pw
    BY <1>2 DEF AccountsInv
  <2>2. row \in AccountRow /\ row.session_epoch = row.pw
    <3>1. p \in Nat /\ e = p
      BY <2>1 DEF AccountRow
    <3>. HIDE DEF i, p, e
    <3>2. row \in AccountRow
      BY <2>1, <3>1, PasswordRow
    <3>. QED  BY <2>1, <3>1, <3>2 DEF AccountRow
  <2>3. next \in Request
    <3>1. users[i].pw + 1 \in Nat /\ users[i].born \in Nat
      BY <2>1 DEF AccountRow
    <3>. QED  BY <1>1, <3>1, IssuingRequest
  <2>4. users' = [users EXCEPT ![i] = row]
    BY <1>2, <2>1 DEF SetPassword, AccountRow, AccountsInv
  <2>5. asking' = [asking EXCEPT ![b] = next] /\ births' = births /\ cookie' = cookie
    BY <1>2 DEF SetPassword
  <2>. HIDE DEF row, next
  <2>. QED  BY <1>2, <2>2, <2>3, <2>4, <2>5 DEF AccountsInv
<1>3. CASE i \notin DOMAIN users
  BY <1>1, <1>3 DEF SetPassword, AccountsInv
<1>. QED  BY <1>2, <1>3

(* "A password change ... revokes outstanding cookies" (sessionUser), for   *)
(* any number of accounts, browsers and changes: an accepted session that   *)
(* was not overtaken by a change was opened with the account's password.    *)
THEOREM AcceptedSessionsAreCurrent == AccountsSpec => []SessionsCurrent
<1>1. AccountsInit => AccountsInv
  <2>1. NoRequest \in Request /\ NoCookie \in Cookie /\ NoCookie.epoch = NoCookie.pw
    BY DEF NoRequest, NoCookie, Request, Cookie, AnyName, Stages
  <2>. QED  BY <2>1 DEF AccountsInit, AccountsInv
<1>2. AccountsInv /\ [AccountsNext]_accountVars => AccountsInv'
  <2>. SUFFICES ASSUME AccountsInv, [AccountsNext]_accountVars PROVE AccountsInv'
    OBVIOUS
  <2>0. NoRequest \in Request /\ NoCookie \in Cookie /\ NoCookie.epoch = NoCookie.pw
    BY DEF NoRequest, NoCookie, Request, Cookie, AnyName, Stages
  <2>1. CASE EnsureSeedUser \/ \E n \in UserNames : CreateLocalUser(n)
    BY <2>1, InsertKeeps DEF EnsureSeedUser, CreateLocalUser, AnyName
  <2>2. ASSUME NEW i \in DOMAIN users, DeleteUser(i) PROVE AccountsInv'
    BY <2>2 DEF DeleteUser, AccountsInv
  <2>3. ASSUME NEW b \in Browsers, NEW i \in DOMAIN users, handleUILogin(b, i) PROVE AccountsInv'
    <3>1. [Known(i) EXCEPT !.at = "issue"] \in Request
      BY KnownIsRequest DEF Stages
    <3>. QED  BY <2>3, <3>1 DEF handleUILogin, AccountsInv
  <2>4. ASSUME NEW b \in Browsers, Authenticate(b) PROVE AccountsInv'
    <3>1. [asking[b] EXCEPT !.at = "set"] \in Request
      BY DEF AccountsInv, Request, Stages
    <3>. QED  BY <2>0, <2>4, <3>1 DEF Authenticate, AccountsInv
  <2>5. ASSUME NEW b \in Browsers, handleChangePassword(b) PROVE AccountsInv'
    <3>1. [Known(cookie[b].id) EXCEPT !.at = "authenticate"] \in Request
      BY <2>5, KnownIsRequest DEF handleChangePassword, sessionUser, Stages
    <3>. QED  BY <2>5, <3>1 DEF handleChangePassword, AccountsInv
  <2>6. ASSUME NEW b \in Browsers, handleLogout(b) PROVE AccountsInv'
    BY <2>0, <2>6 DEF handleLogout, AccountsInv
  <2>7. CASE UNCHANGED accountVars
    BY <2>7 DEF accountVars, AccountsInv
  <2>. QED  BY <2>1, <2>2, <2>3, <2>4, <2>5, <2>6, <2>7, IssueKeeps, SetPasswordKeeps DEF AccountsNext
<1>3. AccountsInv => SessionsCurrent
  BY DEF AccountsInv, SessionsCurrent, sessionUser
<1>. QED  BY <1>1, <1>2, <1>3, PTL DEF AccountsSpec

-----------------------------------------------------------------------------
(*****************************************************************************)
(* Hole-punch epochs, for any pair of agents that report at any rate and     *)
(* any number of restarts of the control plane.                              *)
(*****************************************************************************)

Handling == [at : {"idle", "coordinate", "build", "answered"},
             state : {"direct", "relay", "probing"}, epoch : Nat]
Epochs == [epoch : Nat, attempts : 0..maxPunchAttempts, since : Nat \cup {Never}]

(* What the agents and the answers on their way to them have of the epochs  *)
(* of the server's first life is not ahead of it.                           *)
PunchInv ==
  /\ pair \in Epochs
  /\ handler \in [Agents -> Handling]
  /\ path \in [Agents -> {"up", "down", "relay", "probing"}]
  /\ seen \in [Agents -> Nat]
  /\ restarts \in Nat
  /\ restarts = 0 => \A x \in Agents : seen[x] <= pair.epoch /\ handler[x].epoch <= pair.epoch

LEMMA CoordinateKeeps ==
  ASSUME PunchInv, NEW x \in Agents, NEW candidates \in BOOLEAN, coordinatePunches(x, candidates)
  PROVE  /\ PunchInv'
         /\ pair'.epoch > pair.epoch => pair'.epoch = pair.epoch + 1
<1>1. /\ pair.epoch \in Nat /\ pair.attempts \in 0..maxPunchAttempts
      /\ pair = [epoch |-> pair.epoch, attempts |-> pair.attempts, since |-> pair.since]
  BY DEF PunchInv, Epochs
<1>2. pair' \in Epochs /\ (pair'.epoch = pair.epoch \/ pair'.epoch = pair.epoch + 1)
  <2>1. CASE pair' = pair
    BY <2>1 DEF PunchInv
  <2>2. CASE resetPunchAttempts
    <3>1. 0 \in 0..maxPunchAttempts /\ Never \in Nat \cup {Never}
      BY PairAssumption
    <3>2. [pair EXCEPT !.attempts = 0, !.since = Never] \in Epochs
      BY <3>1 DEF PunchInv, Epochs
    <3>3. [pair EXCEPT !.attempts = 0, !.since = Never].epoch = pair.epoch
      BY DEF PunchInv, Epochs
    <3>. QED  BY <2>2, <3>2, <3>3 DEF PunchInv, resetPunchAttempts
  <2>3. CASE bumpPunchEpoch /\ MayBump
    <3>1. pair.epoch + 1 \in Nat /\ pair.attempts + 1 \in 0..maxPunchAttempts
      BY <2>3, <1>1, PairAssumption DEF MayBump
    <3>. QED  BY <2>3, <3>1 DEF bumpPunchEpoch, Epochs
  <2>. QED  BY <2>1, <2>2, <2>3 DEF coordinatePunches
<1>3. [handler[x] EXCEPT !.at = "build"] \in Handling /\ [handler[x] EXCEPT !.at = "build"].epoch = handler[x].epoch
  BY DEF PunchInv, Handling
<1>4. handler' = [handler EXCEPT ![x] = [handler[x] EXCEPT !.at = "build"]]
  BY DEF coordinatePunches, PunchInv
<1>5. \A y \in Agents : handler'[y] \in Handling /\ handler'[y].epoch = handler[y].epoch
  BY <1>3, <1>4 DEF PunchInv
<1>6. handler' \in [Agents -> Handling]
  BY <1>3, <1>4 DEF PunchInv
<1>7. /\ path' = path /\ seen' = seen /\ restarts' = restarts
      /\ \A y \in Agents : seen[y] \in Nat /\ handler[y].epoch \in Nat
  BY DEF coordinatePunches, PunchInv, Handling
<1>. QED  BY <1>1, <1>2, <1>5, <1>6, <1>7 DEF PunchInv

LEMMA BuildKeeps ==
  ASSUME PunchInv, NEW x \in Agents, buildPeerEntries(x)
  PROVE  PunchInv' /\ pair' = pair
<1>1. pair.epoch \in Nat /\ handler[x] \in Handling
  BY DEF PunchInv, Epochs
<1>. DEFINE new == [handler[x] EXCEPT !.at = "answered", !.epoch = pair.epoch]
<1>2. new \in Handling /\ new.epoch = pair.epoch
  BY <1>1 DEF Handling
<1>3. handler' = [handler EXCEPT ![x] = new]
  BY <1>1 DEF buildPeerEntries, PunchInv, Handling
<1>. HIDE DEF new
<1>4. handler' \in [Agents -> Handling]
  BY <1>2, <1>3 DEF PunchInv
<1>5. restarts = 0 => \A y \in Agents : handler'[y].epoch <= pair.epoch
  BY <1>1, <1>2, <1>3 DEF PunchInv
<1>. QED  BY <1>4, <1>5 DEF PunchInv, buildPeerEntries

LEMMA RetryKeeps ==
  ASSUME PunchInv, NEW x \in Agents, NEW probes \in BOOLEAN, maybeRetryDirect(x, probes)
  PROVE  PunchInv' /\ pair' = pair
<1>1. Idle \in Handling /\ Idle.epoch = 0 /\ handler[x].epoch \in Nat
  BY DEF Idle, Handling, PunchInv
<1>2. pair' = pair /\ restarts' = restarts /\ pair.epoch \in Nat
  BY DEF maybeRetryDirect, PunchInv, Epochs
<1>3. handler' = [handler EXCEPT ![x] = Idle]
  BY DEF maybeRetryDirect
<1>4. path' \in [Agents -> {"up", "down", "relay", "probing"}]
  BY DEF maybeRetryDirect, PunchInv
<1>5. \E e \in {handler[x].epoch, seen[x]} : seen' = [seen EXCEPT ![x] = e]
  BY DEF maybeRetryDirect
<1>. QED  BY <1>1, <1>2, <1>3, <1>4, <1>5 DEF PunchInv

LEMMA PunchStep ==
  ASSUME PunchInv, [Next]_vars
  PROVE  /\ PunchInv'
         /\ pair'.epoch > pair.epoch => pair'.epoch = pair.epoch + 1 /\ pair'.attempts <= maxPunchAttempts
<1>. DEFINE Goal == /\ PunchInv'
                    /\ pair'.epoch > pair.epoch =>
                         pair'.epoch = pair.epoch + 1 /\ pair'.attempts <= maxPunchAttempts
<1>0. /\ pair.epoch \in Nat /\ NoEpochs \in Epochs /\ NoEpochs.epoch = 0
      /\ Idle \in Handling /\ Idle.epoch = 0
  BY PairAssumption DEF PunchInv, Epochs, NoEpochs, Idle, Handling, Never
<1>1. ASSUME NEW x \in Agents, ApplyReport(x) PROVE Goal
  <2>. DEFINE new == [at |-> "coordinate", state |-> pathState(x), epoch |-> 0]
  <2>1. new \in Handling /\ new.epoch = 0
    BY DEF PunchInv, Handling, pathState
  <2>2. handler' = [handler EXCEPT ![x] = new] /\ UNCHANGED <<pair, path, seen, restarts>>
    BY <1>1 DEF ApplyReport
  <2>. HIDE DEF new
  <2>. QED  BY <1>0, <2>1, <2>2 DEF PunchInv
<1>2. ASSUME NEW x \in Agents, NEW candidates \in BOOLEAN, coordinatePunches(x, candidates) PROVE Goal
  <2>1. PunchInv' /\ (pair'.epoch > pair.epoch => pair'.epoch = pair.epoch + 1)
    BY <1>2, CoordinateKeeps
  <2>2. pair'.attempts <= maxPunchAttempts
    BY <2>1, PairAssumption DEF PunchInv, Epochs
  <2>. QED  BY <2>1, <2>2
<1>3. ASSUME NEW x \in Agents, buildPeerEntries(x) PROVE Goal
  BY <1>0, <1>3, BuildKeeps
<1>4. ASSUME NEW x \in Agents, NEW probes \in BOOLEAN, maybeRetryDirect(x, probes) PROVE Goal
  BY <1>0, <1>4, RetryKeeps
<1>5. ASSUME NEW x \in Agents, GiveUp(x) PROVE Goal
  BY <1>0, <1>5 DEF GiveUp, PunchInv
<1>6. ASSUME NEW x \in Agents, AnswerLost(x) PROVE Goal
  BY <1>0, <1>6 DEF AnswerLost, PunchInv
<1>7. ASSUME NEW x \in Agents, NEW to \in {"up", "down", "relay", "probing"}, PathMoves(x, to) PROVE Goal
  BY <1>0, <1>7 DEF PathMoves, PunchInv
<1>8. ASSUME NEW x \in Agents, AgentRestart(x) PROVE Goal
  BY <1>0, <1>8 DEF AgentRestart, PunchInv
<1>9. CASE ServerRestart
  BY <1>0, <1>9 DEF ServerRestart, PunchInv
<1>10. CASE Tick
  <2>1. Older(pair.since, MaxCooldown) \in Nat \cup {Never}
    BY PairAssumption DEF PunchInv, Epochs, Older, Least, Never, MaxCooldown
  <2>2. pair' \in Epochs /\ pair'.epoch = pair.epoch
    BY <1>10, <2>1 DEF Tick, PunchInv, Epochs
  <2>. QED  BY <1>0, <1>10, <2>2 DEF Tick, PunchInv
<1>11. CASE UNCHANGED vars
  BY <1>0, <1>11 DEF vars, PunchInv
<1>. QED  BY <1>1, <1>2, <1>3, <1>4, <1>5, <1>6, <1>7, <1>8, <1>9, <1>10, <1>11 DEF Next, AgentNext

(* Until the first restart of the control plane every epoch it issues is    *)
(* news to both sides, for any number of reports, resets, lost answers and  *)
(* agent restarts, and never more attempts than the cap are counted         *)
(* (bumpPunchEpoch, resetPunchAttempts).                                    *)
THEOREM EpochsAreNews == Spec => BumpIsNews
<1>1. Init => PunchInv
  <2>1. NoEpochs \in Epochs /\ NoEpochs.epoch = 0 /\ Idle \in Handling /\ Idle.epoch = 0
    BY PairAssumption DEF Epochs, NoEpochs, Idle, Handling, Never
  <2>. QED  BY <2>1 DEF Init, PunchInv
<1>2. PunchInv /\ [Next]_vars => PunchInv'
  BY PunchStep
<1>3. PunchInv /\ [Next]_vars =>
        [pair'.epoch > pair.epoch =>
           /\ restarts = 0 => \A x \in Agents : pair'.epoch > seen[x]
           /\ pair'.attempts <= maxPunchAttempts]_vars
  <2>. SUFFICES ASSUME PunchInv, [Next]_vars, pair'.epoch > pair.epoch
                PROVE  /\ restarts = 0 => \A x \in Agents : pair'.epoch > seen[x]
                       /\ pair'.attempts <= maxPunchAttempts
    OBVIOUS
  <2>1. pair'.epoch = pair.epoch + 1 /\ pair'.attempts <= maxPunchAttempts
    BY PunchStep
  <2>2. pair.epoch \in Nat /\ \A x \in Agents : seen[x] \in Nat
    BY DEF PunchInv, Epochs
  <2>. QED  BY <2>1, <2>2 DEF PunchInv
<1>. QED  BY <1>1, <1>2, <1>3, PTL DEF Spec, BumpIsNews

=============================================================================
