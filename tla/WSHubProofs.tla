----------------------------- MODULE WSHubProofs -----------------------------
(***************************************************************************)
(* Theorems about the relay hub, for any number of connections, and about  *)
(* two agents that dial it.  What is said of the hub alone cites no        *)
(* assumption on the pairs and the members.                                *)
(***************************************************************************)
EXTENDS RelayedPair, TLAPS

(* ListedIsServed carries the others: what join closes is a live connection *)
(* because it was listed, and a frame's destination is the other member     *)
(* because its entry says who joined.                                       *)
HubInv == HubTypeOK /\ ServedIsReachable /\ ListedIsServed /\ FramesCross

-----------------------------------------------------------------------------
(* Facts about the helpers *)

(* A connection that is here is a record of its type. *)
LEMMA HereIsLive ==
  ASSUME HubTypeOK, NEW c \in Conns
  PROVE  /\ Here(c) => conn[c] \in Live
         /\ \A r \in Live : r # Gone
<1>1. \A r \in Live : r.at # "gone"
  BY DEF Live
<1>2. Gone.at = "gone"
  BY DEF Gone
<1>. QED  BY <1>1, <1>2 DEF HubTypeOK, Here

(* The entry of a member, if it has one, is a connection. *)
LEMMA MemberFacts ==
  ASSUME HubTypeOK, NEW p, NEW m
  PROVE  /\ Member(p, m) # NoConn <=> p \in DOMAIN pairs /\ m \in DOMAIN pairs[p]
         /\ Member(p, m) # NoConn => Member(p, m) = pairs[p][m] /\ Member(p, m) \in Conns
BY ConnAssumption DEF HubTypeOK, Member, membersOf

(* Member after a step; the arguments are values, not state functions. *)
MemberNext(p, m) ==
  IF p \in DOMAIN pairs' /\ m \in DOMAIN pairs'[p] THEN pairs'[p][m] ELSE NoConn

(* How ServedIsReachable is shown after a step that changes the table. *)
LEMMA ServedNext ==
  ASSUME \A d \in Conns :
           conn'[d] # Gone /\ conn'[d].at \in {"serving", "writing"} /\ conn'[d].open =>
             MemberNext(conn'[d].pair, conn'[d].member) = d
  PROVE  ServedIsReachable'
BY DEF ServedIsReachable, Here, Member, membersOf, MemberNext

(* An empty hub satisfies the invariant. *)
LEMMA InitInv == Init => HubInv
BY DEF Init, HubInv, HubTypeOK, ServedIsReachable, ListedIsServed, FramesCross, Here, Gone

-----------------------------------------------------------------------------
(* Steps that leave the hub's table alone *)

(* What such a step has to keep of each connection. *)
LEMMA TableUnchanged ==
  ASSUME HubInv, pairs' = pairs,
         conn' \in [Conns -> Live \cup {Gone}],
         \A p \in DOMAIN pairs : \A m \in DOMAIN pairs[p] :
           LET d == pairs[p][m] IN
           conn'[d] \in Live /\ conn'[d].pair = p /\ conn'[d].member = m
             /\ conn'[d].at \in {"serving", "writing", "leaving"},
         \A d \in Conns :
           conn'[d] # Gone /\ conn'[d].at \in {"serving", "writing"} /\ conn'[d].open =>
             Member(conn'[d].pair, conn'[d].member) = d,
         FramesCross'
  PROVE  HubInv'
<1>1. HubTypeOK'
  BY DEF HubInv, HubTypeOK
<1>2. \A p, m : Member(p, m)' = Member(p, m)
  BY DEF Member, membersOf
<1>3. ServedIsReachable'
  BY <1>2 DEF ServedIsReachable, Here
<1>4. ListedIsServed'
  BY HereIsLive DEF HubInv, HubTypeOK, ListedIsServed, Here, Is
<1>. QED  BY <1>1, <1>3, <1>4 DEF HubInv

(* A new connection is in no entry and writes to no one yet. *)
LEMMA AcceptInv ==
  ASSUME HubInv, NEW c \in Conns, NEW p \in Pairs, NEW m \in Members, Accept(c, p, m)
  PROVE  HubInv'
<1>. DEFINE new == [at |-> "dialed", pair |-> p, member |-> m, open |-> TRUE, to |-> NoConn]
<1>1. new \in Live /\ conn' = [conn EXCEPT ![c] = new] /\ pairs' = pairs /\ conn[c] = Gone
  BY DEF Accept, Live, Here
<1>2. conn' \in [Conns -> Live \cup {Gone}]
  BY <1>1 DEF HubInv, HubTypeOK
<1>3. \A d \in Conns \ {c} : conn'[d] = conn[d]
  BY <1>1 DEF HubInv, HubTypeOK
<1>4. conn'[c] = new
  BY <1>1 DEF HubInv, HubTypeOK
<1>5. FramesCross'
  BY <1>1, <1>3, <1>4 DEF HubInv, FramesCross, Accept, Here
<1>6. \A q \in DOMAIN pairs : \A n \in DOMAIN pairs[q] :
        pairs[q][n] \in Conns \ {c} /\ conn[pairs[q][n]] \in Live
  BY <1>1, HereIsLive DEF HubInv, HubTypeOK, ListedIsServed, Here
<1>7. \A d \in Conns :
        conn'[d] # Gone /\ conn'[d].at \in {"serving", "writing"} /\ conn'[d].open =>
          Member(conn'[d].pair, conn'[d].member) = d
  BY <1>3, <1>4 DEF HubInv, ServedIsReachable, Here
<1>. HIDE DEF new
<1>. QED  BY <1>1, <1>2, <1>3, <1>5, <1>6, <1>7, TableUnchanged DEF HubInv, ListedIsServed, Is

(* A step of handler or network that changes one connection in place: it    *)
(* keeps who it is, and a connection is not opened again.                   *)
LEMMA InPlaceInv ==
  ASSUME HubInv, NEW c \in Conns, pairs' = pairs, NEW new \in Live, Here(c),
         conn' = [conn EXCEPT ![c] = new],
         new.pair = conn[c].pair, new.member = conn[c].member,
         new.open => conn[c].open,
         new.at \in {"serving", "writing"} => conn[c].at \in {"serving", "writing"} \/ ~new.open,
         conn[c].at \in {"serving", "writing", "leaving"} =>
           new.at \in {"serving", "writing", "leaving"},
         new.at = "writing" =>
           \/ conn[c].at = "writing" /\ new.to = conn[c].to
           \/ new.to \in peer(conn[c].pair, conn[c].member)
  PROVE  HubInv'
<1>1. conn[c] \in Live /\ conn[c] # Gone /\ new # Gone
  BY HereIsLive DEF HubInv, Here
<1>2. conn' \in [Conns -> Live \cup {Gone}]
  BY DEF HubInv, HubTypeOK
<1>3. conn'[c] = new /\ \A d \in Conns \ {c} : conn'[d] = conn[d]
  BY DEF HubInv, HubTypeOK
<1>4. \A d \in Conns : /\ Here(d)' <=> Here(d)
                       /\ Here(d) => conn'[d].pair = conn[d].pair /\ conn'[d].member = conn[d].member
  BY <1>1, <1>3 DEF Here
<1>5. FramesCross'
  <2>1. ASSUME NEW d \in peer(conn[c].pair, conn[c].member)
        PROVE  d \in Conns /\ conn[d].pair = conn[c].pair /\ conn[d].member # conn[c].member
    <3>1. PICK n \in DOMAIN membersOf(conn[c].pair) \ {conn[c].member} :
            d = membersOf(conn[c].pair)[n]
      BY <2>1 DEF peer
    <3>2. conn[c].pair \in DOMAIN pairs /\ n \in DOMAIN pairs[conn[c].pair]
            /\ d = pairs[conn[c].pair][n]
      BY <3>1 DEF membersOf
    <3>. QED  BY <3>1, <3>2 DEF HubInv, HubTypeOK, ListedIsServed, Is
  <2>2. ASSUME NEW e \in Conns, conn'[e] # Gone, conn'[e].at = "writing"
        PROVE  /\ conn'[e].to \in Conns
               /\ conn'[conn'[e].to] # Gone => conn'[conn'[e].to].pair = conn'[e].pair
                                        /\ conn'[conn'[e].to].member # conn'[e].member
    <3>1. CASE e # c
      BY <2>2, <3>1, <1>3, <1>4 DEF HubInv, FramesCross, Here
    <3>2. CASE e = c /\ conn[c].at = "writing" /\ new.to = conn[c].to
      BY <2>2, <3>2, <1>3, <1>4 DEF HubInv, FramesCross, Here
    <3>3. CASE e = c /\ new.to \in peer(conn[c].pair, conn[c].member)
      BY <2>1, <2>2, <3>3, <1>3, <1>4 DEF Here
    <3>. QED  BY <2>2, <3>1, <3>2, <3>3, <1>3
  <2>. QED  BY <2>2 DEF FramesCross, Here
<1>6. ASSUME NEW p \in DOMAIN pairs, NEW m \in DOMAIN pairs[p]
      PROVE  LET d == pairs[p][m] IN
             conn'[d] \in Live /\ conn'[d].pair = p /\ conn'[d].member = m
               /\ conn'[d].at \in {"serving", "writing", "leaving"}
  BY <1>6, <1>1, <1>3, HereIsLive DEF HubInv, HubTypeOK, ListedIsServed, Is
<1>7. \A d \in Conns :
        conn'[d] # Gone /\ conn'[d].at \in {"serving", "writing"} /\ conn'[d].open =>
          Member(conn'[d].pair, conn'[d].member) = d
  BY <1>1, <1>3 DEF HubInv, ServedIsReachable, Here
<1>. QED  BY <1>2, <1>5, <1>6, <1>7, TableUnchanged

(* Reading, writing, a failed read and a lost connection change one         *)
(* connection in place.                                                     *)
LEMMA HandlerStepsInv ==
  ASSUME HubInv, NEW c \in Conns,
         ReadFrame(c) \/ WriteFrame(c) \/ WritePanics(c) \/ ReadFails(c) \/ Disconnect(c)
  PROVE  HubInv'
<1>1. Here(c) /\ conn[c] \in Live /\ conn \in [Conns -> Live \cup {Gone}] /\ pairs' = pairs
  BY HereIsLive DEF HubInv, HubTypeOK, ReadFrame, WriteFrame, WritePanics, ReadFails, Disconnect
<1>2. CASE ReadFrame(c)
  <2>1. PICK d \in peer(conn[c].pair, conn[c].member) :
          conn' = [conn EXCEPT ![c].at = "writing", ![c].to = d]
    BY <1>2 DEF ReadFrame
  <2>2. d \in Conns
    BY <2>1 DEF HubInv, HubTypeOK, peer, membersOf
  <2>. DEFINE new == [conn[c] EXCEPT !.at = "writing", !.to = d]
  <2>3. conn' = [conn EXCEPT ![c] = new] /\ new \in Live
    BY <1>1, <2>1, <2>2 DEF Live
  <2>4. new.pair = conn[c].pair /\ new.member = conn[c].member /\ new.open = conn[c].open
          /\ new.at = "writing" /\ new.to = d /\ conn[c].at = "serving"
    BY <1>1, <1>2 DEF Live, ReadFrame
  <2>. HIDE DEF new
  <2>. QED  BY <1>1, <2>1, <2>3, <2>4, InPlaceInv
<1>3. CASE WriteFrame(c)
  <2>. DEFINE new == [conn[c] EXCEPT !.at = "serving", !.to = NoConn]
  <2>1. conn' = [conn EXCEPT ![c] = new] /\ new \in Live
    BY <1>1, <1>3 DEF Live, WriteFrame
  <2>2. new.pair = conn[c].pair /\ new.member = conn[c].member /\ new.open = conn[c].open
          /\ new.at = "serving" /\ conn[c].at = "writing"
    BY <1>1, <1>3 DEF Live, WriteFrame
  <2>. HIDE DEF new
  <2>. QED  BY <1>1, <2>1, <2>2, InPlaceInv
<1>4. CASE WritePanics(c)
  <2>. DEFINE new == [conn[c] EXCEPT !.at = "leaving", !.to = NoConn]
  <2>1. conn' = [conn EXCEPT ![c] = new] /\ new \in Live
    BY <1>1, <1>4 DEF Live, WritePanics
  <2>2. new.pair = conn[c].pair /\ new.member = conn[c].member /\ new.open = conn[c].open
          /\ new.at = "leaving"
    BY <1>1, <1>4 DEF Live, WritePanics
  <2>. HIDE DEF new
  <2>. QED  BY <1>1, <2>1, <2>2, InPlaceInv
<1>5. CASE ReadFails(c)
  <2>. DEFINE new == [conn[c] EXCEPT !.at = "leaving"]
  <2>1. conn' = [conn EXCEPT ![c] = new] /\ new \in Live
    BY <1>1, <1>5 DEF Live, ReadFails
  <2>2. new.pair = conn[c].pair /\ new.member = conn[c].member /\ new.open = conn[c].open
          /\ new.at = "leaving"
    BY <1>1, <1>5 DEF Live, ReadFails
  <2>. HIDE DEF new
  <2>. QED  BY <1>1, <2>1, <2>2, InPlaceInv
<1>6. CASE Disconnect(c)
  <2>. DEFINE new == [conn[c] EXCEPT !.open = FALSE]
  <2>1. conn' = [conn EXCEPT ![c] = new] /\ new \in Live
    BY <1>1, <1>6, ConnAssumption DEF Live, Disconnect, Closed
  <2>2. new.pair = conn[c].pair /\ new.member = conn[c].member /\ new.open = FALSE
          /\ new.at = conn[c].at /\ new.to = conn[c].to
    BY <1>1, <1>6 DEF Live, Disconnect
  <2>. HIDE DEF new
  <2>. QED  BY <1>1, <2>1, <2>2, InPlaceInv
<1>. QED  BY <1>2, <1>3, <1>4, <1>5, <1>6

-----------------------------------------------------------------------------
(* Steps that change the hub's table *)

(* join replaces the entry of its member and closes the one it replaces:    *)
(* the old connection, no longer reachable, is no longer open either.       *)
LEMMA JoinInv ==
  ASSUME HubInv, NEW c \in Conns, join(c)
  PROVE  HubInv'
<1>. DEFINE p == conn[c].pair
            m == conn[c].member
            old == Member(p, m)
            full == m \notin DOMAIN membersOf(p) /\ Cardinality(DOMAIN membersOf(p)) >= 2
<1>1. /\ Here(c) /\ conn[c] \in Live /\ conn[c] # Gone /\ conn[c].at = "dialed"
      /\ conn \in [Conns -> Live \cup {Gone}] /\ p \in Pairs /\ m \in Members
  BY HereIsLive DEF HubInv, HubTypeOK, join, Here, Live
<1>2. \A q \in DOMAIN pairs : \A n \in DOMAIN pairs[q] :
        pairs[q][n] \in Conns \ {c} /\ conn[pairs[q][n]] \in Live
  BY <1>1, HereIsLive DEF HubInv, HubTypeOK, ListedIsServed
<1>3. CASE full
  <2>1. pairs' = pairs /\ conn' = [conn EXCEPT ![c] = Gone]
    BY <1>3 DEF join
  <2>2. conn'[c] = Gone /\ \A d \in Conns \ {c} : conn'[d] = conn[d]
    BY <1>1, <2>1
  <2>3. FramesCross'
    BY <2>2 DEF HubInv, FramesCross, Here
  <2>4. conn' \in [Conns -> Live \cup {Gone}]
    BY <1>1, <2>1
  <2>5. \A d \in Conns :
          conn'[d] # Gone /\ conn'[d].at \in {"serving", "writing"} /\ conn'[d].open =>
            Member(conn'[d].pair, conn'[d].member) = d
    BY <2>2 DEF HubInv, ServedIsReachable, Here
  <2>6. ASSUME NEW q \in DOMAIN pairs, NEW n \in DOMAIN pairs[q]
        PROVE  LET d == pairs[q][n] IN
               conn'[d] \in Live /\ conn'[d].pair = q /\ conn'[d].member = n
                 /\ conn'[d].at \in {"serving", "writing", "leaving"}
    BY <1>2, <2>2, <2>6 DEF HubInv, ListedIsServed, Is
  <2>. QED  BY <2>1, <2>3, <2>4, <2>5, <2>6, TableUnchanged
<1>4. CASE ~full
  <2>. DEFINE row == Put(membersOf(p), m, c)
  <2>1. /\ pairs' = Put(pairs, p, row)
        /\ conn' = [Closed(conn, old) EXCEPT ![c].at = "serving"]
    BY <1>4 DEF join
  <2>2. old # NoConn => old \in Conns \ {c} /\ conn[old] \in Live
                        /\ conn[old].pair = p /\ conn[old].member = m
    BY <1>2, MemberFacts DEF HubInv, ListedIsServed, Is
  <2>3. Closed(conn, old) \in [Conns -> Live \cup {Gone}] /\ Closed(conn, old)[c] = conn[c]
    <3>1. CASE old = NoConn
      BY <3>1, <1>1 DEF Closed
    <3>2. CASE old # NoConn
      <4>1. Closed(conn, old) = [conn EXCEPT ![old] = [conn[old] EXCEPT !.open = FALSE]]
        BY <3>2 DEF Closed
      <4>2. [conn[old] EXCEPT !.open = FALSE] \in Live
        BY <2>2, <3>2 DEF Live
      <4>. QED  BY <1>1, <2>2, <3>2, <4>1, <4>2
    <3>. QED  BY <3>1, <3>2
  <2>4. /\ conn' \in [Conns -> Live \cup {Gone}]
        /\ conn'[c] = [conn[c] EXCEPT !.at = "serving"]
        /\ \A d \in Conns \ {c} : conn'[d] = Closed(conn, old)[d]
    <3>1. [conn[c] EXCEPT !.at = "serving"] \in Live
      BY <1>1 DEF Live
    <3>. QED  BY <2>1, <2>3, <3>1
  <2>5. /\ conn'[c] \in Live /\ conn'[c].pair = p /\ conn'[c].member = m
        /\ conn'[c].at = "serving" /\ conn'[c].open = conn[c].open
    BY <1>1, <2>4 DEF Live
  <2>6. \A d \in Conns \ {c} : d # old => conn'[d] = conn[d]
    BY <1>1, <2>2, <2>4 DEF Closed
  <2>7. old # NoConn => /\ conn'[old] \in Live /\ ~conn'[old].open
                        /\ conn'[old].pair = p /\ conn'[old].member = m
                        /\ conn'[old].at = conn[old].at /\ conn'[old].to = conn[old].to
    <3>1. SUFFICES ASSUME old # NoConn
                   PROVE  /\ conn'[old] \in Live /\ ~conn'[old].open
                          /\ conn'[old].pair = p /\ conn'[old].member = m
                          /\ conn'[old].at = conn[old].at /\ conn'[old].to = conn[old].to
      OBVIOUS
    <3>2. conn'[old] = [conn[old] EXCEPT !.open = FALSE]
      BY <1>1, <2>2, <2>4, <3>1 DEF Closed
    <3>. QED  BY <2>2, <3>1, <3>2 DEF Live
  <2>. HIDE DEF row
  <2>8. /\ DOMAIN pairs' = DOMAIN pairs \cup {p}
        /\ pairs'[p] = row
        /\ \A q \in DOMAIN pairs \ {p} : pairs'[q] = pairs[q]
    BY <2>1 DEF Put
  <2>9. /\ DOMAIN row = DOMAIN membersOf(p) \cup {m} /\ row[m] = c
        /\ \A n \in DOMAIN membersOf(p) \ {m} : row[n] = membersOf(p)[n]
        /\ row = [n \in DOMAIN row |-> row[n]]
    BY DEF Put, row
  <2>10. /\ \A n \in DOMAIN membersOf(p) :
              p \in DOMAIN pairs /\ n \in DOMAIN pairs[p] /\ membersOf(p)[n] = pairs[p][n]
         /\ p \in DOMAIN pairs => membersOf(p) = pairs[p]
    BY DEF membersOf
  <2>11. HubTypeOK'
    <3>1. row \in [DOMAIN row -> Conns] /\ DOMAIN row \subseteq Members /\ DOMAIN row # {}
      BY <1>1, <2>9, <2>10 DEF HubInv, HubTypeOK
    <3>. QED  BY <1>1, <2>4, <2>8, <3>1 DEF HubInv, HubTypeOK
  <2>12. ASSUME NEW q \in DOMAIN pairs', NEW n \in DOMAIN pairs'[q]
         PROVE  \/ q = p /\ n = m /\ pairs'[q][n] = c
                \/ /\ q \in DOMAIN pairs /\ n \in DOMAIN pairs[q] /\ pairs'[q][n] = pairs[q][n]
                   /\ ~(q = p /\ n = m)
    BY <2>8, <2>9, <2>10, <2>12
  <2>13. ListedIsServed'
    <3>1. ASSUME NEW q \in DOMAIN pairs', NEW n \in DOMAIN pairs'[q]
          PROVE  /\ conn'[pairs'[q][n]] # Gone
                 /\ conn'[pairs'[q][n]].pair = q /\ conn'[pairs'[q][n]].member = n
                 /\ conn'[pairs'[q][n]].at \in {"serving", "writing", "leaving"}
      <4>1. CASE q = p /\ n = m /\ pairs'[q][n] = c
        BY <4>1, <2>5, HereIsLive DEF HubInv
      <4>2. CASE /\ q \in DOMAIN pairs /\ n \in DOMAIN pairs[q] /\ pairs'[q][n] = pairs[q][n]
                 /\ ~(q = p /\ n = m)
        <5>1. pairs[q][n] \in Conns \ {c} /\ conn[pairs[q][n]] \in Live
                /\ conn[pairs[q][n]].pair = q /\ conn[pairs[q][n]].member = n
                /\ conn[pairs[q][n]].at \in {"serving", "writing", "leaving"}
          BY <4>2, <1>2 DEF HubInv, ListedIsServed, Is
        <5>2. pairs[q][n] # old
          BY <4>2, <5>1, <2>2, ConnAssumption
        <5>. QED  BY <4>2, <5>1, <5>2, <2>6, HereIsLive DEF HubInv
      <4>. QED  BY <3>1, <2>12, <4>1, <4>2
    <3>. QED  BY <3>1 DEF ListedIsServed, Here, Is
  <2>14. ASSUME NEW q, NEW n, ~(q = p /\ n = m)
         PROVE  MemberNext(q, n) = Member(q, n)
    BY <2>8, <2>9, <2>10, <2>14 DEF MemberNext, Member, membersOf
  <2>15. MemberNext(p, m) = c
    BY <2>8, <2>9 DEF MemberNext
  <2>16. ServedIsReachable'
    <3>1. ASSUME NEW d \in Conns, conn'[d] # Gone, conn'[d].at \in {"serving", "writing"},
                 conn'[d].open
          PROVE  MemberNext(conn'[d].pair, conn'[d].member) = d
      <4>1. CASE d = c
        BY <4>1, <2>5, <2>15
      <4>2. CASE d # c
        <5>1. d # old /\ conn'[d] = conn[d]
          BY <3>1, <4>2, <2>6, <2>7, ConnAssumption
        <5>2. Member(conn[d].pair, conn[d].member) = d
          BY <3>1, <5>1 DEF HubInv, ServedIsReachable, Here
        <5>3. ~(conn[d].pair = p /\ conn[d].member = m)
          BY <4>2, <5>1, <5>2
        <5>. QED  BY <5>1, <5>2, <5>3, <2>14
      <4>. QED  BY <4>1, <4>2
    <3>. QED  BY <3>1, ServedNext
  <2>17. \A d \in Conns : /\ conn'[d] # Gone <=> conn[d] # Gone
                          /\ conn[d] # Gone => /\ conn'[d].pair = conn[d].pair
                                               /\ conn'[d].member = conn[d].member
                          /\ d # c /\ conn[d] # Gone =>
                               conn'[d].at = conn[d].at /\ conn'[d].to = conn[d].to
    BY <1>1, <2>2, <2>5, <2>6, <2>7, HereIsLive, ConnAssumption DEF HubInv
  <2>18. FramesCross'
    BY <2>5, <2>17 DEF HubInv, FramesCross, Here
  <2>. QED  BY <2>11, <2>13, <2>16, <2>18 DEF HubInv
<1>. QED  BY <1>3, <1>4

(* leave drops an entry only if it is its own, so the entry of a connection *)
(* that replaced it stays.                                                  *)
LEMMA LeaveInv ==
  ASSUME HubInv, NEW c \in Conns, leave(c)
  PROVE  HubInv'
<1>. DEFINE p == conn[c].pair
            m == conn[c].member
            rest == IF StillOurs(c) THEN Drop(pairs[p], m) ELSE pairs[p]
<1>1. /\ Here(c) /\ conn[c] \in Live /\ conn[c] # Gone
      /\ conn \in [Conns -> Live \cup {Gone}] /\ p \in Pairs /\ m \in Members
  BY HereIsLive DEF HubInv, HubTypeOK, leave, Here, Live
<1>2. /\ pairs' = IF p \notin DOMAIN pairs THEN pairs
                  ELSE IF DOMAIN rest = {} THEN Drop(pairs, p)
                  ELSE Put(pairs, p, rest)
      /\ conn' = [conn EXCEPT ![c] = Gone]
  BY DEF leave
<1>3. conn'[c] = Gone /\ \A d \in Conns \ {c} : conn'[d] = conn[d]
  BY <1>1, <1>2
(* The entry that goes, if any, is the one of c. *)
<1>4. StillOurs(c) <=> p \in DOMAIN pairs /\ m \in DOMAIN pairs[p] /\ pairs[p][m] = c
  BY MemberFacts, ConnAssumption DEF HubInv, StillOurs
<1>5. p \in DOMAIN pairs =>
        /\ DOMAIN rest = IF StillOurs(c) THEN DOMAIN pairs[p] \ {m} ELSE DOMAIN pairs[p]
        /\ \A n \in DOMAIN rest : rest[n] = pairs[p][n]
        /\ rest = [n \in DOMAIN rest |-> rest[n]]
  BY DEF Drop, HubInv, HubTypeOK
<1>. HIDE DEF rest
<1>6. /\ DOMAIN pairs' = IF p \in DOMAIN pairs /\ DOMAIN rest = {} THEN DOMAIN pairs \ {p}
                         ELSE DOMAIN pairs
      /\ \A q \in DOMAIN pairs' : pairs'[q] = IF q = p THEN rest ELSE pairs[q]
  <2>1. CASE p \notin DOMAIN pairs
    BY <1>2, <2>1
  <2>2. CASE p \in DOMAIN pairs /\ DOMAIN rest = {}
    BY <1>2, <2>2 DEF Drop
  <2>3. CASE p \in DOMAIN pairs /\ DOMAIN rest # {}
    BY <1>2, <2>3 DEF Put
  <2>. QED  BY <2>1, <2>2, <2>3
<1>7. \A q, n : q \in DOMAIN pairs' /\ n \in DOMAIN pairs'[q] <=>
                  /\ q \in DOMAIN pairs /\ n \in DOMAIN pairs[q]
                  /\ ~(q = p /\ n = m /\ StillOurs(c))
  BY <1>5, <1>6
<1>8. \A q \in DOMAIN pairs' : \A n \in DOMAIN pairs'[q] : pairs'[q][n] = pairs[q][n]
  BY <1>5, <1>6
<1>9. HubTypeOK'
  <2>1. conn' \in [Conns -> Live \cup {Gone}]
    BY <1>1, <1>2
  <2>2. p \in DOMAIN pairs =>
          DOMAIN rest \subseteq Members /\ rest \in [DOMAIN rest -> Conns]
    BY <1>5 DEF HubInv, HubTypeOK
  <2>3. \A q \in DOMAIN pairs' : /\ DOMAIN pairs'[q] \subseteq Members /\ DOMAIN pairs'[q] # {}
                                 /\ pairs'[q] \in [DOMAIN pairs'[q] -> Conns]
    BY <1>6, <2>2 DEF HubInv, HubTypeOK
  <2>. QED  BY <1>6, <2>1, <2>3 DEF HubInv, HubTypeOK
<1>10. ListedIsServed'
  <2>1. ASSUME NEW q \in DOMAIN pairs', NEW n \in DOMAIN pairs'[q]
        PROVE  /\ conn'[pairs'[q][n]] # Gone
               /\ conn'[pairs'[q][n]].pair = q /\ conn'[pairs'[q][n]].member = n
               /\ conn'[pairs'[q][n]].at \in {"serving", "writing", "leaving"}
    <3>1. /\ q \in DOMAIN pairs /\ n \in DOMAIN pairs[q] /\ pairs'[q][n] = pairs[q][n]
          /\ ~(q = p /\ n = m /\ StillOurs(c))
      BY <2>1, <1>7, <1>8
    <3>2. LET d == pairs[q][n] IN
          d \in Conns /\ conn[d] # Gone /\ conn[d].pair = q /\ conn[d].member = n
            /\ conn[d].at \in {"serving", "writing", "leaving"}
      BY <3>1 DEF HubInv, HubTypeOK, ListedIsServed, Here, Is
    <3>3. pairs[q][n] # c
      BY <3>1, <3>2, <1>4
    <3>. QED  BY <3>1, <3>2, <3>3, <1>3
  <2>. QED  BY <2>1 DEF ListedIsServed, Here, Is
<1>11. ServedIsReachable'
  <2>1. ASSUME NEW d \in Conns, conn'[d] # Gone, conn'[d].at \in {"serving", "writing"},
               conn'[d].open
        PROVE  MemberNext(conn'[d].pair, conn'[d].member) = d
    <3>1. d # c /\ conn'[d] = conn[d]
      BY <2>1, <1>3
    <3>2. Member(conn[d].pair, conn[d].member) = d
      BY <2>1, <3>1 DEF HubInv, ServedIsReachable, Here
    <3>3. /\ conn[d].pair \in DOMAIN pairs /\ conn[d].member \in DOMAIN pairs[conn[d].pair]
          /\ pairs[conn[d].pair][conn[d].member] = d
      BY <3>2, MemberFacts, ConnAssumption DEF HubInv
    <3>. QED  BY <3>1, <3>3, <1>4, <1>7, <1>8 DEF MemberNext
  <2>. QED  BY <2>1, ServedNext
<1>12. FramesCross'
  BY <1>3 DEF HubInv, FramesCross, Here
<1>. QED  BY <1>9, <1>10, <1>11, <1>12 DEF HubInv

-----------------------------------------------------------------------------
(* The hub *)

(* Every step of the hub keeps the invariant. *)
LEMMA HubStep == HubInv /\ [Next]_hubVars => HubInv'
<1>. SUFFICES ASSUME HubInv, [Next]_hubVars  PROVE HubInv'
  OBVIOUS
<1>1. CASE UNCHANGED hubVars
  BY <1>1, SMTT(30) DEF hubVars, HubInv, HubTypeOK, ServedIsReachable, ListedIsServed, FramesCross,
             Here, Is, Member, membersOf
<1>2. CASE Next
  <2>1. PICK c \in Conns :
          \/ \E p \in Pairs, m \in Members : Accept(c, p, m)
          \/ Handle(c)
          \/ Disconnect(c)
    BY <1>2 DEF Next
  <2>. QED  BY <2>1, AcceptInv, HandlerStepsInv, JoinInv, LeaveInv DEF Handle
<1>. QED  BY <1>1, <1>2

(* The four invariants hold in every state of the hub. *)
LEMMA HubStaysConsistent == Spec => []HubInv
<1>1. HubInv /\ [Next]_hubVars => HubInv'
  BY HubStep
<1>. QED  BY InitInv, <1>1, PTL DEF Spec

(* An open connection that Serve works on is always the one its member is   *)
(* reached by: no late leave of a replaced connection takes it out.         *)
THEOREM ServedStaysReachable == Spec => []ServedIsReachable
<1>1. HubInv => ServedIsReachable
  BY DEF HubInv
<1>. QED  BY <1>1, HubStaysConsistent, PTL

(* No entry of the hub outlives the handler that joined.                    *)
THEOREM ListedStaysServed == Spec => []ListedIsServed
<1>1. HubInv => ListedIsServed
  BY DEF HubInv
<1>. QED  BY <1>1, HubStaysConsistent, PTL

(* Frames are only ever written to the other member of the sender's pair,   *)
(* although peer is asked before the write.                                 *)
THEOREM FramesAlwaysCross == Spec => []FramesCross
<1>1. HubInv => FramesCross
  BY DEF HubInv
<1>. QED  BY <1>1, HubStaysConsistent, PTL

-----------------------------------------------------------------------------
(* Two agents on the hub *)

ProxiesTyped == proxy \in [Members -> [via : Hubs \cup {"none"}, conn : Conns \cup {NoConn}]]

(* A proxy holds one of the connections, or none. *)
LEMMA ProxiesStayTyped == RelaySpec => []ProxiesTyped
<1>1. RelayInit => ProxiesTyped
  BY DEF RelayInit, ProxiesTyped, NoProxy
<1>2. ProxiesTyped /\ [RelayNext]_vars => ProxiesTyped'
  <2>. SUFFICES ASSUME ProxiesTyped, [RelayNext]_vars  PROVE ProxiesTyped'
    OBVIOUS
  <2>1. ASSUME NEW x \in Members, checkHandshakes(x)  PROVE ProxiesTyped'
    BY <2>1 DEF ProxiesTyped, checkHandshakes, startQUICRelay, startWSRelay, Dial, Hubs, NoProxy
  <2>2. ASSUME NEW x \in Members, promoteDirect(x)  PROVE ProxiesTyped'
    BY <2>2 DEF ProxiesTyped, promoteDirect, NoProxy
  <2>. QED  BY <2>1, <2>2 DEF ProxiesTyped, RelayNext, vars
<1>. QED  BY <1>1, <1>2, PTL DEF RelaySpec

(* What the agents do to the hub are steps of the hub: dialing is Accept,   *)
(* closing a proxy is Disconnect, everything else it does not notice.  The  *)
(* hub's theorems therefore hold of the composed system.                    *)
THEOREM RelayedPairUsesHub == RelaySpec => Spec
<1>1. RelayInit => Init
  BY DEF RelayInit
<1>2. ProxiesTyped /\ [RelayNext]_vars => [Next]_hubVars
  <2>. SUFFICES ASSUME ProxiesTyped, [RelayNext]_vars  PROVE [Next]_hubVars
    OBVIOUS
  <2>1. ASSUME NEW x \in Members, checkHandshakes(x)  PROVE [Next]_hubVars
    <3>1. "quic" \in Pairs /\ "ws" \in Pairs
      BY PairAssumption DEF Hubs
    <3>2. \/ UNCHANGED hubVars
          \/ \E c \in Conns : Accept(c, "quic", x) \/ Accept(c, "ws", x)
      BY <2>1 DEF checkHandshakes, startQUICRelay, startWSRelay, Dial
    <3>. QED  BY <3>1, <3>2 DEF Next
  <2>2. ASSUME NEW x \in Members, promoteDirect(x)  PROVE [Next]_hubVars
    <3>1. CASE proxy[x].conn = NoConn
      BY <2>2, <3>1 DEF promoteDirect, Closed, hubVars
    <3>2. CASE proxy[x].conn \in Conns
      BY <2>2, <3>2 DEF promoteDirect, alive, Disconnect, Next
    <3>. QED  BY <3>1, <3>2 DEF ProxiesTyped
  <2>3. ASSUME NEW c \in Conns, Handle(c) \/ Disconnect(c)  PROVE Next
    BY <2>3 DEF Next
  <2>4. CASE UNCHANGED vars
    BY <2>4 DEF vars, hubVars
  <2>. QED  BY <2>1, <2>2, <2>3, <2>4 DEF RelayNext
<1>. QED  BY <1>1, <1>2, ProxiesStayTyped, PTL DEF RelaySpec, Spec
=============================================================================
