------------------------------- MODULE WSHub -------------------------------
(***************************************************************************)
(* The hub that cross-forwards frames between the two members of a relay   *)
(* pair (internal/relay/wshub.go), with the handlers that serve its        *)
(* connections (cmd/server: handleRelayWS, serveQUICRelay).                *)
(*                                                                         *)
(* The hub's mutex makes join, leave and peer one step each; everything    *)
(* between them interleaves with the other handlers.  A frame has no       *)
(* content, only the connection it is about to be written to.              *)
(***************************************************************************)
EXTENDS Naturals, FiniteSets

CONSTANTS
  Pairs,    \* pair ids
  Members,  \* public keys
  Conns,    \* connections; the id of one that is gone is used again
  NoConn,
  OneWriter \* the pairs whose connections allow one writer only (WebSocket)

ASSUME ConnAssumption == NoConn \notin Conns /\ OneWriter \subseteq Pairs

VARIABLES
  pairs,  \* WSHub.pairs: pair id -> (public key -> connection), both partial
  conn    \* conn[c]: the connection, where its handler is, where its frame goes

hubVars == <<pairs, conn>>

Gone == [at |-> "gone"]

(* Table f with entry x set to v, and with entry x deleted. *)
Put(f, x, v) == [y \in DOMAIN f \cup {x} |-> IF y = x THEN v ELSE f[y]]
Drop(f, x) == [y \in DOMAIN f \ {x} |-> f[y]]

membersOf(p) == IF p \in DOMAIN pairs THEN pairs[p] ELSE [m \in {} |-> NoConn]
Member(p, m) == IF m \in DOMAIN membersOf(p) THEN membersOf(p)[m] ELSE NoConn

Here(c) == conn[c] # Gone
Is(c, p, m) == conn[c].pair = p /\ conn[c].member = m

(* Closing is seen by whoever reads or writes next. *)
Closed(f, c) == IF c = NoConn THEN f ELSE [f EXCEPT ![c].open = FALSE]

-----------------------------------------------------------------------------
(* The handler of one connection *)

(* Authenticated and upgraded, not yet in the hub.  Nothing refers to an id *)
(* that is used again.                                                      *)
Accept(c, p, m) ==
  /\ ~Here(c)
  /\ \A d \in Conns : Here(d) => conn[d].to # c
  /\ conn' = [conn EXCEPT ![c] = [at |-> "dialed", pair |-> p, member |-> m,
                                  open |-> TRUE, to |-> NoConn]]
  /\ UNCHANGED pairs

(* Mutant: a reconnect does not close the connection it replaces. *)
joinKeepingOld(c) ==
  LET p == conn[c].pair
      m == conn[c].member
  IN
  /\ Here(c) /\ conn[c].at = "dialed"
  /\ pairs' = Put(pairs, p, Put(membersOf(p), m, c))
  /\ conn' = [conn EXCEPT ![c].at = "serving"]

(* A third member is turned away; a member that is already there is         *)
(* replaced and its old connection closed.                                  *)
join(c) ==
  LET p == conn[c].pair
      m == conn[c].member
      old == Member(p, m)
      full == m \notin DOMAIN membersOf(p) /\ Cardinality(DOMAIN membersOf(p)) >= 2
  IN
  /\ Here(c) /\ conn[c].at = "dialed"
  /\ pairs' = IF full THEN pairs ELSE Put(pairs, p, Put(membersOf(p), m, c))
  /\ conn' = IF full THEN [conn EXCEPT ![c] = Gone]
             ELSE [Closed(conn, old) EXCEPT ![c].at = "serving"]

peer(p, m) == {membersOf(p)[n] : n \in DOMAIN membersOf(p) \ {m}}

(* A frame was read; its destination is the other member of this moment. *)
ReadFrame(c) ==
  /\ Here(c) /\ conn[c].at = "serving" /\ conn[c].open
  /\ \E d \in peer(conn[c].pair, conn[c].member) :
       conn' = [conn EXCEPT ![c].at = "writing", ![c].to = d]
  /\ UNCHANGED pairs

(* It is written, or the far side is gone: the handler serves on. *)
WriteFrame(c) ==
  /\ Here(c) /\ conn[c].at = "writing"
  /\ conn' = [conn EXCEPT ![c].at = "serving", ![c].to = NoConn]
  /\ UNCHANGED pairs

(* A replaced handler may still be writing when its successor does: the     *)
(* library panics, the deferred leave runs, and the connection is closed    *)
(* with its last reference.                                                 *)
WritePanics(c) ==
  /\ Here(c) /\ conn[c].at = "writing" /\ conn[c].pair \in OneWriter
  /\ \E d \in Conns \ {c} : Here(d) /\ conn[d].at = "writing" /\ conn[d].to = conn[c].to
  /\ conn' = [conn EXCEPT ![c].at = "leaving", ![c].to = NoConn]
  /\ UNCHANGED pairs

ReadFails(c) ==
  /\ Here(c) /\ conn[c].at = "serving" /\ ~conn[c].open
  /\ conn' = [conn EXCEPT ![c].at = "leaving"]
  /\ UNCHANGED pairs

(* Mutant: whoever leaves takes the member's entry along. *)
StillOursAlways(c) == Member(conn[c].pair, conn[c].member) # NoConn

(* A reconnect may have replaced the connection already. *)
StillOurs(c) == Member(conn[c].pair, conn[c].member) = c

leave(c) ==
  LET p == conn[c].pair
      rest == IF StillOurs(c) THEN Drop(pairs[p], conn[c].member) ELSE pairs[p]
  IN
  /\ Here(c) /\ conn[c].at = "leaving"
  /\ pairs' = IF p \notin DOMAIN pairs THEN pairs
              ELSE IF DOMAIN rest = {} THEN Drop(pairs, p)
              ELSE Put(pairs, p, rest)
  /\ conn' = [conn EXCEPT ![c] = Gone]

(* The network, or the agent, ends a connection. *)
Disconnect(c) ==
  /\ Here(c) /\ conn[c].open
  /\ conn' = Closed(conn, c)
  /\ UNCHANGED pairs

Init ==
  /\ pairs = [p \in {} |-> NoConn]
  /\ conn = [c \in Conns |-> Gone]

Handle(c) ==
  \/ join(c)
  \/ ReadFrame(c)
  \/ WriteFrame(c)
  \/ WritePanics(c)
  \/ ReadFails(c)
  \/ leave(c)

Next ==
  \E c \in Conns :
    \/ \E p \in Pairs, m \in Members : Accept(c, p, m)
    \/ Handle(c)
    \/ Disconnect(c)

Spec == Init /\ [][Next]_hubVars

-----------------------------------------------------------------------------
(* Properties *)

Live == [at : {"dialed", "serving", "writing", "leaving"}, pair : Pairs, member : Members,
         open : BOOLEAN, to : Conns \cup {NoConn}]

(* The values are of their types and a pair is listed exactly while it has  *)
(* members: leave deletes the entry with its last member.                   *)
HubTypeOK ==
  /\ conn \in [Conns -> Live \cup {Gone}]
  /\ DOMAIN pairs \subseteq Pairs
  /\ \A p \in DOMAIN pairs :
       /\ DOMAIN pairs[p] \subseteq Members /\ DOMAIN pairs[p] # {}
       /\ pairs[p] \in [DOMAIN pairs[p] -> Conns]

(* An open connection that is being served is the one its member is reached *)
(* by, however its predecessors' evictions and late leaves are ordered      *)
(* ("only remove if it is still our connection", leave).                    *)
ServedIsReachable ==
  \A c \in Conns :
    Here(c) /\ conn[c].at \in {"serving", "writing"} /\ conn[c].open =>
      Member(conn[c].pair, conn[c].member) = c

(* Who is listed is being served, under the pair and member it joined as:   *)
(* no entry outlives its handler.                                           *)
ListedIsServed ==
  \A p \in DOMAIN pairs : \A m \in DOMAIN pairs[p] :
    LET c == pairs[p][m] IN
    Here(c) /\ Is(c, p, m) /\ conn[c].at \in {"serving", "writing", "leaving"}

(* A frame about to be written goes to a connection of the other member of  *)
(* the sender's own pair, even when that connection has been replaced since *)
(* peer was asked.                                                          *)
FramesCross ==
  \A c \in Conns : Here(c) /\ conn[c].at = "writing" =>
    LET d == conn[c].to IN
    d \in Conns /\ (Here(d) => conn[d].pair = conn[c].pair /\ conn[d].member # conn[c].member)

=============================================================================
