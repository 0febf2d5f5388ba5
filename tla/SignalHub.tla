----------------------------- MODULE SignalHub ------------------------------
(***************************************************************************)
(* The signal sessions of one agent (cmd/server/signal.go,                  *)
(* cmd/agent/signal.go): the agent keeps one WebSocket, over which admin    *)
(* handlers tell it to sync now.  The server may still hold its end of      *)
(* earlier connections, each with a handler of its own.                     *)
(***************************************************************************)
EXTENDS Integers, FiniteSets

CONSTANTS
  Broadcasters,  \* handlers that may broadcast at the same time
  MaxSessions    \* bound on sessions

ASSUME SessionsAssumption == MaxSessions \in Nat

VARIABLES
  client,    \* hub.clients for this agent: a session, 0 when none
  session,   \* per session: where its handler is, whether the socket is open
  conn,      \* the session the agent reads from, 0 when none
  told,      \* a sync-now the agent has yet to read
  writing    \* per broadcaster: idle, or the clients it has left to write to

hubVars == <<client, session, conn, told, writing>>

Sessions == 1..MaxSessions
Undialled == [at |-> "unused", open |-> FALSE, old |-> 0]
NoBroadcast == [at |-> "idle", left |-> {}]

HubInit ==
  /\ client = 0
  /\ session = [s \in Sessions |-> Undialled]
  /\ conn = 0
  /\ told = FALSE
  /\ writing = [w \in Broadcasters |-> NoBroadcast]

(* The server accepts a dial (handleSignalWS up to Upgrade); the agent has  *)
(* the connection, unless it gave the dial up.                              *)
dialSignal(s, kept) ==
  /\ conn = 0
  /\ session[s].at = "unused" /\ \A t \in 1..(s - 1) : session[t].at # "unused"
  /\ session' = [session EXCEPT ![s] = [Undialled EXCEPT !.at = "upgraded", !.open = TRUE]]
  /\ conn' = IF kept THEN s ELSE 0
  /\ UNCHANGED <<client, told, writing>>

(* The map under the lock; the session found there is closed afterwards. *)
register(s) ==
  /\ session[s].at = "upgraded"
  /\ client' = s
  /\ session' = [session EXCEPT ![s].at = "closeOld", ![s].old = client]
  /\ UNCHANGED <<conn, told, writing>>

closeOld(s) ==
  /\ session[s].at = "closeOld"
  /\ session' = [t \in Sessions |->
       IF t = s THEN [session[s] EXCEPT !.at = "reading", !.old = 0]
       ELSE [session[t] EXCEPT !.open = @ /\ t # session[s].old]]
  /\ UNCHANGED <<client, conn, told, writing>>

(* Mutant: whoever ends deletes the entry. *)
unregisterAny(s) ==
  /\ session[s].at = "reading" /\ ~session[s].open
  /\ client' = 0
  /\ session' = [session EXCEPT ![s].at = "done"]
  /\ UNCHANGED <<conn, told, writing>>

(* The handler's read fails; it deletes the entry only if it is its own. *)
unregister(s) ==
  /\ session[s].at = "reading" /\ ~session[s].open
  /\ client' = IF client = s THEN 0 ELSE client
  /\ session' = [session EXCEPT ![s].at = "done"]
  /\ UNCHANGED <<conn, told, writing>>

connectionBreaks(s) ==
  /\ session[s].open
  /\ session' = [session EXCEPT ![s].open = FALSE]
  /\ UNCHANGED <<client, conn, told, writing>>

(* The agent's side ends: its read failed, or the machine changed networks  *)
(* or restarted and the server's end does not know.  Unread messages are    *)
(* gone; it dials again after a back-off.                                   *)
readSignalEnds ==
  /\ conn # 0
  /\ conn' = 0 /\ told' = FALSE
  /\ UNCHANGED <<client, session, writing>>

(* sync-now is read and answered by a report (syncOnce). *)
readSyncNow ==
  /\ conn # 0 /\ told
  /\ told' = FALSE
  /\ UNCHANGED <<client, session, conn, writing>>

(* A handler has committed a change and broadcasts: the clients of this     *)
(* moment, written to outside the lock.                                     *)
broadcast(w) ==
  /\ writing[w].at = "idle"
  /\ writing' = [writing EXCEPT ![w] = [at |-> "writing", left |-> {client} \ {0}]]
  /\ UNCHANGED <<client, session, conn, told>>

(* One write.  It fails on a closed socket and is not tried again. *)
writeSyncNow(w, s) ==
  /\ s \in writing[w].left
  /\ writing' = [writing EXCEPT ![w].left = @ \ {s}]
  /\ told' = (told \/ (session[s].open /\ conn = s))
  /\ UNCHANGED <<client, session, conn>>

broadcastDone(w) ==
  /\ writing[w].at = "writing" /\ writing[w].left = {}
  /\ writing' = [writing EXCEPT ![w] = NoBroadcast]
  /\ UNCHANGED <<client, session, conn, told>>

serverStops ==
  /\ client' = 0
  /\ session' = [s \in Sessions |->
       IF session[s].at = "unused" THEN Undialled ELSE [Undialled EXCEPT !.at = "done"]]
  /\ writing' = [w \in Broadcasters |-> NoBroadcast]
  /\ UNCHANGED <<conn, told>>

HubNext ==
  \/ \E s \in Sessions : \/ \E kept \in BOOLEAN : dialSignal(s, kept)
                         \/ register(s) \/ closeOld(s) \/ unregister(s) \/ connectionBreaks(s)
  \/ readSignalEnds \/ readSyncNow \/ serverStops
  \/ \E w \in Broadcasters : \/ broadcast(w) \/ broadcastDone(w)
                             \/ \E s \in Sessions : writeSyncNow(w, s)

HubSpec == HubInit /\ [][HubNext]_hubVars

-----------------------------------------------------------------------------
(* Properties *)

(* However reconnects, given-up dials and ending handlers interleave, the   *)
(* hub's entry is an unfinished handler's session, and a registered session *)
(* whose socket is open is that entry or is about to be closed by the       *)
(* session that displaced it: an agent never sits on a connection that      *)
(* looks healthy and gets no sync-now (register, unregister).               *)
NoDeafSession ==
  /\ client # 0 => session[client].at \in {"closeOld", "reading"}
  /\ \A s \in Sessions :
       session[s].at \in {"closeOld", "reading"} /\ session[s].open =>
         client = s \/ \E t \in Sessions : session[t].at = "closeOld" /\ session[t].old = s

=============================================================================
