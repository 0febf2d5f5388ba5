------------------------------- MODULE Schema -------------------------------
(***************************************************************************)
(* Opening the database (internal/store/store.go): the base schema and the  *)
(* numbered migrations on top of it.  Every statement commits by itself,    *)
(* and so does the new user_version; the process can be killed between any  *)
(* two.                                                                     *)
(***************************************************************************)
EXTENDS Integers, Sequences

VARIABLES
  objects,      \* tables, columns and indexes the database has
  user_version,
  opening,      \* the process: what it executes next
  halfway       \* history: killed with part of a migration done

schemaVars == <<objects, user_version, opening, halfway>>

(* A statement adds one object and needs others; adding what is there is an *)
(* error, except for an UPDATE.                                             *)
Table(t) == [adds |-> <<t, "table">>, needs |-> {}, again |-> FALSE]
Column(t, c) == [adds |-> <<t, c>>, needs |-> {<<t, "table">>}, again |-> FALSE]
Index(name, on) == [adds |-> <<"index", name>>, needs |-> {on}, again |-> FALSE]
Update(what, uses) == [adds |-> <<"rows", what>>, needs |-> uses, again |-> TRUE]

schemaSQL ==
  <<Table("setup_keys"), Table("peers"), Index("setup_key_id", <<"peers", "table">>),
    Index("last_seen_at", <<"peers", "table">>), Index("expires_at", <<"setup_keys", "table">>)>>

migrationV2 ==
  <<Column("peers", "auth_token_hash"), Index("auth_token_hash", <<"peers", "auth_token_hash">>),
    Table("link_stats"), Table("flows"), Index("reported_at", <<"flows", "table">>),
    Index("flows_peer_id", <<"flows", "table">>)>>

migrationV3 == <<Column("peers", "observed_ip"), Column("peers", "public_endpoint")>>

migrationV4 == <<Table("acl_rules")>>

migrationV5 ==
  <<Column("peers", "auth_token_issued_at"), Table("audit_log"),
    Index("audit_log_at", <<"audit_log", "table">>), Index("audit_log_event", <<"audit_log", "table">>),
    Index("audit_log_peer", <<"audit_log", "table">>)>>

migrationV6 ==
  <<Column("peers", "assigned_ip6"), Index("assigned_ip6", <<"peers", "assigned_ip6">>)>>

migrationV7 == <<Table("settings")>>

migrationV8 == <<Table("peer_paths")>>

migrationV9 ==
  <<Column("setup_keys", "name"), Column("acl_rules", "name"), Column("acl_rules", "protocol"),
    Column("acl_rules", "port_min"), Column("acl_rules", "port_max")>>

migrationV10 ==
  <<Table("connection_events"), Index("connection_events_at", <<"connection_events", "table">>)>>

migrationV11 == <<Table("proxy_events"), Index("proxy_events_at", <<"proxy_events", "table">>)>>

migrationV12 ==
  <<Column("peers", "peer_type"),
    Update("static peers", {<<"peers", "peer_type">>, <<"setup_keys", "name">>})>>

migrationV13 == <<Column("peers", "gateway_peer_id")>>

migrationV14 == <<Table("users")>>

migrationV15 == <<Column("peers", "private_key_enc"), Column("peers", "gateway_endpoint")>>

migrationV16 == <<Column("peers", "candidates"), Column("peers", "nat_type")>>

migrationV17 == <<Column("peers", "advertise_exit_node"), Column("peers", "exit_node_peer_id")>>

migrationV18 == <<Column("peers", "agent_version")>>

(* Version 1 is the base schema. *)
migrations ==
  <<schemaSQL, migrationV2, migrationV3, migrationV4, migrationV5, migrationV6, migrationV7,
    migrationV8, migrationV9, migrationV10, migrationV11, migrationV12, migrationV13,
    migrationV14, migrationV15, migrationV16, migrationV17, migrationV18>>

schemaVersion == 18

(* What a database of version v has. *)
ObjectsOf(v) == {migrations[w][i].adds : <<w, i>> \in {p \in (1..v) \X (1..6) : p[2] <= Len(migrations[p[1]])}}

-----------------------------------------------------------------------------
At(where, v, i) == [at |-> where, v |-> v, i |-> i]
NotOpen == At("closed", 0, 0)

(* ensureSchema reads the version.  A database without one that has a peers *)
(* table is taken for the base schema.                                      *)
Open ==
  /\ opening.at \in {"closed", "failed"}
  /\ opening' =
       IF user_version = schemaVersion THEN At("open", 0, 0)
       ELSE IF user_version = 0 /\ <<"peers", "table">> \in objects
         THEN At("migrate", 1, Len(schemaSQL) + 1)
       ELSE At("migrate", user_version + 1, 1)
  /\ UNCHANGED <<objects, user_version, halfway>>

(* The next statement of the migration, or its error. *)
ExecStatement ==
  LET v == opening.v
      s == migrations[v][opening.i]
  IN
  /\ opening.at = "migrate" /\ opening.i <= Len(migrations[v])
  /\ IF s.needs \subseteq objects /\ (s.again \/ s.adds \notin objects)
       THEN objects' = objects \cup {s.adds} /\ opening' = At("migrate", v, opening.i + 1)
       ELSE opening' = At("failed", 0, 0) /\ UNCHANGED objects
  /\ UNCHANGED <<user_version, halfway>>

(* Mutant: the version is stored ahead of the statements. *)
SetUserVersionFirst ==
  LET v == opening.v IN
  /\ opening.at = "migrate"
  /\ user_version # v \/ opening.i > Len(migrations[v])
  /\ user_version' = v
  /\ opening' = IF opening.i <= Len(migrations[v]) THEN opening
                ELSE IF v = schemaVersion THEN At("open", 0, 0) ELSE At("migrate", v + 1, 1)
  /\ UNCHANGED <<objects, halfway>>

(* PRAGMA user_version = v, once its statements are done. *)
SetUserVersion ==
  LET v == opening.v IN
  /\ opening.at = "migrate" /\ opening.i > Len(migrations[v])
  /\ user_version' = v
  /\ opening' = IF v = schemaVersion THEN At("open", 0, 0) ELSE At("migrate", v + 1, 1)
  /\ UNCHANGED <<objects, halfway>>

(* The process ends, in order or not. *)
Killed ==
  /\ opening.at \in {"migrate", "open"}
  /\ opening' = NotOpen
  /\ halfway' = (halfway \/ (opening.at = "migrate" /\ opening.i > 1))
  /\ UNCHANGED <<objects, user_version>>

(* A database of any release: empty, from before versioning, or versioned. *)
SchemaInit ==
  /\ \E v \in 0..schemaVersion :
       /\ objects = ObjectsOf(v)
       /\ user_version \in IF v = 1 THEN {0, 1} ELSE {v}
  /\ opening = NotOpen
  /\ halfway = FALSE

SchemaNext == Open \/ ExecStatement \/ SetUserVersion \/ Killed

-----------------------------------------------------------------------------
(* Properties *)

(* What the store's statements rely on; lookups work without the others.    *)
Relied == ObjectsOf(schemaVersion) \ {<<"index", n>> : n \in {"setup_key_id", "last_seen_at", "expires_at"}}

(* A server never serves on a half-migrated database, wherever earlier ones *)
(* were killed: every table and column is there, and the unique index that  *)
(* keeps IPv6 addresses apart ("a partial unique index enforces one v6      *)
(* address per peer", migrationV6).  And every release's database opens,    *)
(* from before versioning on ("later versions are applied as migrations on  *)
(* top"), unless a process was killed with part of a migration done.        *)
UpgradeSafe ==
  /\ opening.at = "open" => Relied \subseteq objects
  /\ opening.at = "failed" => halfway

=============================================================================
