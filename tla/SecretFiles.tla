---------------------------- MODULE SecretFiles -----------------------------
(***************************************************************************)
(* The control plane's secrets and certificate, each read from a file or    *)
(* generated into it at the first start (psk.LoadOrGenerate,                *)
(* loadOrGenerateAdminToken, loadOrGenerateSessionKey,                      *)
(* tlsutil.LoadOrGenerateCert), when a start may end at any point and a     *)
(* write may fail.  Device keys sealed in the database, session cookies and *)
(* the certificate that agents pin depend on them from start to start.      *)
(***************************************************************************)
EXTENDS Integers

CONSTANT MaxDrawn  \* bound on secrets generated

VARIABLES
  disk,    \* per file: Absent, Cut (created and not written), or what it holds
  at,      \* where the start is: a file, "listen", "up" or "down"
  created, \* the file at which it is has been created and not yet written
  mem,     \* per file: what the process holds
  blamed,  \* the files that the last start refused to go on with
  drawn,   \* secrets generated so far; the last one's number
  used     \* history: what the control plane has been up with

secretVars == <<disk, at, created, mem, blamed, drawn, used>>

Files == {"psk", "admin", "session", "tlsKey", "tlsCert"}
Absent == -1
Cut == 0
Then == [psk |-> "admin", admin |-> "session", session |-> "tlsKey", tlsKey |-> "tlsCert",
         tlsCert |-> "listen"]
NoSecrets == [f \in Files |-> Absent]

Refuse(fs) ==
  /\ at' = "down" /\ created' = FALSE /\ mem' = NoSecrets /\ blamed' = fs
  /\ UNCHANGED <<disk, drawn, used>>

serverStarts ==
  /\ at = "down"
  /\ at' = "psk" /\ blamed' = {}
  /\ UNCHANGED <<disk, created, mem, drawn, used>>

(* A file that exists is read; one without a secret is an error. *)
load(f) ==
  /\ at = f /\ ~created /\ disk[f] # Absent
  /\ \/ disk[f] = Cut /\ Refuse({f})
     \/ /\ disk[f] # Cut
        /\ mem' = [mem EXCEPT ![f] = disk[f]] /\ at' = Then[f]
        /\ UNCHANGED <<disk, created, blamed, drawn, used>>

(* One that does not is created: the first half of os.WriteFile. *)
create(f) ==
  /\ at = f /\ ~created /\ disk[f] = Absent
  /\ drawn' = IF f = "tlsCert" THEN drawn ELSE drawn + 1
  /\ drawn' <= MaxDrawn
  /\ disk' = [disk EXCEPT ![f] = Cut] /\ created' = TRUE
  /\ UNCHANGED <<at, mem, blamed, used>>

(* The second half.  The certificate has the number of its key. *)
write(f) ==
  /\ at = f /\ created
  /\ disk' = [disk EXCEPT ![f] = drawn] /\ created' = FALSE
  /\ mem' = [mem EXCEPT ![f] = drawn] /\ at' = Then[f]
  /\ UNCHANGED <<blamed, drawn, used>>

(* Mutant: the start goes on with a secret that it could not save. *)
writeFailsUnnoticed(f) ==
  /\ at = f /\ drawn < MaxDrawn
  /\ disk[f] \in {Absent, Cut} /\ (disk[f] = Cut => created)
  /\ mem' = [mem EXCEPT ![f] = drawn + 1] /\ at' = Then[f]
  /\ drawn' = drawn + 1 /\ created' = FALSE
  /\ UNCHANGED <<disk, blamed, used>>

(* Creating or writing the file fails, and the start with it. *)
writeFails(f) ==
  /\ at = f
  /\ disk[f] = Absent \/ created
  /\ f = "tlsKey" => disk["tlsCert"] = Absent
  /\ Refuse({})

PairFiles == {f \in {"tlsKey", "tlsCert"} : disk[f] # Absent}
PairComplete ==
  /\ at = "tlsKey" /\ ~created /\ PairFiles = {"tlsKey", "tlsCert"}
  /\ at' = "listen"
  /\ UNCHANGED <<disk, created, mem, blamed, drawn, used>>

(* Certificate and key: taken as they are when both exist, generated when   *)
(* neither does, key first; one alone is an error.                          *)
LoadOrGenerateCert ==
  \/ PairComplete
  \/ at = "tlsKey" /\ ~created /\ PairFiles \in {{"tlsKey"}, {"tlsCert"}} /\ Refuse(PairFiles)
  \/ PairFiles = {} /\ create("tlsKey")
  \/ mem["tlsKey"] # Absent /\ create("tlsCert")

(* runHTTPListener loads the pair and refuses one that is no pair. *)
listen ==
  /\ at = "listen"
  /\ \/ /\ disk["tlsKey"] = disk["tlsCert"] /\ disk["tlsKey"] # Cut
        /\ mem' = [mem EXCEPT !["tlsKey"] = disk["tlsKey"], !["tlsCert"] = disk["tlsCert"]]
        /\ at' = "up" /\ used' = used \cup {mem'}
        /\ UNCHANGED <<disk, created, blamed, drawn>>
     \/ /\ disk["tlsKey"] # disk["tlsCert"] \/ disk["tlsKey"] = Cut
        /\ Refuse({"tlsKey", "tlsCert"})

(* The process ends: a crash, a kill, a shutdown.  The host goes on, so that *)
(* what was written is there, although nothing is synced to the disk.       *)
serverEnds ==
  /\ at # "down"
  /\ Refuse({})

(* The operator does what the error says: "delete it to regenerate". *)
operatorRemoves ==
  /\ at = "down" /\ blamed # {}
  /\ disk' = [f \in Files |-> IF f \in blamed THEN Absent ELSE disk[f]]
  /\ blamed' = {}
  /\ UNCHANGED <<at, created, mem, drawn, used>>

SecretInit ==
  /\ disk = NoSecrets
  /\ at = "down"
  /\ created = FALSE
  /\ mem = NoSecrets
  /\ blamed = {}
  /\ drawn = 0
  /\ used = {}

SecretNext ==
  \/ serverStarts \/ LoadOrGenerateCert \/ listen \/ serverEnds \/ operatorRemoves
  \/ \E f \in {"psk", "admin", "session"} : load(f) \/ create(f)
  \/ \E f \in Files : write(f) \/ writeFails(f)

SecretSpec == SecretInit /\ [][SecretNext]_secretVars

-----------------------------------------------------------------------------
(* Properties *)

(* Whatever starts ended half-way and whatever the operator was told to     *)
(* delete, the control plane is up with the secrets and the certificate it  *)
(* was up with before: a device key sealed under one start opens under      *)
(* every later one, and agents' pinned certificate stays the server's.      *)
SecretsStable == \A u, v \in used : u = v

(* A complete certificate is next to its own key, so that listening does    *)
(* not fail over a pair put together from two starts (LoadOrGenerateCert).  *)
PairMatches == disk["tlsKey"] > Cut /\ disk["tlsCert"] > Cut => disk["tlsKey"] = disk["tlsCert"]

=============================================================================
