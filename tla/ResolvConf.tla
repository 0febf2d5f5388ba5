----------------------------- MODULE ResolvConf -----------------------------
(***************************************************************************)
(* The agent's takeover of /etc/resolv.conf (cmd/agent/dns_linux.go).  An   *)
(* operation is the sequence of file operations it will carry out, decided  *)
(* by what it reads when it begins; the process can stop between any two.   *)
(***************************************************************************)
EXTENDS Integers, Sequences, Subsequence

CONSTANTS
  HostLists,      \* nameserver lists DHCP or an operator writes
  Pushes,         \* nameserver lists the control plane pushes
  resolvConfMaxNS \* the resolver's limit, dns_linux.go:198

VARIABLES
  conf,       \* /etc/resolv.conf
  backup,     \* the original kept beside it
  resolvedUp  \* resolvectl is there and answers

confVars == <<conf, backup, resolvedUp>>

(* A file: who wrote it and its nameservers.  A file that is absent and one *)
(* that was just truncated read alike; a backup can also be missing.        *)
File(who, list) == [by |-> who, ns |-> list]
Blank == File("nobody", <<>>)
Missing == File("missing", <<>>)
HostFiles == {File("host", l) : l \in HostLists}

DNSConfigs == [enabled : {TRUE}, ns : Pushes] \cup {[enabled |-> FALSE, ns |-> <<>>]}
NoDNS == [enabled |-> FALSE, ns |-> <<>>]

ConfCmd(d, x) == [on |-> "conf", do |-> d, arg |-> x]

(* The original's nameservers that are not pushed, each once, up to the     *)
(* limit.  The limit is looked at after a server is added, so that one is   *)
(* added even to a full list.                                               *)
fallbackNameservers(original, pushed) ==
  LET ns == original.ns
      fresh == Selected(ns, {i \in DOMAIN ns : ns[i] \notin Range(pushed)
                                               /\ \A j \in 1..(i - 1) : ns[j] # ns[i]})
      room == IF Len(pushed) >= resolvConfMaxNS THEN 1 ELSE resolvConfMaxNS - Len(pushed)
  IN  SubSeq(fresh, 1, IF Len(fresh) < room THEN Len(fresh) ELSE room)

(* Remove, open with O_TRUNC, write. *)
writeResolvConf(content) ==
  <<ConfCmd("removeConf", Blank), ConfCmd("openConf", Blank), ConfCmd("writeConf", content)>>

restoreResolvConf(mode) ==
  IF mode \in {"resolved", "off"} THEN <<>>
  ELSE IF conf.by # "agent" THEN <<ConfCmd("dropBackup", Blank)>>
  ELSE IF backup = Missing THEN <<ConfCmd("refuse", Blank)>>
  ELSE writeResolvConf(backup) \o <<ConfCmd("removeBackup", Blank)>>

(* Mutant: an original that was kept once is not kept again. *)
backUpOnce ==
  IF conf.by = "agent" \/ backup # Missing THEN <<>>
  ELSE <<ConfCmd("truncBackup", Blank), ConfCmd("writeBackup", conf)>>

(* "Snapshot whatever is live right now unless it is already ours." *)
backUp ==
  IF conf.by = "agent" THEN <<>>
  ELSE <<ConfCmd("truncBackup", Blank), ConfCmd("writeBackup", conf)>>

original == IF conf.by = "agent" /\ backup # Missing THEN backup ELSE conf

applyResolvConfDNS(cfg) ==
  IF cfg.ns = <<>> THEN <<>>
  ELSE backUp \o
       writeResolvConf(File("agent", cfg.ns \o fallbackNameservers(original, cfg.ns)))

(* What systemd-resolved is told of the interface goes with the interface.  *)
applyResolvedDNS(cfg) ==
  IF ~resolvedUp THEN <<ConfCmd("unsupported", Blank)>>
  ELSE IF ~cfg.enabled THEN <<ConfCmd("revert", Blank)>>
  ELSE IF cfg.ns = <<>> THEN <<>>
  ELSE <<ConfCmd("resolvectl", cfg.ns)>>

applyDNSConfig(mode, cfg) ==
  IF mode = "off" THEN <<ConfCmd("unsupported", Blank)>>
  ELSE IF mode = "resolved" \/ (mode = "auto" /\ resolvedUp) THEN applyResolvedDNS(cfg)
  ELSE IF cfg.enabled THEN applyResolvConfDNS(cfg)
  ELSE restoreResolvConf(mode)

(* Operations that end with their error; the others go on. *)
ConfMust ==
  {"refuse", "unsupported", "truncBackup", "writeBackup", "openConf", "writeConf",
   "removeBackup", "resolvectl", "revert"}

(* Errors that are no one's fault: these never succeed. *)
ConfRefusals == {"refuse", "unsupported"}

ConfDo(c) ==
  /\ conf' = CASE c.do \in {"removeConf", "openConf"} -> Blank
               [] c.do = "writeConf" -> c.arg
               [] OTHER -> conf
  /\ backup' = CASE c.do = "truncBackup" -> Blank
                 [] c.do = "writeBackup" -> c.arg
                 [] c.do \in {"removeBackup", "dropBackup"} -> Missing
                 [] OTHER -> backup
  /\ UNCHANGED resolvedUp

ConfInit ==
  /\ conf \in HostFiles
  /\ backup = Missing
  /\ resolvedUp \in BOOLEAN

=============================================================================
