---------------------------- MODULE DnsSettings -----------------------------
(***************************************************************************)
(* The DNS settings in the database (internal/store/dns.go): normalised     *)
(* when they are written and again when they are read, and completed from   *)
(* the server's flags at every start.                                       *)
(***************************************************************************)
EXTENDS Integers, SequencesExt

CONSTANTS
  RawNames,   \* domains as operators type them
  RawServers, \* nameservers as operators type them
  MaxList     \* bound on the length of a list

VARIABLES
  stored,   \* the five rows of the settings table, or NoRows
  loaded    \* the server has started on them

dnsVars == <<stored, loaded>>

NoRows == [enabled |-> FALSE, magic |-> TRUE, domain |-> "vpn", ns |-> <<>>, search |-> <<>>,
           rows |-> FALSE]
Rejected == [NoRows EXCEPT !.domain = "error"]

(* Lower case, without spaces and the final dot. *)
normalizeDomain(s) == IF s \in {"CORP", "corp."} THEN "corp" ELSE s

validateDomain(d) == d # "-bad-"

ParseAddr(s) == IF s = " n1 " THEN "n1" ELSE s
IsAddr(s) == s # "no-address"

(* The elements of a list that are not blank, each once. *)
Distinct(list) ==
  FoldLeft(LAMBDA out, x : IF x = "" \/ Contains(out, x) THEN out ELSE Append(out, x), <<>>, list)

Mapped(F(_), list) == [i \in DOMAIN list |-> F(list[i])]

(* The overlay's domain is searched first, unless the operator placed it. *)
MagicSearch(c, domain, search) ==
  IF c.enabled /\ c.magic /\ ~Contains(search, domain) THEN <<domain>> \o search ELSE search

NormalizeDNSConfig(c) ==
  LET domain == IF normalizeDomain(c.domain) = "" THEN "vpn" ELSE normalizeDomain(c.domain)
      ns == Distinct(Mapped(ParseAddr, c.ns))
      search == Distinct(Mapped(normalizeDomain, c.search))
  IN  IF /\ validateDomain(domain)
         /\ \A s \in ToSet(search) : validateDomain(s)
         /\ \A s \in ToSet(ns) : IsAddr(s)
         /\ c.enabled => ns # <<>>
      THEN [c EXCEPT !.domain = domain, !.ns = ns, !.search = MagicSearch(c, domain, search)]
      ELSE Rejected

(* At a start, and for the answer to every report and enrollment            *)
(* (CurrentDNSConfig).                                                      *)
loadDNSConfig == NormalizeDNSConfig(stored)

saveDNSConfig(c) == stored' = [c EXCEPT !.rows = TRUE]

Lists(S) == UNION {[1..n -> S] : n \in 0..MaxList}
Typed == [enabled : BOOLEAN, magic : BOOLEAN, domain : RawNames, ns : Lists(RawServers),
          search : Lists(RawNames), rows : {FALSE}]

(* Mutant: the flags decide again at every start about MagicDNS. *)
WithFlagsMagic(c, flags) ==
  [c EXCEPT !.domain = IF @ = "" THEN flags.domain ELSE @,
            !.ns = IF @ = <<>> THEN flags.ns ELSE @,
            !.search = IF @ = <<>> THEN flags.search ELSE @,
            !.enabled = IF stored.rows THEN @ ELSE flags.enabled,
            !.magic = flags.magic]

(* Lists that are empty are taken from the flags even when an operator      *)
(* emptied them; the switches only when there are no rows yet.              *)
WithFlags(c, flags) ==
  [c EXCEPT !.domain = IF @ = "" THEN flags.domain ELSE @,
            !.ns = IF @ = <<>> THEN flags.ns ELSE @,
            !.search = IF @ = <<>> THEN flags.search ELSE @,
            !.enabled = IF stored.rows THEN @ ELSE flags.enabled,
            !.magic = IF stored.rows THEN @ ELSE flags.magic]

(* The server starts with some flags, in one transaction. *)
LoadOrInitDNSConfig(flags) ==
  LET c == IF loadDNSConfig = Rejected THEN Rejected
           ELSE NormalizeDNSConfig(WithFlags(loadDNSConfig, flags))
  IN
  /\ ~loaded
  /\ IF c = Rejected THEN UNCHANGED stored ELSE saveDNSConfig(c)
  /\ loaded' = (c # Rejected)

UpdateDNSConfig(c) ==
  /\ loaded
  /\ NormalizeDNSConfig(c) # Rejected
  /\ saveDNSConfig(NormalizeDNSConfig(c))
  /\ UNCHANGED loaded

DnsServerStops ==
  /\ loaded /\ loaded' = FALSE
  /\ UNCHANGED stored

DnsInit == stored = NoRows /\ loaded = FALSE

(* Flags name sound domains and addresses; --dns without a nameserver is    *)
(* refused at the first start.                                              *)
Flags == {f \in Typed : NormalizeDNSConfig([f EXCEPT !.enabled = FALSE]) # Rejected}

DnsNext ==
  \/ \E f \in Flags : LoadOrInitDNSConfig(f)
  \/ \E c \in Typed : UpdateDNSConfig(c)
  \/ DnsServerStops

-----------------------------------------------------------------------------
(* Properties *)

(* Settings an operator stored "must survive a process restart"             *)
(* (migrationV7): whatever the flags of the next start, it accepts them,    *)
(* normalises them to themselves (NormalizeDNSConfig) and takes nothing but *)
(* a list or domain left empty from the flags.                              *)
RestartKeepsSettings ==
  [][stored.rows /\ ~loaded =>
       /\ loaded'
       /\ stored'.enabled = stored.enabled /\ stored'.magic = stored.magic
       /\ stored'.domain = stored.domain
       /\ stored.ns # <<>> => stored'.ns = stored.ns
       /\ stored.search # <<>> => stored'.search = stored.search]_dnsVars

=============================================================================
