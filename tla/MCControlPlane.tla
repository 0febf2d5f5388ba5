--------------------------- MODULE MCControlPlane ---------------------------
(* Small instances of the parts of the control plane, and of what reaches   *)
(* it from agents.  Each behaviour exercises one part: they share no state. *)
EXTENDS Punch, SignalHub, Telemetry, Accounts, Schema, DnsSettings, Candidates,
        RateLimiter, QuicFragments, SecretFiles, TLC

CONSTANTS a, b
Pair == {a, b}
Sides == Permutations(Pair)

(* A host with more addresses than are reported, one with addresses of      *)
(* every kind that is not, and one with none.                               *)
Crowded == {12, 21, 22, 23, 24, 61, 62, 63}
Excluded == {11, 31, 41, 71}
SomeHosts ==
  {h \in [ifaces : {{}, Excluded, Crowded}, wan : {0, 51, 52}, observed : {11, 51, 61}, v6 : {64},
          mapped : BOOLEAN, pinned : {0, 51}, managed : {TRUE}] :
     /\ h.mapped => h.wan # 0
     /\ h.observed = 51 => h.wan = 51
     /\ h.observed = 61 => h.ifaces = Crowded /\ h.wan = 52
     /\ h.managed \/ h.ifaces = Crowded}

VARIABLE part

allVars == <<part, vars, hubVars, reportVars, accountVars, schemaVars, dnsVars, candidateVars,
             limitVars, quicVars, secretVars>>

AllInit ==
  /\ part \in {"punch", "hub", "traffic", "way", "proxy", "accounts", "schema", "dns", "candidates", "limit", "quic", "secrets"}
  /\ Init /\ HubInit /\ ReportingInit /\ AccountsInit /\ SchemaInit /\ DnsInit
  /\ LimitInit /\ QuicInit /\ SecretInit
  /\ CandidatesInit
  /\ part # "schema" => objects = ObjectsOf(0)
  /\ part # "candidates" => host[1] = host[2] /\ host[1] = CHOOSE h \in SomeHosts : TRUE

AllNext ==
  \/ /\ part = "punch" /\ restarts = 0 /\ Next
     /\ UNCHANGED <<part, hubVars, reportVars, accountVars, schemaVars, dnsVars, candidateVars, limitVars, quicVars, secretVars>>
  \/ /\ part = "hub" /\ HubNext
     /\ UNCHANGED <<part, vars, reportVars, accountVars, schemaVars, dnsVars, candidateVars, limitVars, quicVars, secretVars>>
  \/ /\ part \in {"traffic", "way", "proxy"} /\ ReportingNext
     /\ part # "traffic" => past'.bytes = [m \in Meters |-> 0]
     /\ part # "way" => past'.moves = 0
     /\ part # "proxy" => past'.requests = 0
     /\ UNCHANGED <<part, vars, hubVars, accountVars, schemaVars, dnsVars, candidateVars, limitVars, quicVars, secretVars>>
  \/ /\ part = "accounts" /\ AccountsNext
     /\ UNCHANGED <<part, vars, hubVars, reportVars, schemaVars, dnsVars, candidateVars, limitVars, quicVars, secretVars>>
  \/ /\ part = "schema" /\ SchemaNext
     /\ UNCHANGED <<part, vars, hubVars, reportVars, accountVars, dnsVars, candidateVars, limitVars, quicVars, secretVars>>
  \/ /\ part = "dns" /\ DnsNext
     /\ UNCHANGED <<part, vars, hubVars, reportVars, accountVars, schemaVars, candidateVars, limitVars, quicVars, secretVars>>
  \/ /\ part = "candidates" /\ CandidatesNext
     /\ UNCHANGED <<part, vars, hubVars, reportVars, accountVars, schemaVars, dnsVars, limitVars, quicVars, secretVars>>
  \/ /\ part = "limit" /\ LimitNext
     /\ UNCHANGED <<part, vars, hubVars, reportVars, accountVars, schemaVars, dnsVars, candidateVars, quicVars, secretVars>>
  \/ /\ part = "quic" /\ QuicNext
     /\ UNCHANGED <<part, vars, hubVars, reportVars, accountVars, schemaVars, dnsVars, candidateVars, limitVars, secretVars>>
  \/ /\ part = "secrets" /\ SecretNext
     /\ UNCHANGED <<part, vars, hubVars, reportVars, accountVars, schemaVars, dnsVars, candidateVars, limitVars, quicVars>>

AllSpec == AllInit /\ [][AllNext]_allVars
=============================================================================
