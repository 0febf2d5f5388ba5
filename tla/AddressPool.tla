----------------------------- MODULE AddressPool -----------------------------
(***************************************************************************)
(* What the store promises about overlay addresses, without keys, rules,   *)
(* networks or requests: an address has one holder at a time; a holder     *)
(* that is retired keeps its addresses until it leaves, and nobody edits   *)
(* them meanwhile; a live one gives its own up only when it is moved; only *)
(* a renumbering, which keeps everybody in order, moves several at once.   *)
(***************************************************************************)
EXTENDS Naturals

CONSTANTS
  Holders,      \* who may hold addresses, numbered
  Families,     \* one address per family; 0 is no address
  Renumberers   \* who may renumber the pool

VARIABLES
  held,         \* the addresses of every present holder, by family
  retired,      \* the present holders that only wait to leave
  renumbering   \* the renumberings that are not over

OneHolder(t) ==
  \A g, h \in DOMAIN t, f \in Families :
    g # h /\ t[g][f] # 0 => t[g][f] # t[h][f]

Others(h) == \A g \in DOMAIN held \ {h} : held'[g] = held[g]

Join(h) ==
  /\ h \notin DOMAIN held
  /\ DOMAIN held' = DOMAIN held \cup {h}
  /\ Others(h)
  /\ OneHolder(held')
  /\ UNCHANGED <<retired, renumbering>>

Retire(h) ==
  /\ h \in DOMAIN held \ retired
  /\ retired' = retired \cup {h}
  /\ UNCHANGED <<held, renumbering>>

Leave(h) ==
  /\ h \in retired
  /\ DOMAIN held' = DOMAIN held \ {h}
  /\ Others(h)
  /\ retired' = retired \ {h}
  /\ UNCHANGED renumbering

(* A live holder is given other addresses. *)
Move(h) ==
  /\ h \in DOMAIN held \ retired
  /\ DOMAIN held' = DOMAIN held
  /\ Others(h)
  /\ OneHolder(held')
  /\ UNCHANGED <<retired, renumbering>>

(* A holder, live or retired, is given the address of a family it lacked. *)
Complete(h) ==
  /\ h \in DOMAIN held
  /\ DOMAIN held' = DOMAIN held
  /\ Others(h)
  /\ \A f \in Families : held[h][f] # 0 => held'[h][f] = held[h][f]
  /\ OneHolder(held')
  /\ UNCHANGED <<retired, renumbering>>

(* Everybody, retired holders included, is given an address in each family, *)
(* in the order of the holders.                                             *)
Renumber(r) ==
  /\ r \notin renumbering
  /\ renumbering' = renumbering \cup {r}
  /\ DOMAIN held' = DOMAIN held
  /\ \A h \in DOMAIN held, f \in Families : held'[h][f] # 0
  /\ \A g, h \in DOMAIN held, f \in Families : g < h => held'[g][f] < held'[h][f]
  /\ UNCHANGED retired

(* One renumbering is over, or a restart forgot all of them. *)
Settle ==
  /\ renumbering' \in SUBSET renumbering
  /\ UNCHANGED <<held, retired>>

Init == held = [h \in {} |-> 0] /\ retired = {} /\ renumbering = {}

Next ==
  \/ \E h \in Holders : Join(h) \/ Retire(h) \/ Leave(h) \/ Move(h) \/ Complete(h)
  \/ \E r \in Renumberers : Renumber(r)
  \/ Settle

Spec == Init /\ [][Next]_<<held, retired, renumbering>>

(* How a step may free an address: its holder, retired before, leaves; or   *)
(* its holder, not retired, is moved; either alone.  Or all are renumbered. *)
ReleasedInOrder ==
  \A h \in DOMAIN held, f \in Families :
    held[h][f] # 0 /\ (h \in DOMAIN held' => held'[h][f] # held[h][f])
      => \/ Others(h) /\ (h \in retired <=> h \notin DOMAIN held')
         \/ \E r \in Renumberers : Renumber(r)

=============================================================================
