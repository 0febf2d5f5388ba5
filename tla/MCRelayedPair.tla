--------------------------- MODULE MCRelayedPair ---------------------------
(* Small instances of RelayedPair. *)
EXTENDS RelayedPair, TLC

CONSTANTS a, b

Both == {a, b}

BothHubs == {"quic", "ws"}
=============================================================================
