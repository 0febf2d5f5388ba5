---------------------------- MODULE MCAgentPath ----------------------------
(* Small instances of AgentPath. *)
EXTENDS AgentPath, TLC

OneList == {<<"a">>}
TwoLists == {<<>>, <<"a">>, <<"b", "a">>}
=============================================================================
