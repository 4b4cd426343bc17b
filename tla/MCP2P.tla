------------------------------- MODULE MCP2P -------------------------------
(***************************************************************************)
(* P2P with two offers, candidates before and after them, and two events   *)
(* (losses, selections, a kick).                                           *)
(***************************************************************************)
EXTENDS P2P
MCTrickle == {<<1, "early">>, <<1, "late">>, <<2, "late">>}
=============================================================================
