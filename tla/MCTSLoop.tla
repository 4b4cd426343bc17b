------------------------------ MODULE MCTSLoop ------------------------------
(***************************************************************************)
(* An instance of TSLoop for TLC: main and two local clients.              *)
(***************************************************************************)
EXTENDS TSLoop

CONSTANTS c1, c2
MCClients == {c1, c2}
=============================================================================
