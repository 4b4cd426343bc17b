----------------------------- MODULE MCHandshake -----------------------------
(***************************************************************************)
(* An instance of Handshake for TLC: the relay and the data channel, a few *)
(* handshakes on either, one or two resets.                                *)
(***************************************************************************)
EXTENDS Handshake

CONSTANTS TS, P2P
MCTransports == {TS, P2P}
=============================================================================
