------------------------------ MODULE MCTSRelay ------------------------------
(***************************************************************************)
(* An instance of TSRelay for TLC: readLoop with its handlers' replies,    *)
(* and a tunnel that sends its data in binary and its close as text.       *)
(***************************************************************************)
EXTENDS TSRelay

CONSTANTS reader, tunnel
MCSenders == {reader, tunnel}
MCBulk == {tunnel}
=============================================================================
