--------------------------- MODULE MCOutputBatcher ---------------------------
(* A small instance of OutputBatcher for TLC: three writes of one session, so *)
(* that a dropped write can leave a gap, and one of another, so that a        *)
(* snapshot of one session splits the buffer of the other.                    *)
EXTENDS OutputBatcher

CONSTANTS s1, s2, c1

SessionsMC == {s1, s2}
ClientsMC == {c1}
MaxWritesMC == [s \in SessionsMC |-> IF s = s1 THEN 3 ELSE 1]
=============================================================================
