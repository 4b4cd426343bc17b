--------------------------- MODULE MCSessionEgress ---------------------------
(* One session with three writes, and two operations of the app, the relay   *)
(* or local users on top of the exit of the session, which needs no asking.  *)
EXTENDS SessionEgress

CONSTANTS s1, exit

SessionsMC == {s1}
ClientsMC == {Remote, Local, exit}
WaiterMC == [s \in SessionsMC |-> exit]
MaxWritesMC == [s \in SessionsMC |-> 3]
=============================================================================
