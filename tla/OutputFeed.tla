----------------------------- MODULE OutputFeed -----------------------------
(***************************************************************************)
(* What the relay output path promises about one terminal session, with no *)
(* buffers, locks or messages: the PTY reader produces numbered writes     *)
(* 1, 2, 3, ..., and the app is handed contiguous runs of them, each run   *)
(* strictly after everything handed over before.  A write may be left out  *)
(* (muted, unsubscribed, dropped by a reset), never repeated, reordered or *)
(* invented.  OutputBatcher implements this specification.                 *)
(***************************************************************************)
EXTENDS Naturals

CONSTANT Sessions   \* terminal session IDs

VARIABLES
  written,          \* written[s]: number of writes the PTY reader has numbered
  delivered         \* delivered[s]: the set of writes handed to the channel

vars == <<written, delivered>>

Init == /\ written = [s \in Sessions |-> 0]
        /\ delivered = [s \in Sessions |-> {}]

\* The reader goroutine numbers one more write of session s.
Write(s) == /\ written' = [written EXCEPT ![s] = @ + 1]
            /\ UNCHANGED delivered

\* The channel is handed the run first..last of session s, all of it newer
\* than what it was handed before and none of it from the future.
Deliver(s) ==
  \E first, last \in 1..written[s] :
    /\ first <= last
    /\ \A w \in delivered[s] : w < first
    /\ delivered' = [delivered EXCEPT ![s] = @ \cup first..last]
    /\ UNCHANGED written

Next == \E s \in Sessions : Write(s) \/ Deliver(s)

Spec == Init /\ [][Next]_vars
=============================================================================
