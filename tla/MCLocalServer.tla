--------------------------- MODULE MCLocalServer ---------------------------
(* Two clients, two ids, a channel of one.                                 *)
EXTENDS LocalServer, TLC

CONSTANTS c1, c2, s1, s2

Symmetry == Permutations(Clients) \cup Permutations(Ids)
=============================================================================
