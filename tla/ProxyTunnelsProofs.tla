-------------------------- MODULE ProxyTunnelsProofs --------------------------
(***************************************************************************)
(* Proofs about the proxy tunnels, for any number of read loops, ids,      *)
(* requests and units.                                                     *)
(***************************************************************************)
EXTENDS ProxyTunnels, TLAPS

-----------------------------------------------------------------------------
(***************************************************************************)
(* The inductive invariant.                                                *)
(***************************************************************************)
\* A tunnel is open from its registration on, and has read nothing before; a
\* fetch is in no table and has a piece left while its body is read.
Begun(t) ==
  /\ t.open \/ t.pc \notin {"dial", "body", "done"} => t.key \in Keys
  /\ t.pc \in {"dial", "body"} => ~t.open
  /\ t.pc = "dial" => t.next = 1
  /\ t.pc = "body" => t.next <= t.last
BegunInv == \A i \in Tunnels : Begun(tun[i])

\* What is in the table is open and under its own id.
Listed == \A k \in Keys : conns[k] # None =>
            tun[conns[k]].open /\ tun[conns[k]].key = k
\* What is open is in the table, or was replaced in it.
Reachable == \A i \in Tunnels :
  tun[i].open /\ ~tun[i].replaced => conns[tun[i].key] = i
TableInv == Listed /\ Reachable

-----------------------------------------------------------------------------
(***************************************************************************)
(* The operators of the model.                                             *)
(***************************************************************************)
TunnelFields == {"key", "pc", "open", "next", "last", "full", "refused",
                 "replaced"}

\* The tunnels are numbered from 1; each has its fields.
LEMMA TunnelFacts ==
  ASSUME TypeOK
  PROVE  /\ Len(tun) \in Nat /\ Tunnels = 1..Len(tun) /\ None \notin Tunnels
         /\ \A i \in Tunnels : /\ tun[i] \in TunnelRecords
                               /\ DOMAIN tun[i] = TunnelFields
<1>1. tun \in Seq(TunnelRecords)
  BY DEF TypeOK
<1>2. \A S : \A q \in Seq(S) : /\ Len(q) \in Nat /\ DOMAIN q = 1..Len(q)
                               /\ \A i \in DOMAIN q : q[i] \in S
  OBVIOUS
<1>3. \A t \in TunnelRecords : DOMAIN t = TunnelFields
  BY DEF TunnelRecords, TunnelFields
<1> QED BY <1>1, <1>2, <1>3 DEF Tunnels, None

\* A step that changes tunnels and starts none.
LEMMA ChangedTunnels ==
  ASSUME TypeOK, DOMAIN tun' = Tunnels, tun' = [i \in Tunnels |-> tun'[i]],
         \A i \in Tunnels : tun'[i] \in TunnelRecords
  PROVE  /\ tun' \in Seq(TunnelRecords) /\ Len(tun') = Len(tun)
         /\ Tunnels' = Tunnels
<1>1. Tunnels = 1..Len(tun) /\ Len(tun) \in Nat
  BY TunnelFacts
<1>2. tun' \in [1..Len(tun) -> TunnelRecords]
  BY <1>1
<1>3. \A S : \A n \in Nat : \A q \in [1..n -> S] : q \in Seq(S) /\ Len(q) = n
  OBVIOUS
<1> QED BY <1>1, <1>2, <1>3 DEF Tunnels

-----------------------------------------------------------------------------
(***************************************************************************)
(* The steps of one tunnel.                                                *)
(***************************************************************************)
Inv == TypeOK /\ BegunInv /\ TableInv

\* A step of a read loop that leaves the table and the sockets alone.
LEMMA ReaderStep ==
  ASSUME Inv, NEW i \in Tunnels, NEW u \in TunnelRecords,
         tun' = [tun EXCEPT ![i] = u],
         u.key = tun[i].key, u.open = tun[i].open,
         u.replaced = tun[i].replaced, Begun(u),
         UNCHANGED <<conns, at, linkVars>>
  PROVE  Inv'
<1>1. /\ Tunnels = 1..Len(tun) /\ tun \in Seq(TunnelRecords)
      /\ \A j \in Tunnels : tun[j] \in TunnelRecords
  BY TunnelFacts DEF Inv, TypeOK
<1>2. /\ DOMAIN tun' = Tunnels /\ tun'[i] = u
      /\ \A j \in Tunnels \ {i} : tun'[j] = tun[j]
  BY <1>1 DEF Tunnels
<1>3. /\ tun' \in Seq(TunnelRecords) /\ Len(tun') = Len(tun)
      /\ Tunnels' = Tunnels
  BY <1>1, <1>2, ChangedTunnels DEF Inv
<1>4. TypeOK'
  BY <1>3 DEF Inv, TypeOK, linkVars
<1>5. BegunInv'
  BY ZenonT(60), <1>2, <1>3 DEF Inv, BegunInv, Begun
<1>6. TableInv'
  <2>1. \A j \in Tunnels : /\ tun'[j].key = tun[j].key
                           /\ tun'[j].open = tun[j].open
                           /\ tun'[j].replaced = tun[j].replaced
    BY <1>2
  <2>2. \A k \in Keys : conns[k] # None => conns[k] \in Tunnels
    BY DEF Inv, TypeOK
  <2> QED BY <1>3, <2>1, <2>2 DEF Inv, TableInv, Listed, Reachable
<1> QED BY <1>4, <1>5, <1>6 DEF Inv

\* What a frame changes.
LEMMA PassedFacts ==
  ASSUME Inv, NEW i \in Tunnels, NEW pc, NEW size \in Sizes,
         tun[i].next <= MaxUnits,
         NEW u, u = [f \in DOMAIN tun[i] |->
                      IF f \in DOMAIN Passed(i, size, pc)
                      THEN Passed(i, size, pc)[f] ELSE tun[i][f]]
  PROVE  /\ DOMAIN u = TunnelFields /\ u.pc = pc
         /\ u.key = tun[i].key /\ u.open = tun[i].open
         /\ u.last = tun[i].last /\ u.full = tun[i].full
         /\ u.replaced = tun[i].replaced
         /\ u.next = tun[i].next + 1 /\ u.next \in 1..(MaxUnits + 1)
         /\ u.refused \in BOOLEAN
<1>1. PICK p : p = Passed(i, size, pc)
  OBVIOUS
<1>2. PICK b \in BOOLEAN : b = (tun[i].refused \/ Dropped(i, size))
  OBVIOUS
<1>3. /\ DOMAIN p = {"pc", "next", "refused"}
      /\ p.pc = pc /\ p.next = tun[i].next + 1 /\ p.refused = b
  BY <1>1, <1>2 DEF Passed
<1>4. DOMAIN tun[i] = TunnelFields /\ tun[i] \in TunnelRecords
  BY TunnelFacts DEF Inv
<1>5. u = [f \in DOMAIN tun[i] |-> IF f \in DOMAIN p THEN p[f] ELSE tun[i][f]]
  BY <1>1
<1>6. /\ DOMAIN u = TunnelFields /\ u.pc = pc
      /\ u.key = tun[i].key /\ u.open = tun[i].open
      /\ u.last = tun[i].last /\ u.full = tun[i].full
      /\ u.replaced = tun[i].replaced
      /\ u.next = tun[i].next + 1 /\ u.refused = b
  BY <1>3, <1>4, <1>5 DEF TunnelFields
<1>7. tun[i].next \in 1..(MaxUnits + 1) /\ MaxUnits \in Nat
  BY <1>4, ProxyAssumption DEF TunnelRecords
<1>8. u.next \in 1..(MaxUnits + 1)
  BY <1>6, <1>7
<1> QED BY <1>6, <1>8

\* A read loop, or a fetch, goes on; it may fix its buffer or its last piece.
LEMMA MovedStep ==
  ASSUME Inv, NEW i \in Tunnels, NEW new, tun' = Set(i, new),
         DOMAIN new \subseteq {"pc", "full", "last"}, "pc" \in DOMAIN new,
         new.pc \in {"announce", "check", "read", "leave", "body", "done"},
         "full" \in DOMAIN new => new.full \in Sizes,
         "last" \in DOMAIN new => new.last \in 0..MaxUnits,
         new.pc = "body" => /\ ~tun[i].open /\ "last" \in DOMAIN new
                            /\ tun[i].next <= new.last,
         new.pc \notin {"body", "done"} => tun[i].key \in Keys,
         UNCHANGED <<conns, at, linkVars>>
  PROVE  Inv'
<1>1. PICK t : t = tun[i]
  OBVIOUS
<1>2. PICK u : u = [f \in DOMAIN t |->
                      IF f \in DOMAIN new THEN new[f] ELSE t[f]]
  OBVIOUS
<1>3. /\ DOMAIN t = TunnelFields /\ t \in TunnelRecords
      /\ Begun(t)
  BY <1>1, TunnelFacts DEF Inv, BegunInv
<1>4. /\ DOMAIN u = TunnelFields /\ u.pc = new.pc
      /\ u.key = t.key /\ u.open = t.open /\ u.next = t.next
      /\ u.refused = t.refused /\ u.replaced = t.replaced
      /\ u.last = IF "last" \in DOMAIN new THEN new.last ELSE t.last
      /\ u.full = IF "full" \in DOMAIN new THEN new.full ELSE t.full
      /\ u = [f \in TunnelFields |-> u[f]]
  BY <1>2, <1>3 DEF TunnelFields
<1>5. u \in TunnelRecords
  BY <1>3, <1>4 DEF TunnelRecords, TunnelFields
<1>6. Begun(u)
  BY <1>1, <1>3, <1>4 DEF Begun
<1>7. tun' = [tun EXCEPT ![i] = u]
  BY <1>1, <1>2 DEF Set
<1> QED BY <1>1, <1>4, <1>5, <1>6, <1>7, ReaderStep

LEMMA PassedStep ==
  ASSUME Inv, NEW i \in Tunnels, NEW size \in Sizes,
         NEW pc \in {"check", "body", "done"},
         tun[i].next <= MaxUnits,
         pc = "body" => ~tun[i].open /\ tun[i].next + 1 <= tun[i].last,
         pc = "check" => tun[i].key \in Keys,
         tun' = Set(i, Passed(i, size, pc)),
         UNCHANGED <<conns, at, linkVars>>
  PROVE  Inv'
<1>1. PICK t : t = tun[i]
  OBVIOUS
<1>2. PICK u : u = [f \in DOMAIN tun[i] |->
                      IF f \in DOMAIN Passed(i, size, pc)
                      THEN Passed(i, size, pc)[f] ELSE tun[i][f]]
  OBVIOUS
<1>3. t \in TunnelRecords /\ Begun(t)
  BY <1>1, TunnelFacts DEF Inv, BegunInv
<1>4. /\ DOMAIN u = TunnelFields /\ u.pc = pc
      /\ u.key = t.key /\ u.open = t.open
      /\ u.last = t.last /\ u.full = t.full
      /\ u.replaced = t.replaced
      /\ u.next = t.next + 1 /\ u.next \in 1..(MaxUnits + 1)
      /\ u.refused \in BOOLEAN
  BY <1>1, <1>2, <1>3, PassedFacts
<1>5. u \in TunnelRecords
  <2>1. u = [f \in TunnelFields |-> u[f]]
    BY <1>2, <1>4
  <2> QED BY <1>3, <1>4, <2>1 DEF TunnelRecords, TunnelFields
<1>6. Begun(u)
  BY <1>1, <1>3, <1>4 DEF Begun
<1>7. tun' = [tun EXCEPT ![i] = u]
  BY <1>2 DEF Set
<1> QED BY <1>1, <1>4, <1>5, <1>6, <1>7, ReaderStep

-----------------------------------------------------------------------------
(***************************************************************************)
(* The steps that close tunnels.                                           *)
(***************************************************************************)
\* The connections in `S' are closed and leave the table.
LEMMA ShutStep ==
  ASSUME Inv, NEW S, DOMAIN tun' = Tunnels, tun' = [t \in Tunnels |-> tun'[t]],
         \A t \in Tunnels :
           /\ tun'[t] = [tun[t] EXCEPT !.pc = tun'[t].pc,
                                       !.open = tun'[t].open]
           /\ tun'[t].pc \in {tun[t].pc, "done"}
           /\ tun'[t].open = (tun[t].open /\ t \notin S),
         conns' \in [Keys -> {None} \cup Tunnels],
         \A k \in Keys : conns'[k] # None =>
                           conns'[k] = conns[k] /\ conns[k] \notin S,
         \A k \in Keys : conns[k] \in S \/ conns'[k] = conns[k]
  PROVE  /\ tun' \in Seq(TunnelRecords) /\ Len(tun') = Len(tun)
         /\ Tunnels' = Tunnels /\ BegunInv' /\ TableInv'
<1>1. ASSUME NEW i \in Tunnels
      PROVE  /\ tun'[i] \in TunnelRecords
             /\ tun'[i].key = tun[i].key /\ tun'[i].next = tun[i].next
             /\ tun'[i].last = tun[i].last
             /\ tun'[i].refused = tun[i].refused
             /\ tun'[i].replaced = tun[i].replaced
             /\ Begun(tun[i])'
  <2>1. tun[i] \in TunnelRecords /\ Begun(tun[i])
    BY TunnelFacts DEF Inv, BegunInv
  <2>2. PICK t : t = tun[i]
    OBVIOUS
  <2>3. PICK u : u = tun'[i]
    OBVIOUS
  <2>4. u = [t EXCEPT !.pc = u.pc, !.open = u.open]
        /\ u.pc \in {t.pc, "done"} /\ u.open \in BOOLEAN
        /\ (u.open => t.open)
    BY <1>1, <2>2, <2>3
  <2>5. t \in TunnelRecords /\ Begun(t)
    BY <2>1, <2>2
  <2>6. /\ u \in TunnelRecords /\ u.key = t.key /\ u.next = t.next
        /\ u.last = t.last /\ u.refused = t.refused
        /\ u.replaced = t.replaced
    BY <2>4, <2>5 DEF TunnelRecords
  <2>7. Begun(u)
    BY <2>4, <2>5, <2>6 DEF Begun
  <2> QED BY <2>2, <2>3, <2>6, <2>7 DEF Begun
<1>2. /\ tun' \in Seq(TunnelRecords) /\ Len(tun') = Len(tun)
      /\ Tunnels' = Tunnels
  BY <1>1, ChangedTunnels DEF Inv
<1>3. BegunInv'
  BY <1>1, <1>2 DEF BegunInv
<1>4. Listed'
  <2>1. \A k \in Keys : conns[k] \in {None} \cup Tunnels
    BY DEF Inv, TypeOK
  <2>2. \A k \in Keys : conns[k] # None => tun[conns[k]].open
                                           /\ tun[conns[k]].key = k
    BY DEF Inv, TableInv, Listed
  <2>3. \A i \in Tunnels : tun'[i].open = (tun[i].open /\ i \notin S)
    OBVIOUS
  <2> SUFFICES ASSUME NEW k \in Keys, conns'[k] # None
               PROVE  tun'[conns'[k]].open /\ tun'[conns'[k]].key = k
    BY DEF Listed
  <2>4. PICK i : i = conns[k]
    OBVIOUS
  <2>5. conns'[k] = i /\ i \notin S /\ i \in Tunnels
    BY <2>1, <2>4
  <2>6. tun'[i].open /\ tun'[i].key = k
    <3>1. tun[i].open /\ tun[i].key = k
      BY ZenonT(60), <2>2, <2>4, <2>5
    <3>2. tun'[i].open
      BY <2>3, <2>5, <3>1
    <3>3. tun'[i].key = tun[i].key
      BY <1>1, <2>5
    <3> QED BY <3>1, <3>2, <3>3
  <2> QED BY <2>5, <2>6
<1>5. Reachable'
  <2>1. \A i \in Tunnels : tun[i].open => tun[i].key \in Keys
    BY DEF Inv, BegunInv, Begun
  <2>2. None \notin Tunnels
    BY TunnelFacts DEF Inv
  <2>3. \A i \in Tunnels : tun[i].open /\ ~tun[i].replaced =>
                             conns[tun[i].key] = i
    BY DEF Inv, TableInv, Reachable
  <2>4. \A i \in Tunnels : tun'[i].open = (tun[i].open /\ i \notin S)
    OBVIOUS
  <2> SUFFICES ASSUME NEW i \in Tunnels, tun'[i].open, ~tun'[i].replaced
               PROVE  conns'[tun'[i].key] = i
    BY <1>2 DEF Reachable
  <2>5. PICK k : k = tun[i].key
    OBVIOUS
  <2>6. k \in Keys /\ conns[k] = i /\ i \notin S /\ tun'[i].key = k
    BY <1>1, <2>1, <2>3, <2>4, <2>5
  <2>7. conns'[k] = i
    BY <2>6
  <2> QED BY <2>6, <2>7
<1> QED BY <1>2, <1>3, <1>4, <1>5 DEF TableInv

LEMMA RemovedStep ==
  ASSUME Inv, NEW key \in Keys, Removed(key)
  PROVE  /\ tun' \in Seq(TunnelRecords) /\ Len(tun') = Len(tun)
         /\ conns' \in [Keys -> {None} \cup Tunnels]
         /\ Tunnels' = Tunnels /\ BegunInv' /\ TableInv'
<1>1. /\ conns \in [Keys -> {None} \cup Tunnels]
      /\ conns' = [conns EXCEPT ![key] = None]
  BY DEF Inv, TypeOK, Removed
<1>2. PICK i : i = conns[key]
  OBVIOUS
<1>3. conns' \in [Keys -> {None} \cup Tunnels]
  BY <1>1
<1>4. /\ \A k \in Keys : conns'[k] # None =>
                           conns'[k] = conns[k] /\ conns[k] \notin {i}
      /\ \A k \in Keys : conns[k] \in {i} \/ conns'[k] = conns[k]
  BY <1>1, <1>2 DEF Inv, TableInv, Listed
<1>5. tun = [t \in Tunnels |-> tun[t]] /\ None \notin Tunnels
  <2>1. \A T : \A q \in Seq(T) : q = [j \in DOMAIN q |-> q[j]]
    OBVIOUS
  <2> QED BY <2>1, TunnelFacts DEF Inv, TypeOK, Tunnels
<1>6. \A t \in Tunnels : tun[t] \in TunnelRecords
                           /\ DOMAIN tun[t] = TunnelFields
  BY TunnelFacts DEF Inv
<1>7. /\ DOMAIN tun' = Tunnels /\ tun' = [t \in Tunnels |-> tun'[t]]
      /\ \A t \in Tunnels :
           /\ tun'[t] = [tun[t] EXCEPT !.pc = tun'[t].pc,
                                       !.open = tun'[t].open]
           /\ tun'[t].pc \in {tun[t].pc, "done"}
           /\ tun'[t].open = (tun[t].open /\ t \notin {i})
  <2>1. CASE i = None
    <3>1. tun' = tun
      BY <1>2, <2>1 DEF Removed, Closed
    <3>2. \A t \in TunnelRecords : t = [t EXCEPT !.pc = t.pc, !.open = t.open]
                                   /\ t.open \in BOOLEAN
      BY DEF TunnelRecords
    <3> QED BY <1>5, <1>6, <2>1, <3>1, <3>2
  <2>2. CASE i # None
    <3>1. i \in Tunnels
      BY <1>1, <1>2, <2>2
    <3>2. PICK t : t = tun[i]
      OBVIOUS
    <3>3. PICK u : u = [f \in DOMAIN t |-> IF f \in DOMAIN [open |-> FALSE]
                                         THEN [open |-> FALSE][f] ELSE t[f]]
      OBVIOUS
    <3>4. tun' = [tun EXCEPT ![i] = u]
      <4>1. tun' = Set(i, [open |-> FALSE])
        BY <1>2, <2>2 DEF Removed, Closed
      <4> QED BY <3>2, <3>3, <4>1 DEF Set
    <3>5. t \in TunnelRecords /\ DOMAIN t = TunnelFields
      BY <1>6, <3>1, <3>2
    <3>6. u = [t EXCEPT !.pc = u.pc, !.open = u.open] /\ u.pc = t.pc
          /\ u.open = FALSE
      BY <3>3, <3>5 DEF TunnelFields
    <3>7. \A r \in TunnelRecords : r = [r EXCEPT !.pc = r.pc, !.open = r.open]
                                   /\ r.open \in BOOLEAN
      BY DEF TunnelRecords
    <3>8. /\ DOMAIN tun' = Tunnels /\ tun'[i] = u
          /\ \A j \in Tunnels \ {i} : tun'[j] = tun[j]
          /\ tun' = [j \in Tunnels |-> tun'[j]]
      BY <1>5, <3>1, <3>4
    <3> QED BY <1>6, <3>2, <3>6, <3>7, <3>8
  <2> QED BY <2>1, <2>2
<1> QED BY <1>3, <1>4, <1>7, ShutStep

LEMMA LeaveStep == ASSUME Inv, NEW i, Leave(i) PROVE Inv'
<1>1. PICK key : key = tun[i].key
  OBVIOUS
<1>2. PICK j : j = conns[key]
  OBVIOUS
<1>3. i \in Tunnels /\ UNCHANGED <<at, linkVars>>
      /\ conns' = [conns EXCEPT ![key] = None]
      /\ tun' = [t \in Tunnels |-> [tun[t] EXCEPT
             !.pc = IF t = i THEN "done" ELSE @,
             !.open = @ /\ t # j]]
  BY <1>1, <1>2 DEF Leave, At
<1>4. conns \in [Keys -> {None} \cup Tunnels]
  BY DEF Inv, TypeOK
<1>5. conns' \in [Keys -> {None} \cup Tunnels]
  BY <1>3, <1>4
<1>6. /\ \A k \in Keys : conns'[k] # None =>
                           conns'[k] = conns[k] /\ conns[k] \notin {j}
      /\ \A k \in Keys : conns[k] \in {j} \/ conns'[k] = conns[k]
  <2>1. \A k \in Keys : conns'[k] = IF k = key THEN None ELSE conns[k]
    BY <1>3, <1>4
  <2>2. key \in Keys
    BY <1>1 DEF Leave, At, Inv, BegunInv, Begun
  <2> QED BY <1>2, <2>1, <2>2 DEF Inv, TableInv, Listed
<1>7. \A t \in Tunnels : tun[t] \in TunnelRecords
  BY TunnelFacts DEF Inv
<1>8. /\ DOMAIN tun' = Tunnels /\ tun' = [t \in Tunnels |-> tun'[t]]
      /\ \A t \in Tunnels :
           /\ tun'[t] = [tun[t] EXCEPT !.pc = tun'[t].pc,
                                       !.open = tun'[t].open]
           /\ tun'[t].pc \in {tun[t].pc, "done"}
           /\ tun'[t].open = (tun[t].open /\ t \notin {j})
  BY <1>3, <1>7 DEF TunnelRecords
<1>9. /\ tun' \in Seq(TunnelRecords) /\ Len(tun') = Len(tun)
      /\ Tunnels' = Tunnels /\ BegunInv' /\ TableInv'
  BY <1>5, <1>6, <1>8, ShutStep
<1> QED BY <1>3, <1>5, <1>9 DEF Inv, TypeOK, linkVars

LEMMA CloseAllStep ==
  ASSUME Inv, CloseAll
  PROVE  /\ tun' \in Seq(TunnelRecords) /\ Len(tun') = Len(tun)
         /\ conns' \in [Keys -> {None} \cup Tunnels]
         /\ Tunnels' = Tunnels /\ BegunInv' /\ TableInv'
<1> DEFINE S == {conns[k] : k \in Keys}
<1>1. /\ conns' = [k \in Keys |-> None]
      /\ tun' = [i \in Tunnels |-> [tun[i] EXCEPT !.open = @ /\ i \notin S]]
  BY DEF CloseAll
<1>2. \A k \in Keys : conns[k] \in S
  OBVIOUS
<1>3. \A t \in Tunnels : tun[t] \in TunnelRecords
  BY TunnelFacts DEF Inv
<1> HIDE DEF S
<1>4. /\ DOMAIN tun' = Tunnels /\ tun' = [t \in Tunnels |-> tun'[t]]
      /\ \A t \in Tunnels :
           /\ tun'[t] = [tun[t] EXCEPT !.pc = tun'[t].pc,
                                       !.open = tun'[t].open]
           /\ tun'[t].pc \in {tun[t].pc, "done"}
           /\ tun'[t].open = (tun[t].open /\ t \notin S)
  BY <1>1, <1>3 DEF TunnelRecords
<1>5. conns' \in [Keys -> {None} \cup Tunnels]
  BY <1>1
<1> QED BY <1>1, <1>2, <1>4, <1>5, ShutStep

-----------------------------------------------------------------------------
(***************************************************************************)
(* The steps that start tunnels.                                           *)
(***************************************************************************)
LEMMA NewStep ==
  ASSUME Inv, NEW g \in Goroutines, NEW kind \in {"tcp", "ws", "http"},
         NEW id \in ConnIds, New(g, <<kind, id>>)
  PROVE  Inv'
<1> DEFINE u == [key |-> <<kind, id>>, pc |-> "dial", open |-> FALSE,
                 next |-> 1, last |-> MaxUnits, full |-> 1,
                 refused |-> FALSE, replaced |-> FALSE]
           n == Len(tun) + 1
<1>1. tun' = Append(tun, u) /\ Len(tun) < MaxDials
      /\ UNCHANGED <<conns, at, linkVars>>
  BY DEF New
<1>2. u \in TunnelRecords
  BY ProxyAssumption DEF TunnelRecords, Sizes
<1>3. Begun(u)
  BY DEF Begun
<1>4. ~u.open
  OBVIOUS
<1> HIDE DEF u
<1>5. /\ tun \in Seq(TunnelRecords) /\ Len(tun) \in Nat
      /\ Tunnels = 1..Len(tun)
  BY TunnelFacts DEF Inv, TypeOK
<1>6. /\ tun' \in Seq(TunnelRecords) /\ Len(tun') = n /\ tun'[n] = u
      /\ Tunnels' = Tunnels \cup {n} /\ n \notin Tunnels
      /\ \A i \in Tunnels : tun'[i] = tun[i]
  BY <1>1, <1>2, <1>5 DEF Tunnels
<1> HIDE DEF n
<1>7. Len(tun') <= MaxDials
  BY <1>1, <1>5, <1>6, ProxyAssumption DEF n
<1>8. TypeOK'
  <2>1. conns' \in [Keys -> {None} \cup Tunnels']
    BY <1>1, <1>6 DEF Inv, TypeOK
  <2>2. at' \in [Goroutines ->
          {Idle} \cup [do : {"write"}, to : Tunnels', key : Keys]]
    <3>1. [do : {"write"}, to : Tunnels, key : Keys]
            \subseteq [do : {"write"}, to : Tunnels', key : Keys]
      BY <1>6
    <3> QED BY <1>1, <3>1 DEF Inv, TypeOK
  <2> QED BY <1>1, <1>6, <1>7, <2>1, <2>2 DEF Inv, TypeOK, linkVars
<1>9. BegunInv'
  <2>1. PICK v : v = u
    OBVIOUS
  <2>2. Begun(v) /\ tun'[n] = v
    BY <1>3, <1>6, <2>1
  <2>3. \A i \in Tunnels : Begun(tun'[i])
    BY <1>6 DEF Inv, BegunInv
  <2> QED BY <1>6, <2>2, <2>3 DEF BegunInv, Begun
<1>10. TableInv'
  <2>1. \A k \in Keys : conns[k] # None => conns[k] \in Tunnels
    BY DEF Inv, TypeOK
  <2>2. Listed'
    BY <1>1, <1>6, <2>1 DEF Inv, TableInv, Listed
  <2>3. Reachable'
    <3>1. \A i \in Tunnels' : tun'[i].open => i \in Tunnels
      BY <1>4, <1>6
    <3>2. \A i \in Tunnels : tun[i].open /\ ~tun[i].replaced =>
                               conns[tun[i].key] = i
      BY DEF Inv, TableInv, Reachable
    <3>3. conns' = conns
      BY <1>1
    <3> QED BY <1>6, <3>1, <3>2, <3>3 DEF Reachable
  <2> QED BY <2>2, <2>3 DEF TableInv
<1> QED BY <1>8, <1>9, <1>10 DEF Inv

LEMMA RegisterStep == ASSUME Inv, NEW i, Register(i) PROVE Inv'
<1>1. /\ i \in Tunnels /\ tun[i].pc = "dial" /\ tun[i].key \in Keys
      /\ conns' = [conns EXCEPT ![tun[i].key] = i]
      /\ UNCHANGED <<at, linkVars>>
  BY DEF Register, At
<1>2. PICK key : key = tun[i].key
  OBVIOUS
<1>3. tun' = [t \in Tunnels |->
            IF t # i THEN [tun[t] EXCEPT !.replaced = @ \/ Displaced(t, key)]
            ELSE [tun[t] EXCEPT !.pc = "announce", !.open = TRUE]]
  BY ZenonT(60), <1>2 DEF Register
<1>4. \A t \in Tunnels : /\ tun[t] \in TunnelRecords
                         /\ Begun(tun[t])
  BY TunnelFacts DEF Inv, BegunInv
\* The tunnels that were there.
<1>5. ASSUME NEW t \in Tunnels \ {i}
      PROVE  /\ tun'[t] \in TunnelRecords
             /\ Begun(tun[t])'
             /\ tun'[t].key = tun[t].key /\ tun'[t].open = tun[t].open
             /\ tun'[t].replaced = (tun[t].replaced \/ Displaced(t, key))
  <2>1. PICK r : r = tun[t]
    OBVIOUS
  <2>2. PICK u : u = tun'[t]
    OBVIOUS
  <2>3. u = [r EXCEPT !.replaced = @ \/ Displaced(t, key)]
    BY <1>3, <1>5, <2>1, <2>2
  <2>4. r \in TunnelRecords /\ Begun(r)
    BY <1>4, <1>5, <2>1
  <2>5. /\ u \in TunnelRecords /\ u.key = r.key /\ u.open = r.open
        /\ u.pc = r.pc /\ u.next = r.next /\ u.last = r.last
        /\ u.replaced = (r.replaced \/ Displaced(t, key))
    BY <2>3, <2>4 DEF TunnelRecords
  <2>6. Begun(u)
    BY <2>4, <2>5 DEF Begun
  <2> QED BY <2>1, <2>2, <2>5, <2>6
\* The new one.
<1>6. /\ tun'[i] \in TunnelRecords
      /\ Begun(tun[i])'
      /\ tun'[i].key = key /\ tun'[i].open
  <2>1. PICK r : r = tun[i]
    OBVIOUS
  <2>2. PICK u : u = tun'[i]
    OBVIOUS
  <2>3. u = [r EXCEPT !.pc = "announce", !.open = TRUE]
    BY <1>1, <1>3, <2>1, <2>2
  <2>4. /\ r \in TunnelRecords /\ Begun(r) /\ r.pc = "dial"
        /\ r.key = key
    BY <1>1, <1>2, <1>4, <2>1
  <2>6. /\ u \in TunnelRecords /\ u.key = key /\ u.open /\ u.pc = "announce"
        /\ u.next = r.next
    BY <2>3, <2>4 DEF TunnelRecords
  <2>7. Begun(u)
    BY <1>1, <1>2, <2>4, <2>6 DEF Begun
  <2> QED BY <2>2, <2>6, <2>7
<1>7. /\ tun' \in Seq(TunnelRecords) /\ Len(tun') = Len(tun)
      /\ Tunnels' = Tunnels
  <2>1. DOMAIN tun' = Tunnels /\ tun' = [t \in Tunnels |-> tun'[t]]
    BY <1>3
  <2>2. \A t \in Tunnels : tun'[t] \in TunnelRecords
    BY <1>5, <1>6
  <2> QED BY <2>1, <2>2, ChangedTunnels DEF Inv
<1>8. conns \in [Keys -> {None} \cup Tunnels]
  BY DEF Inv, TypeOK
<1>9. TypeOK'
  BY <1>1, <1>7, <1>8 DEF Inv, TypeOK, linkVars
<1>10. BegunInv'
  BY <1>5, <1>6, <1>7 DEF BegunInv
<1>11. \A k \in Keys : conns'[k] = IF k = key THEN i ELSE conns[k]
  BY <1>1, <1>2, <1>8
<1>12. \A k \in Keys : conns[k] # None =>
         /\ conns[k] \in Tunnels \ {i}
         /\ tun[conns[k]].open /\ tun[conns[k]].key = k
  BY <1>1, <1>4, <1>8 DEF Inv, TableInv, Listed, Begun
<1>13. Listed'
  <2> SUFFICES ASSUME NEW k \in Keys, conns'[k] # None
               PROVE  tun'[conns'[k]].open /\ tun'[conns'[k]].key = k
    BY DEF Listed
  <2>1. CASE k = key
    BY <1>6, <1>11, <2>1
  <2>2. CASE k # key
    BY <1>5, <1>11, <1>12, <2>2
  <2> QED BY <2>1, <2>2
<1>14. Reachable'
  <2> SUFFICES ASSUME NEW t \in Tunnels, tun'[t].open, ~tun'[t].replaced
               PROVE  conns'[tun'[t].key] = t
    BY <1>7 DEF Reachable
  <2>1. CASE t = i
    BY <1>1, <1>2, <1>6, <1>11, <2>1
  <2>2. CASE t # i
    <3>1. /\ tun[t].open /\ ~tun[t].replaced /\ ~Displaced(t, key)
          /\ tun'[t].key = tun[t].key
      BY <1>5, <2>2
    <3>2. tun[t].key \in Keys /\ conns[tun[t].key] = t
      BY <1>4, <3>1 DEF Begun, Inv, TableInv, Reachable
    <3>3. t # None
      BY TunnelFacts DEF Inv
    <3>4. tun[t].key # key
      BY <1>2, <3>1, <3>2, <3>3 DEF Displaced
    <3> QED BY <1>11, <3>1, <3>2, <3>4
  <2> QED BY <2>1, <2>2
<1> QED BY <1>9, <1>10, <1>13, <1>14 DEF Inv, TableInv

-----------------------------------------------------------------------------
(***************************************************************************)
(* Buffers and the selected channel.                                       *)
(***************************************************************************)
Reading == {"check", "read", "leave"}

\* A tunnel that was not open at a switch to P2P has had nothing refused, and
\* while P2P is selected its buffer is one for P2P.  A body is a fetch's.
Fit(i) ==
  /\ tun[i].pc = "body" => tun[i].key[1] # "tcp"
  /\ tun[i].key[1] = "tcp" /\ i \notin switched =>
       /\ ~tun[i].refused
       /\ tun[i].pc \in Reading /\ mode = "p2p" => tun[i].full <= 2
FitInv == \A i \in Tunnels : Fit(i)

\* A tunnel goes on with the buffer it has, or ends.
Kept(i) ==
  /\ tun'[i].key = tun[i].key /\ tun'[i].full = tun[i].full
  /\ tun'[i].refused = tun[i].refused
  /\ tun'[i].pc \in Reading => tun[i].pc \in Reading
  /\ tun'[i].pc = "body" => tun[i].pc = "body"

\* Tunnels that go on keep fitting, unless P2P is selected.
LEMMA KeptStep ==
  ASSUME FitInv, NEW i \in Tunnels, Kept(i),
         switched' = switched, mode' \in {mode, "ts"}
  PROVE  Fit(i)'
BY DEF FitInv, Fit, Kept

\* The fields of the tunnels after a step of one of them.
LEMMA SetFields ==
  ASSUME Inv, NEW i \in Tunnels, NEW new, tun' = Set(i, new)
  PROVE  /\ Tunnels' = Tunnels
         /\ \A j \in Tunnels \ {i} : tun'[j] = tun[j]
         /\ \A f \in TunnelFields :
              tun'[i][f] = IF f \in DOMAIN new THEN new[f] ELSE tun[i][f]
<1>1. DOMAIN tun[i] = TunnelFields
  BY TunnelFacts DEF Inv
<1>2. PICK u : u = [f \in DOMAIN tun[i] |->
                      IF f \in DOMAIN new THEN new[f] ELSE tun[i][f]]
  OBVIOUS
<1>3. tun' = [tun EXCEPT ![i] = u]
  BY <1>2 DEF Set
<1> QED BY <1>1, <1>2, <1>3 DEF Tunnels

\* A step of one tunnel after which that tunnel fits.
LEMMA OneStep ==
  ASSUME Inv, FitInv, NEW i \in Tunnels, NEW new, tun' = Set(i, new),
         UNCHANGED linkVars, Fit(i)'
  PROVE  FitInv'
<1>1. Tunnels' = Tunnels /\ \A j \in Tunnels \ {i} : tun'[j] = tun[j]
  BY SetFields
<1>2. \A j \in Tunnels \ {i} : Fit(j)'
  BY <1>1 DEF FitInv, Fit, linkVars
<1> QED BY <1>1, <1>2 DEF FitInv

\* A step that lets every tunnel go on.
LEMMA AllKept ==
  ASSUME FitInv, Tunnels' = Tunnels, \A i \in Tunnels : Kept(i),
         switched' = switched, mode' \in {mode, "ts"}
  PROVE  FitInv'
BY KeptStep DEF FitInv

\* Connections that are closed or replaced leave buffers alone.
LEMMA RemovedKeeps ==
  ASSUME Inv, NEW key \in Keys, Removed(key)
  PROVE  Tunnels' = Tunnels /\ \A i \in Tunnels : Kept(i)
<1>1. Tunnels' = Tunnels
  BY RemovedStep
<1>2. conns[key] \in {None} \cup Tunnels
  BY DEF Inv, TypeOK
<1>3. CASE conns[key] = None
  BY <1>1, <1>3 DEF Removed, Closed, Kept
<1>4. CASE conns[key] # None
  <2>1. PICK j \in Tunnels : j = conns[key]
    BY <1>2, <1>4
  <2>2. PICK new : new = [open |-> FALSE]
    OBVIOUS
  <2>3. tun' = Set(j, new) /\ DOMAIN new = {"open"}
    BY <1>4, <2>1, <2>2 DEF Removed, Closed
  <2>4. \A i \in Tunnels \ {j} : tun'[i] = tun[i]
    BY <2>3, SetFields
  <2>5. \A f \in TunnelFields \ {"open"} : tun'[j][f] = tun[j][f]
    BY <2>3, SetFields
  <2>6. Kept(j)
    BY <2>5 DEF Kept, TunnelFields
  <2> QED BY <1>1, <2>4, <2>6 DEF Kept
<1> QED BY <1>3, <1>4

LEMMA ClosingKeeps ==
  ASSUME Inv, CloseAll \/ \E i \in Tunnels : Leave(i)
  PROVE  Tunnels' = Tunnels /\ \A i \in Tunnels : Kept(i)
<1>1. \A i \in Tunnels : tun[i] \in TunnelRecords
  BY TunnelFacts DEF Inv
<1>2. CASE CloseAll
  <2>1. tun' = [i \in Tunnels |->
                  [tun[i] EXCEPT !.open = @ /\ \A k \in Keys : conns[k] # i]]
    BY <1>2 DEF CloseAll
  <2>2. ASSUME NEW i \in Tunnels PROVE Kept(i)
    BY <1>1, <2>1, <2>2 DEF Kept, TunnelRecords
  <2> QED BY <2>1, <2>2 DEF Tunnels
<1>3. ASSUME NEW j \in Tunnels, Leave(j)
      PROVE  Tunnels' = Tunnels /\ \A i \in Tunnels : Kept(i)
  <2>1. PICK other : other = conns[tun[j].key]
    OBVIOUS
  <2>2. tun' = [t \in Tunnels |-> [tun[t] EXCEPT
                 !.pc = IF t = j THEN "done" ELSE @,
                 !.open = @ /\ t # other]]
    BY <1>3, <2>1 DEF Leave
  <2>3. ASSUME NEW i \in Tunnels PROVE Kept(i)
    BY <1>1, <2>2, <2>3 DEF Kept, TunnelRecords, Reading
  <2> QED BY <2>2, <2>3 DEF Tunnels
<1> QED BY <1>2, <1>3

LEMMA RegisterKeeps ==
  ASSUME Inv, NEW i \in Tunnels, Register(i)
  PROVE  Tunnels' = Tunnels /\ \A j \in Tunnels : Kept(j)
<1>1. \A j \in Tunnels : tun[j] \in TunnelRecords
  BY TunnelFacts DEF Inv
<1>2. PICK key : key = tun[i].key
  OBVIOUS
<1>3. tun' = [t \in Tunnels |->
            IF t # i THEN [tun[t] EXCEPT !.replaced = @ \/ Displaced(t, key)]
            ELSE [tun[t] EXCEPT !.pc = "announce", !.open = TRUE]]
  BY ZenonT(60), <1>2 DEF Register
<1>4. ASSUME NEW j \in Tunnels PROVE Kept(j)
  <2>1. PICK b : b = Displaced(j, key)
    OBVIOUS
  <2>2. tun'[j] = IF j # i THEN [tun[j] EXCEPT !.replaced = @ \/ b]
                  ELSE [tun[j] EXCEPT !.pc = "announce", !.open = TRUE]
    BY <1>3, <2>1
  <2> QED BY <1>1, <2>2 DEF Kept, TunnelRecords, Reading
<1> QED BY <1>3, <1>4 DEF Tunnels

\* A frame no larger than the buffer.
LEMMA PassedFits ==
  ASSUME Inv, FitInv, NEW i \in Tunnels, NEW size \in 1..tun[i].full,
         NEW pc \in {"check", "body", "done"},
         tun[i].pc \in {"read", "body"},
         pc = "body" => tun[i].pc = "body",
         pc = "check" => tun[i].pc = "read",
         tun[i].next <= MaxUnits,
         tun' = Set(i, Passed(i, size, pc)), UNCHANGED linkVars
  PROVE  FitInv'
<1>1. PICK b \in BOOLEAN : b = (tun[i].refused \/ Dropped(i, size))
  OBVIOUS
<1>2. PICK new : new = Passed(i, size, pc)
  OBVIOUS
<1>3. /\ DOMAIN new = {"pc", "next", "refused"}
      /\ new.pc = pc /\ new.refused = b
  BY <1>1, <1>2 DEF Passed
<1>4. tun' = Set(i, new) /\ Tunnels' = Tunnels
  BY <1>2, SetFields
<1>5. \A f \in TunnelFields :
        tun'[i][f] = IF f \in DOMAIN new THEN new[f] ELSE tun[i][f]
  BY <1>4, SetFields
<1>6. /\ tun'[i].key = tun[i].key /\ tun'[i].full = tun[i].full
      /\ tun'[i].pc = pc /\ tun'[i].refused = b
  BY <1>3, <1>5 DEF TunnelFields
<1>7. Fit(i) /\ tun[i].full \in Sizes
  BY TunnelFacts DEF FitInv, Inv, TunnelRecords
<1>8. ASSUME tun[i].key[1] = "tcp", i \notin switched PROVE ~b
  <2>1. ~tun[i].refused /\ (mode = "p2p" => tun[i].full <= 2)
    BY <1>7, <1>8 DEF Fit, Reading
  <2>2. mode = "p2p" => size <= 2
    BY <1>7, <2>1 DEF Sizes
  <2> QED BY <1>1, <1>8, <2>1, <2>2 DEF Dropped, Fits
<1>9. Fit(i)'
  <2>1. switched' = switched /\ mode' = mode
    BY DEF linkVars
  <2>2. pc \in Reading => tun[i].pc \in Reading
    BY DEF Reading
  <2> QED BY <1>6, <1>7, <1>8, <2>1, <2>2 DEF Fit
<1> QED BY <1>4, <1>9, OneStep

-----------------------------------------------------------------------------
(***************************************************************************)
(* What every behaviour keeps.                                             *)
(***************************************************************************)
LEMMA InvInit == ASSUME Init PROVE Inv
<1>1. \A S : <<>> \in Seq(S) /\ Len(<<>>) = 0
  OBVIOUS
<1>2. DOMAIN <<>> = {}
  OBVIOUS
<1>3. Tunnels = {} /\ tun = <<>>
  BY <1>2 DEF Init, Tunnels
<1>4. TypeOK
  <2>1. MaxDials \in Nat
    BY ProxyAssumption
  <2> QED BY <1>1, <1>3, <2>1 DEF Init, TypeOK
<1>5. BegunInv
  BY <1>3 DEF BegunInv
<1>6. TableInv
  BY <1>3 DEF Init, TableInv, Listed, Reachable
<1> QED BY <1>4, <1>5, <1>6 DEF Inv

LEMMA InvStep == ASSUME Inv, [Next]_vars PROVE Inv'
<1>1. /\ MaxUnits \in Nat
      /\ \A i \in Tunnels : /\ tun[i] \in TunnelRecords
                            /\ tun[i].next \in 1..(MaxUnits + 1)
                            /\ tun[i].last \in 0..MaxUnits
                            /\ tun[i].full \in Sizes
                            /\ Begun(tun[i])
  BY ProxyAssumption, TunnelFacts DEF Inv, BegunInv, TunnelRecords
<1>2. /\ conns \in [Keys -> {None} \cup Tunnels]
      /\ at \in [Goroutines ->
                   {Idle} \cup [do : {"write"}, to : Tunnels, key : Keys]]
  BY DEF Inv, TypeOK
<1>3. ASSUME NEW g \in Goroutines, Handler(g) PROVE Inv'
  <2>1. CASE \E id \in ConnIds : \/ HandleConnect(g, id)
                                 \/ HandleWsConnect(g, id)
                                 \/ HandleHttpFetch(g, id)
    BY <2>1, NewStep DEF HandleConnect, HandleWsConnect, HandleHttpFetch
  <2>2. ASSUME NEW key \in Keys, HandleData(g, key) PROVE Inv'
    <3>1. /\ at' = [at EXCEPT ![g] = [do |-> "write", to |-> conns[key],
                                      key |-> key]]
          /\ conns[key] \in Tunnels
          /\ UNCHANGED <<conns, tun, linkVars>>
      BY <1>2, <2>2 DEF HandleData
    <3>2. [do |-> "write", to |-> conns[key], key |-> key]
            \in [do : {"write"}, to : Tunnels, key : Keys]
      BY <3>1
    <3>3. TypeOK'
      BY <1>2, <3>1, <3>2 DEF Inv, TypeOK, linkVars, Tunnels
    <3> QED BY <3>1, <3>3 DEF Inv, BegunInv, TableInv, Begun,
               Listed, Reachable, Tunnels
  <2>3. ASSUME NEW key \in Keys, HandleClose(g, key) PROVE Inv'
    <3>1. Removed(key) /\ UNCHANGED <<at, linkVars>>
      BY <2>3 DEF HandleClose
    <3> QED BY <3>1, RemovedStep DEF Inv, TypeOK, linkVars
  <2>4. ASSUME WriteData(g) PROVE Inv'
    <3>1. /\ at' = [at EXCEPT ![g] = Idle] /\ UNCHANGED linkVars
          /\ at[g].do = "write"
      BY <2>4 DEF WriteData
    <3>2. at' \in [Goroutines ->
                     {Idle} \cup [do : {"write"}, to : Tunnels, key : Keys]]
      BY <1>2, <3>1
    <3>3. CASE UNCHANGED <<conns, tun>>
      <4>1. TypeOK'
        BY <1>2, <3>1, <3>2, <3>3 DEF Inv, TypeOK, linkVars, Tunnels
      <4> QED BY <3>3, <4>1 DEF Inv, BegunInv, TableInv, Begun,
                 Listed, Reachable, Tunnels
    <3>4. CASE Removed(at[g].key)
      <4>1. at[g].key \in Keys
        <5>1. Idle.do # "write"
          BY DEF Idle
        <5> QED BY <1>2, <3>1, <5>1
      <4> QED
        BY <3>1, <3>2, <3>4, <4>1, RemovedStep DEF Inv, TypeOK, linkVars
    <3> QED BY <2>4, <3>3, <3>4 DEF WriteData
  <2> QED BY <1>3, <2>1, <2>2, <2>3, <2>4 DEF Handler
<1>4. ASSUME NEW i \in Tunnels, DialFails(i) PROVE Inv'
  BY <1>4, MovedStep DEF DialFails
<1>5. ASSUME NEW i \in Tunnels, Announce(i) \/ Check(i) \/ ReadError(i)
      PROVE  Inv'
  <2>1. tun[i].key \in Keys
    BY <1>1, <1>5 DEF Announce, Check, ReadError, At, Begun
  <2>2. CASE Announce(i)
    <3>1. PICK full \in Sizes : full = BufferSize(tun[i].key[1])
      BY DEF BufferSize, Sizes
    <3>2. PICK new : new = [pc |-> "check", full |-> full]
      OBVIOUS
    <3>3. /\ DOMAIN new = {"pc", "full"} /\ new.pc = "check"
          /\ new.full \in Sizes
      BY <3>2
    <3>4. tun' = Set(i, new) /\ UNCHANGED <<conns, at, linkVars>>
      BY <2>2, <3>1, <3>2 DEF Announce
    <3> QED BY <2>1, <3>3, <3>4, MovedStep
  <2>3. CASE Check(i)
    <3>1. PICK pc : pc = IF tun[i].open THEN "read" ELSE "leave"
      OBVIOUS
    <3> QED BY <2>1, <2>3, <3>1, MovedStep DEF Check
  <2>4. CASE ReadError(i)
    BY <2>1, <2>4, MovedStep DEF ReadError
  <2> QED BY <1>5, <2>2, <2>3, <2>4
<1>6. ASSUME NEW i \in Tunnels, Read(i) PROVE Inv'
  <2>1. PICK size \in 1..tun[i].full : tun' = Set(i, Passed(i, size, "check"))
    BY <1>6 DEF Read
  <2>2. tun[i].key \in Keys /\ UNCHANGED <<conns, at, linkVars>>
        /\ tun[i].next <= MaxUnits
    BY <1>1, <1>6 DEF Read, At, Begun
  <2>3. size \in Sizes
    BY <1>1 DEF Sizes
  <2> QED BY <2>1, <2>2, <2>3, PassedStep
<1>7. ASSUME NEW i \in Tunnels, Fetched(i) PROVE Inv'
  <2>1. PICK total \in 1..MaxUnits : \E full \in Sizes :
          tun' = Set(i, [pc |-> "body", last |-> total, full |-> full])
    BY <1>7 DEF Fetched
  <2>2. PICK full \in Sizes :
          tun' = Set(i, [pc |-> "body", last |-> total, full |-> full])
    BY <2>1
  <2>3. tun[i].next = 1 /\ ~tun[i].open /\ UNCHANGED <<conns, at, linkVars>>
    BY <1>1, <1>7 DEF Fetched, At, Begun
  <2>4. total \in 0..MaxUnits /\ 1 <= total
    BY <1>1
  <2>5. PICK new : new = [pc |-> "body", last |-> total, full |-> full]
    OBVIOUS
  <2>6. /\ DOMAIN new = {"pc", "last", "full"} /\ new.pc = "body"
        /\ new.last = total /\ new.full = full
    BY <2>5
  <2> QED BY <2>2, <2>3, <2>4, <2>5, <2>6, MovedStep
<1>8. ASSUME NEW i \in Tunnels, SendPiece(i) PROVE Inv'
  <2>1. /\ ~tun[i].open /\ tun[i].next <= tun[i].last
        /\ tun[i].next <= MaxUnits /\ UNCHANGED <<conns, at, linkVars>>
    BY <1>1, <1>8 DEF SendPiece, At, Begun
  <2>2. CASE /\ tun[i].next < tun[i].last
             /\ tun' = Set(i, Passed(i, tun[i].full, "body"))
    <3>1. tun[i].full \in Sizes /\ tun[i].next + 1 <= tun[i].last
      BY <1>1, <2>2
    <3> QED BY <2>1, <2>2, <3>1, PassedStep
  <2>3. ASSUME NEW size \in 1..tun[i].full,
               tun' = Set(i, Passed(i, size, "done"))
        PROVE  Inv'
    <3>1. size \in Sizes
      BY <1>1 DEF Sizes
    <3> QED BY <2>1, <2>3, <3>1, PassedStep
  <2> QED BY <1>8, <2>2, <2>3 DEF SendPiece
<1>9. CASE ChannelEnds
  <2>1. /\ CloseAll /\ at' = at /\ mode' \in {"ts", "p2p"}
        /\ {up', keys', verified'} \subseteq BOOLEAN
        /\ switched' = switched /\ switched \subseteq Tunnels
    BY <1>9 DEF ChannelEnds, Inv, TypeOK
  <2> QED BY <2>1, CloseAllStep DEF Inv, TypeOK
<1>10. CASE UNCHANGED vars \/ PeerOnline \/ SetSecCode \/ Verified
              \/ \E m \in {"ts", "p2p"} : ChannelSelect(m)
  <2>1. /\ UNCHANGED <<conns, tun, at>>
        /\ mode' \in {"ts", "p2p"}
        /\ {up', keys', verified'} \subseteq BOOLEAN
        /\ switched' \subseteq Tunnels
    BY <1>10 DEF vars, PeerOnline, SetSecCode, Verified, ChannelSelect, Sized,
                 Inv, TypeOK
  <2>2. TypeOK'
    BY <2>1 DEF Inv, TypeOK, Tunnels
  <2> QED BY <2>1, <2>2 DEF Inv, BegunInv, TableInv, Begun,
             Listed, Reachable, Tunnels
<1> QED
  BY <1>3, <1>4, <1>5, <1>6, <1>7, <1>8, <1>9, <1>10, LeaveStep, RegisterStep
  DEF Next, ReadLoop

LEMMA FitStep == ASSUME Inv, FitInv, [Next]_vars PROVE FitInv'
<1>1. \A i \in Tunnels : /\ tun[i] \in TunnelRecords /\ Fit(i)
                         /\ tun[i].next \in 1..(MaxUnits + 1)
                         /\ tun[i].last \in 0..MaxUnits
                         /\ tun[i].full \in Sizes
  BY TunnelFacts DEF Inv, FitInv, TunnelRecords
<1>2. /\ conns \in [Keys -> {None} \cup Tunnels]
      /\ at \in [Goroutines ->
                   {Idle} \cup [do : {"write"}, to : Tunnels, key : Keys]]
  BY DEF Inv, TypeOK
<1>3. ASSUME UNCHANGED <<tun, switched>>, mode' \in {mode, "ts"} PROVE FitInv'
  BY <1>3 DEF FitInv, Fit, Tunnels
<1>4. ASSUME NEW g \in Goroutines, Handler(g) PROVE FitInv'
  <2>1. ASSUME NEW key, New(g, key) PROVE FitInv'
    <3>1. PICK u : u = [key |-> key, pc |-> "dial", open |-> FALSE,
                        next |-> 1, last |-> MaxUnits, full |-> 1,
                        refused |-> FALSE, replaced |-> FALSE]
      OBVIOUS
    <3>2. u.pc = "dial" /\ ~u.refused
      BY <3>1
    <3>3. tun' = Append(tun, u) /\ UNCHANGED linkVars
      BY <2>1, <3>1 DEF New
    <3>4. Len(tun) \in Nat /\ Tunnels = 1..Len(tun)
      BY TunnelFacts DEF Inv
    <3>5. /\ Tunnels' = 1..(Len(tun) + 1) /\ tun'[Len(tun) + 1] = u
          /\ \A i \in Tunnels : tun'[i] = tun[i]
      BY <3>3, <3>4 DEF Tunnels, Inv, TypeOK
    <3>6. \A i \in Tunnels : Fit(i)'
      BY <1>1, <3>3, <3>5 DEF Fit, linkVars
    <3>7. PICK n : n = Len(tun) + 1
      OBVIOUS
    <3>8. Fit(n)'
      BY <3>2, <3>5, <3>7 DEF Fit, Reading
    <3>9. Tunnels' = Tunnels \cup {n}
      BY <3>4, <3>5, <3>7
    <3> QED BY <3>6, <3>8, <3>9 DEF FitInv
  <2>2. ASSUME NEW key \in Keys, Removed(key), UNCHANGED linkVars PROVE FitInv'
    BY <2>2, AllKept, RemovedKeeps DEF linkVars
  <2>3. ASSUME NEW key \in Keys, HandleData(g, key) PROVE FitInv'
    BY <1>3, <2>3 DEF HandleData, linkVars
  <2>4. ASSUME NEW key \in Keys, HandleClose(g, key) PROVE FitInv'
    BY <2>2, <2>4 DEF HandleClose
  <2>5. CASE WriteData(g)
    <3>1. CASE UNCHANGED tun
      BY <1>3, <2>5, <3>1 DEF WriteData, linkVars
    <3>2. CASE Removed(at[g].key)
      <4>1. at[g].key \in Keys
        <5>1. Idle.do # "write"
          BY DEF Idle
        <5> QED BY <1>2, <2>5, <5>1 DEF WriteData
      <4> QED BY <2>2, <2>5, <3>2, <4>1 DEF WriteData
    <3> QED BY <2>5, <3>1, <3>2 DEF WriteData
  <2> QED BY <1>4, <2>1, <2>3, <2>4, <2>5
          DEF Handler, HandleConnect, HandleWsConnect, HandleHttpFetch
<1>5. ASSUME NEW i \in Tunnels, NEW pc \in {"check", "read", "leave", "done"},
             tun' = Set(i, [pc |-> pc]), UNCHANGED linkVars,
             pc \in Reading => tun[i].pc \in Reading
      PROVE  FitInv'
  <2>1. PICK new : new = [pc |-> pc]
    OBVIOUS
  <2>2. tun' = Set(i, new) /\ DOMAIN new = {"pc"} /\ new.pc = pc
    BY <1>5, <2>1
  <2>3. Kept(i)
    <3>1. \A f \in TunnelFields :
            tun'[i][f] = IF f \in DOMAIN new THEN new[f] ELSE tun[i][f]
      BY <2>2, SetFields
    <3> QED BY <1>5, <2>2, <3>1 DEF Kept, TunnelFields
  <2>4. Fit(i)'
    BY <1>5, <2>3, KeptStep DEF linkVars
  <2> QED BY <1>5, <2>2, <2>4, OneStep
<1>6. ASSUME NEW i \in Tunnels, DialFails(i) \/ Check(i) \/ ReadError(i)
      PROVE  FitInv'
  <2>1. CASE DialFails(i)
    BY <1>5, <2>1 DEF DialFails, Reading
  <2>2. CASE Check(i)
    <3>1. PICK pc \in {"read", "leave"} :
            pc = IF tun[i].open THEN "read" ELSE "leave"
      OBVIOUS
    <3> QED BY <1>5, <2>2, <3>1 DEF Check, At, Reading
  <2>3. CASE ReadError(i)
    BY <1>5, <2>3 DEF ReadError, At, Reading
  <2> QED BY <1>6, <2>1, <2>2, <2>3
<1>7. ASSUME NEW i \in Tunnels, Register(i) PROVE FitInv'
  BY <1>7, AllKept, RegisterKeeps DEF Register, linkVars
<1>8. ASSUME NEW i \in Tunnels, Announce(i) PROVE FitInv'
  <2>1. PICK full : full = BufferSize(tun[i].key[1])
    OBVIOUS
  <2>2. PICK new : new = [pc |-> "check", full |-> full]
    OBVIOUS
  <2>3. /\ DOMAIN new = {"pc", "full"} /\ new.pc = "check" /\ new.full = full
        /\ tun' = Set(i, new) /\ UNCHANGED linkVars
    BY <1>8, <2>1, <2>2 DEF Announce
  <2>4. tun[i].pc = "announce" /\ Fit(i)
    BY <1>1, <1>8 DEF Announce, At
  <2>5. \A f \in TunnelFields :
          tun'[i][f] = IF f \in DOMAIN new THEN new[f] ELSE tun[i][f]
    BY <2>3, SetFields
  <2>6. /\ tun'[i].key = tun[i].key /\ tun'[i].full = full
        /\ tun'[i].pc = "check" /\ tun'[i].refused = tun[i].refused
    BY <2>3, <2>5 DEF TunnelFields
  <2>7. tun[i].key[1] = "tcp" /\ mode = "p2p" => full <= 2
    BY <2>1 DEF BufferSize
  <2>8. Fit(i)'
    BY <2>3, <2>4, <2>6, <2>7 DEF Fit, linkVars
  <2> QED BY <2>3, <2>8, OneStep
<1>9. ASSUME NEW i \in Tunnels, Read(i) PROVE FitInv'
  BY <1>9, PassedFits DEF Read, At
<1>10. ASSUME NEW i \in Tunnels, Fetched(i) PROVE FitInv'
  <2>1. PICK new, total, full :
          new = [pc |-> "body", last |-> total, full |-> full]
          /\ tun' = Set(i, new) /\ UNCHANGED linkVars
    BY <1>10 DEF Fetched
  <2>2. DOMAIN new = {"pc", "last", "full"} /\ new.pc = "body"
    BY <2>1
  <2>3. \A f \in TunnelFields :
          tun'[i][f] = IF f \in DOMAIN new THEN new[f] ELSE tun[i][f]
    BY <2>1, SetFields
  <2>4. /\ tun'[i].key = tun[i].key /\ tun'[i].pc = "body"
        /\ tun'[i].refused = tun[i].refused
    BY <2>2, <2>3 DEF TunnelFields
  <2>5. tun[i].key[1] # "tcp"
    BY <1>1, <1>10 DEF Fetched, TunnelRecords, Keys
  <2>6. Fit(i)'
    BY <2>4, <2>5 DEF Fit
  <2> QED BY <2>1, <2>6, OneStep
<1>11. ASSUME NEW i \in Tunnels, SendPiece(i) PROVE FitInv'
  <2>1. /\ tun[i].pc = "body" /\ tun[i].next <= tun[i].last
        /\ UNCHANGED linkVars
    BY <1>1, <1>11 DEF SendPiece, At
  <2>2. tun[i].next <= MaxUnits /\ tun[i].full \in 1..tun[i].full
    BY <1>1, <2>1, ProxyAssumption DEF Sizes
  <2>3. PICK size \in 1..tun[i].full : \E pc \in {"body", "done"} :
          tun' = Set(i, Passed(i, size, pc))
    BY <1>11, <2>2 DEF SendPiece
  <2> QED BY <2>1, <2>2, <2>3, PassedFits
<1>12. CASE (\E i \in Tunnels : Leave(i)) \/ ChannelEnds
  <2>1. switched' = switched /\ mode' \in {mode, "ts"}
    BY <1>12 DEF Leave, ChannelEnds, linkVars
  <2> QED BY <1>12, <2>1, AllKept, ClosingKeeps DEF ChannelEnds
<1>13. ASSUME NEW m \in {"ts", "p2p"}, ChannelSelect(m) PROVE FitInv'
  <2>1. UNCHANGED tun /\ mode' = m
        /\ switched' = IF m = "p2p" THEN switched \cup Sized ELSE switched
    BY <1>13 DEF ChannelSelect
  <2>2. CASE m = "ts"
    BY <1>3, <2>1, <2>2
  <2>3. CASE m = "p2p"
    <3>1. ASSUME NEW i \in Tunnels PROVE Fit(i)'
      <4>1. i \in switched' \/ (i \notin switched /\ tun[i].pc \notin Reading)
        BY <2>1, <2>3 DEF Sized, Reading
      <4> QED BY <1>1, <2>1, <4>1 DEF Fit
    <3> QED BY <2>1, <3>1 DEF FitInv, Tunnels
  <2> QED BY <2>2, <2>3
<1>14. CASE UNCHANGED vars \/ PeerOnline \/ SetSecCode \/ Verified
  BY <1>3, <1>14 DEF vars, PeerOnline, SetSecCode, Verified
<1> QED
  BY <1>4, <1>6, <1>7, <1>8, <1>9, <1>10, <1>11, <1>12, <1>13, <1>14
  DEF Next, ReadLoop

LEMMA Invariant == Spec => []Inv
<1>1. Init => Inv
  BY InvInit
<1>2. Inv /\ [Next]_vars => Inv'
  BY InvStep
<1> QED BY <1>1, <1>2, PTL DEF Spec

(* The tables name tunnels that exist, and so does a handler that looked   *)
(* one up and writes to it without the lock.                               *)
THEOREM TypeCorrect == Spec => []TypeOK
<1>1. Inv => TypeOK
  BY DEF Inv
<1> QED BY <1>1, Invariant, PTL

(* However late a dial completes and however often an id is reused, no     *)
(* table leads to a closed connection, and a connection that no table      *)
(* leads to, which nothing can close, was replaced by a request of its id. *)
THEOREM OrphanWasReplaced == Spec => []OrphansOnlyByReuse
<1>1. Inv => OrphansOnlyByReuse
  BY DEF Inv, TableInv, Listed, Reachable, OrphansOnlyByReuse
<1> QED BY <1>1, Invariant, PTL

(* Whatever sequence of losses, new apps and selections a tunnel lives     *)
(* through, only a selection of P2P after its buffer was sized makes one   *)
(* of its frames too large for the channel.                                *)
THEOREM RefusedAfterSwitch == Spec => []RefusedOnlyAfterSwitch
<1>1. Init => Inv /\ FitInv
  BY InvInit DEF Init, FitInv, Tunnels
<1>2. Inv /\ FitInv /\ [Next]_vars => (Inv /\ FitInv)'
  BY InvStep, FitStep
<1>3. FitInv => RefusedOnlyAfterSwitch
  BY DEF FitInv, Fit, RefusedOnlyAfterSwitch
<1> QED BY <1>1, <1>2, <1>3, PTL DEF Spec
=============================================================================
