-------------------------- MODULE LocalServerProofs --------------------------
(***************************************************************************)
(* Theorems about LocalServer, for any clients, ids and bounds: whoever    *)
(* controls a session will be detached from it, and an attached client is  *)
(* given everything.                                                       *)
(***************************************************************************)
EXTENDS LocalServer, WellFoundedInduction, TLAPS

-----------------------------------------------------------------------------
(* Types.                                                                  *)
Readers == [pc : {"read", "get"}]
           \cup [pc : {"cast"}, to : Nat, left : SUBSET Clients]
Life == [id : Ids, n : Nat, ctrl : SUBSET Clients, open : BOOLEAN,
         reader : Readers, waiter : {"wait", "done"}]
Places ==
  [pc : {"new", "gone", "ready", "reply"}]
  \cup [pc : {"add", "table", "drop", "ok", "history"}, id : Ids, s : Nat]
  \cup [pc : {"sendhistory"}, s : Nat, h : Nat]
  \cup [pc : {"untrack", "destroy"}, id : Ids]
  \cup [pc : {"empty", "bye"}, left : SUBSET Ids]
Feeds == [of : Nat, first : Nat, last : Nat \cup {-1}, h : Nat \cup {-1}]

TypeOK ==
  /\ life \in Seq(Life)
  /\ table \in [Ids -> Nat]
  /\ order \in Seq(Ids)
  /\ at \in [Clients -> Places]
  /\ tracked \in [Clients -> SUBSET Ids]
  /\ feed \in [Clients -> Feeds]
  /\ crossed \subseteq Clients /\ reused \subseteq Ids

-----------------------------------------------------------------------------
(* The inductive invariants.                                               *)

\* The table leads to incarnations of its ids, which pm.order lists; an id in
\* use has one incarnation, or is in reused.
TableInv ==
  /\ \A id \in Ids : table[id] # None =>
       table[id] \in Lives /\ life[table[id]].id = id /\ Contains(order, id)
  /\ \A i, j \in Lives : life[i].id = life[j].id /\ i # j => life[i].id \in reused

\* A handler that attaches looks at an incarnation of its id, a reader
\* broadcasts to one of its own.
Attaches(c) == at[c].pc \in {"add", "table", "drop", "ok", "history"}
PlaceInv ==
  /\ \A c \in Clients : Attaches(c) =>
       at[c].s \in Lives /\ life[at[c].s].id = at[c].id
  /\ \A i \in Lives : life[i].reader.pc = "cast" =>
       /\ life[i].reader.to \in Lives
       /\ life[life[i].reader.to].id = life[i].id

\* Whom a session's controllers are left to.
Kept(c, id) == \/ id \in tracked[c]
               \/ at[c].pc \in {"table", "drop"} /\ at[c].id = id
               \/ at[c].pc = "bye" /\ id \in at[c].left
\* The controllers of the listed session id.
Ctrl(id) == IF table[id] = None THEN {} ELSE life[table[id]].ctrl

\* While a takeover empties the sessions, whoever attaches counts as crossed;
\* the sessions it is through with have no other controllers.
EmptyOK(c) ==
  At(c, "empty") =>
    /\ \A d \in Clients : Attaching(d) => d \in crossed
    /\ \A id \in Ids \ at[c].left : Ctrl(id) \subseteq crossed
UntrackOK(c) == At(c, "untrack") => c \notin Ctrl(at[c].id)
KeptOK(id) == \A c \in Ctrl(id) \ crossed : Kept(c, id)
CtrlInv == /\ \A c \in Clients : EmptyOK(c) /\ UntrackOK(c)
           /\ \A id \in Ids : KeptOK(id)

\* A client that looks at a session is one of its controllers.
FeedOK(c) ==
  /\ feed[c].of # None => feed[c].of \in Lives /\ c \in life[feed[c].of].ctrl
  /\ Attaches(c) /\ ~At(c, "add") => feed[c].of \in {None, at[c].s}
  /\ At(c, "bye") => feed[c].of = None
FeedInv == \A c \in Clients : FeedOK(c)

\* The history it was given, or is about to be.
HasHistory(c, h) ==
  \/ feed[c].h = h
  \/ At(c, "sendhistory") /\ at[c].s = feed[c].of /\ at[c].h = h
Whole(c, i) ==
  LET f == feed[c]  n == life[i].n IN
  /\ f.last >= 0 /\ f.first <= n /\ (f.first = 0 <=> f.last = 0)
  /\ f.last # 0 => n = IF BeingSent(c, i) THEN f.last + 1 ELSE f.last
  /\ \A h \in Nat : HasHistory(c, h) =>
       /\ f.first <= h + 1
       /\ f.last = 0 => n = h \/ (BeingSent(c, i) /\ n = h + 1)
SeenOK(c) ==
  LET i == feed[c].of IN
  i # None /\ table[life[i].id] = i /\ life[i].id \notin reused => Whole(c, i)
SeenInv == /\ \A c \in Clients : SeenOK(c)
           /\ \A i \in Lives : life[i].reader.pc # "read" => life[i].n >= 1

-----------------------------------------------------------------------------
(* The operators of the model.                                             *)
LEMMA LifeFacts ==
  ASSUME TypeOK
  PROVE  /\ Lives = 1..Len(life) /\ Len(life) \in Nat /\ None \notin Lives
         /\ \A i \in Lives : /\ life[i] \in Life /\ i \in Nat
                             /\ life[i].id \in Ids /\ life[i].n \in Nat
                             /\ life[i].ctrl \subseteq Clients
                             /\ life[i].reader \in Readers
<1>1. /\ Lives = 1..Len(life) /\ Len(life) \in Nat
      /\ \A i \in Lives : life[i] \in Life /\ i \in Nat
  <2> HIDE DEF Life
  <2> QED BY DEF TypeOK, Lives
<1>2. \A l \in Life : /\ l.id \in Ids /\ l.n \in Nat /\ l.ctrl \subseteq Clients
                      /\ l.reader \in Readers
  BY DEF Life
<1> QED BY <1>1, <1>2 DEF None

\* One incarnation is replaced by another value of its record.
Replaced(i, l) == life' = [life EXCEPT ![i] = l]

LEMMA LifeReplaced ==
  ASSUME TypeOK, NEW i \in Lives, NEW l \in Life, Replaced(i, l)
  PROVE  /\ life' \in Seq(Life) /\ Lives' = Lives /\ life'[i] = l
         /\ \A j \in Lives \ {i} : life'[j] = life[j]
<1> HIDE DEF Life
<1> QED BY DEF TypeOK, Lives, Replaced

\* What a field of a record of Life may become.
LEMMA LifeFields ==
  ASSUME NEW l \in Life
  PROVE  /\ \A cs \in SUBSET Clients :
              LET m == [l EXCEPT !.ctrl = cs] IN
              /\ m \in Life /\ m.ctrl = cs /\ m.id = l.id /\ m.n = l.n
              /\ m.reader = l.reader
         /\ \A r \in Readers :
              LET m == [l EXCEPT !.reader = r] IN
              /\ m \in Life /\ m.reader = r /\ m.id = l.id /\ m.n = l.n
              /\ m.ctrl = l.ctrl
         /\ \A b \in BOOLEAN :
              LET m == [l EXCEPT !.open = b] IN
              /\ m \in Life /\ m.reader = l.reader /\ m.id = l.id /\ m.n = l.n
              /\ m.ctrl = l.ctrl
BY DEF Life

\* What an incarnation is, but for its controllers.
SameShell(l, m) == m.id = l.id /\ m.n = l.n /\ m.reader = l.reader

LEMMA WithoutFacts ==
  ASSUME TypeOK, TableInv, NEW id \in Ids, NEW cs \in SUBSET Clients,
         life' = Without(id, cs)
  PROVE  /\ life' \in Seq(Life) /\ Lives' = Lives
         /\ \A i \in Lives :
              /\ SameShell(life[i], life'[i])
              /\ i = table[id] => life'[i].ctrl = life[i].ctrl \ cs
              /\ i # table[id] => life'[i].ctrl = life[i].ctrl
<1>1. CASE table[id] = None
  <2>1. life' = life
    BY <1>1 DEF Without
  <2> QED BY <1>1, <2>1, LifeFacts DEF SameShell, TypeOK, Lives
<1>2. CASE table[id] # None
  <2>1. PICK i \in Lives : i = table[id]
    BY <1>2 DEF TableInv
  <2>2. PICK l \in Life : l = life[i]
    BY LifeFacts
  <2> DEFINE m == [l EXCEPT !.ctrl = l.ctrl \ cs]
  <2>3. l.ctrl \ cs \in SUBSET Clients
    BY <2>1, <2>2, LifeFacts
  <2>4. /\ m \in Life /\ m.ctrl = l.ctrl \ cs /\ m.id = l.id /\ m.n = l.n
        /\ m.reader = l.reader
    BY <2>3, LifeFields
  <2>5. Replaced(i, m)
    BY <1>2, <2>1, <2>2 DEF Without, Replaced
  <2> HIDE DEF m
  <2>6. /\ life' \in Seq(Life) /\ Lives' = Lives /\ life'[i] = m
        /\ \A j \in Lives \ {i} : life'[j] = life[j]
    BY <2>4, <2>5, LifeReplaced
  <2> QED BY <2>1, <2>2, <2>4, <2>6 DEF SameShell
<1> QED BY <1>1, <1>2

LEMMA ClosedFacts ==
  ASSUME TypeOK, NEW j \in Lives \cup {None}, life' = Closed(j)
  PROVE  /\ life' \in Seq(Life) /\ Lives' = Lives
         /\ \A i \in Lives : /\ SameShell(life[i], life'[i])
                             /\ life'[i].ctrl = life[i].ctrl
<1>1. CASE j = None
  <2>1. life' = life
    BY <1>1 DEF Closed
  <2> QED BY <2>1 DEF SameShell, TypeOK, Lives
<1>2. CASE j # None
  <2>1. j \in Lives
    BY <1>2
  <2>2. PICK l \in Life : l = life[j]
    BY <2>1, LifeFacts
  <2> DEFINE m == [l EXCEPT !.open = FALSE]
  <2>3. /\ m \in Life /\ m.ctrl = l.ctrl /\ m.id = l.id /\ m.n = l.n
        /\ m.reader = l.reader
    BY LifeFields
  <2>4. Replaced(j, m)
    BY <1>2, <2>2 DEF Closed, Replaced
  <2> HIDE DEF m
  <2>5. /\ life' \in Seq(Life) /\ Lives' = Lives /\ life'[j] = m
        /\ \A i \in Lives \ {j} : life'[i] = life[i]
    BY <2>1, <2>3, <2>4, LifeReplaced
  <2> QED BY <2>2, <2>3, <2>5 DEF SameShell
<1> QED BY <1>1, <1>2

\* A handler's places.
LEMMA PlaceFacts ==
  ASSUME NEW p \in Places
  PROVE  /\ p.pc \in {"add", "table", "drop", "ok", "history"} =>
              /\ p.id \in Ids /\ p.s \in Nat
              /\ \A x \in {"add", "table", "drop", "ok", "history"} :
                   LET q == [p EXCEPT !.pc = x] IN
                   q \in Places /\ q.pc = x /\ q.id = p.id /\ q.s = p.s
         /\ p.pc = "sendhistory" => p.s \in Nat /\ p.h \in Nat
         /\ p.pc \in {"untrack", "destroy"} => p.id \in Ids
         /\ p.pc \in {"empty", "bye"} =>
              /\ p.left \subseteq Ids
              /\ \A L \in SUBSET Ids :
                   LET q == [p EXCEPT !.left = L] IN
                   q \in Places /\ q.pc = p.pc /\ q.left = L
<1>1. CASE p \in [pc : {"add", "table", "drop", "ok", "history"}, id : Ids, s : Nat]
  BY <1>1 DEF Places
<1>2. CASE p \in [pc : {"empty", "bye"}, left : SUBSET Ids]
  BY <1>2 DEF Places
<1> QED BY <1>1, <1>2 DEF Places

\* A client's handler goes somewhere, the others stay where they are.
Moved(c) == /\ at' \in [Clients -> Places]
            /\ \A d \in Clients \ {c} : at'[d] = at[d]

LEMMA GotoFacts ==
  ASSUME TypeOK, NEW c \in Clients, NEW p \in Places, Goto(c, p)
  PROVE  Moved(c) /\ at'[c] = p
<1> HIDE DEF Places
<1> QED BY DEF TypeOK, Goto, Moved

-----------------------------------------------------------------------------
(* pm.order and the table.                                                 *)

\* A set of numbers that is not empty has a least one, which Min finds.
LEMMA MinFacts ==
  ASSUME NEW S \in SUBSET Nat, S # {}
  PROVE  Min(S) \in S
<1> DEFINE R == {ss \in Nat \X Nat : ss[1] < ss[2]}
<1>1. OpToRel(<, Nat) = R
  BY Zenon DEF OpToRel
<1>2. IsWellFoundedOn(R, Nat)
  BY <1>1, NatLessThanWellFounded
<1> HIDE DEF R
<1>3. PICK m \in S : \A y \in S : <<y, m>> \notin R
  BY <1>2, WFMin
<1>4. ASSUME NEW y \in S
      PROVE  m =< y
  <2>1. y \in Nat /\ m \in Nat
    OBVIOUS
  <2>2. y < m => <<y, m>> \in R
    BY <2>1 DEF R
  <2> QED BY <1>3, <2>1, <2>2
<1> QED BY <1>4 DEF Min

LEMMA ConcatFacts ==
  ASSUME NEW S, NEW a \in Seq(S), NEW b \in Seq(S)
  PROVE  /\ a \o b \in Seq(S) /\ Len(a \o b) = Len(a) + Len(b)
         /\ \A i \in 1..Len(a) : (a \o b)[i] = a[i]
         /\ \A i \in 1..Len(b) : (a \o b)[Len(a) + i] = b[i]
OBVIOUS

\* An element taken out of a sequence takes no other with it.
LEMMA RemoveAtFacts ==
  ASSUME NEW S, NEW q \in Seq(S), NEW k \in 1..Len(q)
  PROVE  /\ RemoveAt(q, k) \in Seq(S)
         /\ \A x \in S : x # q[k] /\ Contains(q, x) => Contains(RemoveAt(q, k), x)
<1>1. Len(q) \in Nat /\ k \in Nat /\ k >= 1 /\ k <= Len(q)
  OBVIOUS
<1>p. PICK a, b, r : /\ a = SubSeq(q, 1, k - 1)
                     /\ b = SubSeq(q, k + 1, Len(q)) /\ r = a \o b
  OBVIOUS
<1>2. /\ a \in Seq(S) /\ Len(a) = k - 1
      /\ \A i \in 1..(k - 1) : a[i] = q[i]
  BY <1>1, <1>p
<1>3. /\ b \in Seq(S) /\ Len(b) = Len(q) - k
      /\ \A i \in 1..(Len(q) - k) : b[i] = q[k + i]
  BY <1>1, <1>p
<1>a. a \in Seq(S) /\ b \in Seq(S)
  BY <1>2, <1>3
<1>4. /\ r \in Seq(S) /\ Len(r) = Len(a) + Len(b)
      /\ \A i \in 1..Len(a) : r[i] = a[i]
      /\ \A i \in 1..Len(b) : r[Len(a) + i] = b[i]
  <2>1. /\ a \o b \in Seq(S) /\ Len(a \o b) = Len(a) + Len(b)
        /\ \A i \in 1..Len(a) : (a \o b)[i] = a[i]
        /\ \A i \in 1..Len(b) : (a \o b)[Len(a) + i] = b[i]
    BY <1>a, ConcatFacts
  <2>2. r = a \o b
    BY <1>p
  <2> QED BY <2>1, <2>2, Zenon
<1>5. RemoveAt(q, k) = r
  BY <1>p DEF RemoveAt
<1>6. ASSUME NEW x \in S, x # q[k], NEW i \in 1..Len(q), q[i] = x
      PROVE  \E j \in 1..Len(r) : r[j] = x
  <2>1. CASE i < k
    <3>1. i \in 1..(k - 1) /\ i \in 1..Len(a)
      BY <1>1, <1>2, <2>1
    <3>2. r[i] = x
      BY <1>2, <1>4, <1>6, <3>1
    <3>3. i \in 1..Len(r)
      BY <1>1, <1>2, <1>3, <1>4, <3>1
    <3> QED BY <3>2, <3>3
  <2>2. CASE i > k
    <3>1. PICK j \in 1..Len(b) : i = k + j
      <4>1. i - k \in 1..Len(b) /\ i = k + (i - k)
        BY <1>1, <1>3, <2>2
      <4> QED BY <4>1
    <3>2. r[Len(a) + j] = x
      BY <1>3, <1>4, <1>6, <3>1
    <3>3. Len(a) + j \in 1..Len(r)
      BY <1>1, <1>2, <1>3, <1>4
    <3> QED BY <3>2, <3>3
  <2> QED BY <1>1, <1>6, <2>1, <2>2
<1> QED BY <1>4, <1>5, <1>6 DEF Contains

LEMMA RemovedFacts ==
  ASSUME TypeOK, NEW id \in Ids, Removed(id)
  PROVE  /\ table' \in [Ids -> Nat] /\ table'[id] = None
         /\ \A x \in Ids \ {id} :
              /\ table'[x] = table[x]
              /\ Contains(order, x) => Contains(order', x)
         /\ order' \in Seq(Ids)
<1>1. /\ table' \in [Ids -> Nat] /\ table'[id] = None
      /\ \A x \in Ids \ {id} : table'[x] = table[x]
  BY DEF Removed, TypeOK, None
<1>2. CASE Contains(order, id)
  <2> DEFINE I == {i \in 1..Len(order) : order[i] = id}
             k == SelectInSeq(order, LAMBDA x : x = id)
  <2>1. I # {} /\ I \subseteq Nat
    BY <1>2 DEF Contains
  <2>2. k = Min(I)
    BY <2>1 DEF SelectInSeq
  <2>3. k \in 1..Len(order) /\ order[k] = id
    BY <2>1, <2>2, MinFacts
  <2>4. order' = RemoveAt(order, k)
    BY <1>2 DEF Removed
  <2> HIDE DEF k
  <2> QED BY <1>1, <2>3, <2>4, RemoveAtFacts DEF TypeOK
<1>3. CASE ~Contains(order, id)
  BY <1>1, <1>3 DEF Removed, TypeOK
<1> QED BY <1>2, <1>3

-----------------------------------------------------------------------------
(* What each kind of step does to the incarnations.                        *)
ThisLife(id) == [id |-> id, n |-> 0, ctrl |-> {}, open |-> TRUE,
                 reader |-> [pc |-> "read"], waiter |-> "wait"]

LEMMA CreateFacts ==
  ASSUME TypeOK, NEW id \in Ids, Create(id)
  PROVE  /\ life' \in Seq(Life) /\ Lives' = Lives \cup {Len(life) + 1}
         /\ Len(life) + 1 \notin Lives /\ Len(life) + 1 \in Nat \ {None}
         /\ \A i \in Lives : life'[i] = life[i]
         /\ life'[Len(life) + 1] = ThisLife(id)
         /\ table' = [table EXCEPT ![id] = Len(life) + 1]
         /\ order' \in Seq(Ids) /\ Contains(order', id)
         /\ \A x \in Ids : Contains(order, x) => Contains(order', x)
<1>1. ThisLife(id) \in Life
  BY DEF ThisLife, Life, Readers
<1>2. life' = Append(life, ThisLife(id)) /\ life \in Seq(Life)
  BY DEF Create, TypeOK, ThisLife
<1>3. PICK l \in Life : l = ThisLife(id)
  BY <1>1
<1>4. /\ life' \in Seq(Life) /\ Len(life') = Len(life) + 1
      /\ Lives = 1..Len(life) /\ Lives' = 1..(Len(life) + 1)
      /\ \A i \in 1..Len(life) : life'[i] = life[i]
      /\ life'[Len(life) + 1] = l
  <2> HIDE DEF Life
  <2> QED BY <1>2, <1>3 DEF Lives
<1>5. Len(life) \in Nat
  BY LifeFacts
<1>6. order' = Append(order, id) /\ order \in Seq(Ids)
  BY DEF Create, TypeOK
<1>7. /\ order' \in Seq(Ids) /\ Len(order') = Len(order) + 1
      /\ order'[Len(order) + 1] = id /\ Len(order) \in Nat
      /\ \A i \in 1..Len(order) : order'[i] = order[i]
  BY <1>6
<1>8. /\ Contains(order', id)
      /\ \A x \in Ids : Contains(order, x) => Contains(order', x)
  BY <1>7 DEF Contains
<1>9. table' = [table EXCEPT ![id] = Len(life) + 1]
  BY <1>4 DEF Create
<1> QED BY <1>3, <1>4, <1>5, <1>7, <1>8, <1>9 DEF None

\* The reader of i goes on.
OnlyReader(i) ==
  /\ life' \in Seq(Life) /\ Lives' = Lives
  /\ life'[i].id = life[i].id /\ life'[i].ctrl = life[i].ctrl
  /\ \A j \in Lives \ {i} : life'[j] = life[j]

LEMMA ReaderFacts ==
  ASSUME TypeOK, NEW i \in Lives, NEW r \in Readers,
         life' = [life EXCEPT ![i].reader = r]
  PROVE  OnlyReader(i) /\ life'[i].reader = r /\ life'[i].n = life[i].n
<1>1. PICK l \in Life : l = life[i]
  BY LifeFacts
<1> DEFINE m == [l EXCEPT !.reader = r]
<1>2. /\ m \in Life /\ m.reader = r /\ m.id = l.id /\ m.n = l.n
      /\ m.ctrl = l.ctrl
  BY LifeFields
<1>3. Replaced(i, m)
  BY <1>1 DEF Replaced
<1> HIDE DEF m
<1>4. /\ life' \in Seq(Life) /\ Lives' = Lives /\ life'[i] = m
      /\ \A j \in Lives \ {i} : life'[j] = life[j]
  BY <1>2, <1>3, LifeReplaced
<1> QED BY <1>1, <1>2, <1>4 DEF OnlyReader, Lives

LEMMA ReadFacts ==
  ASSUME TypeOK, NEW i \in Lives, Read(i)
  PROVE  /\ OnlyReader(i) /\ life[i].reader.pc = "read"
         /\ life'[i].reader = [pc |-> "get"] /\ life'[i].n = life[i].n + 1
<1>1. PICK l \in Life : l = life[i]
  BY LifeFacts
<1> DEFINE m == [l EXCEPT !.n = l.n + 1, !.reader = [pc |-> "get"]]
<1>r. PICK r \in Readers : r = [pc |-> "get"]
  BY DEF Readers
<1>2. /\ m \in Life /\ m.reader = [pc |-> "get"] /\ m.id = l.id
      /\ m.n = l.n + 1 /\ m.ctrl = l.ctrl
  <2>1. m = [[l EXCEPT !.n = l.n + 1] EXCEPT !.reader = r]
    BY <1>r DEF Life
  <2>2. PICK k : k = [l EXCEPT !.n = l.n + 1]
    OBVIOUS
  <2>3. k \in Life /\ k.id = l.id /\ k.n = l.n + 1 /\ k.ctrl = l.ctrl
    BY <2>2 DEF Life
  <2> HIDE DEF m
  <2>4. m = [k EXCEPT !.reader = r]
    BY <2>1, <2>2
  <2> QED BY <1>r, <2>3, <2>4, LifeFields
<1>3. Replaced(i, m)
  BY <1>1 DEF Read, Replaced
<1> HIDE DEF m
<1>4. /\ life' \in Seq(Life) /\ Lives' = Lives /\ life'[i] = m
      /\ \A j \in Lives \ {i} : life'[j] = life[j]
  BY <1>2, <1>3, LifeReplaced
<1> QED BY <1>1, <1>2, <1>4 DEF OnlyReader, Lives, Read

\* The reader broadcasts: it finds a session, or none.
LEMMA GetFacts ==
  ASSUME TypeOK, TableInv, NEW i \in Lives, Get(i)
  PROVE  /\ OnlyReader(i) /\ life'[i].n = life[i].n /\ life[i].reader.pc = "get"
         /\ LET s == table[life[i].id]  r == life'[i].reader IN
            \/ s = None /\ r = [pc |-> "read"]
            \/ /\ s \in Lives /\ r.pc = "cast" /\ r.to = s
               /\ r.left = life[s].ctrl
<1> DEFINE s == table[life[i].id]
<1>1. s # None => s \in Lives /\ s \in Nat /\ life[s].ctrl \in SUBSET Clients
  BY LifeFacts DEF TableInv, TypeOK
<1>2. CASE s = None
  <2>1. [pc |-> "read"] \in Readers
    BY DEF Readers
  <2> QED BY <1>2, <2>1, ReaderFacts DEF Get
<1>3. CASE s # None
  <2>1. PICK r : r = [pc |-> "cast", to |-> s, left |-> life[s].ctrl]
    OBVIOUS
  <2>2. r \in Readers /\ r.pc = "cast" /\ r.to = s /\ r.left = life[s].ctrl
    BY <1>1, <1>3, <2>1 DEF Readers
  <2>3. life' = [life EXCEPT ![i].reader = r]
    BY <1>3, <2>1 DEF Get
  <2> HIDE DEF s
  <2>4. OnlyReader(i) /\ life'[i].reader = r /\ life'[i].n = life[i].n
    BY <2>2, <2>3, ReaderFacts
  <2> QED BY <1>1, <1>3, <2>2, <2>4 DEF Get, s
<1> QED BY <1>2, <1>3

LEMMA BroadcastFacts ==
  ASSUME TypeOK, NEW i \in Lives, Broadcast(i)
  PROVE  LET r == life[i].reader  q == life'[i].reader IN
         /\ OnlyReader(i) /\ life'[i].n = life[i].n
         /\ r.pc = "cast" /\ q.pc = "cast" /\ q.to = r.to
         /\ \E c \in Clients :
              /\ c \in r.left /\ q.left = r.left \ {c}
              /\ feed' = Given(c, r.to, i, life[i].n)
<1>1. PICK l \in Life : l = life[i]
  BY LifeFacts
<1>2. PICK r \in Readers : r = l.reader
  BY <1>1, LifeFacts
<1>3. r.pc = "cast"
  BY <1>1, <1>2 DEF Broadcast
<1>4. r \in [pc : {"cast"}, to : Nat, left : SUBSET Clients]
  BY <1>3 DEF Readers
<1>5. PICK c \in r.left :
        /\ life' = [life EXCEPT ![i].reader.left = @ \ {c}]
        /\ feed' = Given(c, r.to, i, life[i].n)
  BY <1>1, <1>2 DEF Broadcast
<1> DEFINE q == [r EXCEPT !.left = r.left \ {c}]
<1>6. q \in Readers /\ q.pc = "cast" /\ q.to = r.to /\ q.left = r.left \ {c}
  BY <1>4 DEF Readers
<1>7. life' = [life EXCEPT ![i].reader = q]
  BY <1>1, <1>2, <1>5
<1>8. c \in Clients
  BY <1>4, <1>5
<1> HIDE DEF q
<1>9. OnlyReader(i) /\ life'[i].reader = q /\ life'[i].n = life[i].n
  BY <1>6, <1>7, ReaderFacts
<1> QED BY <1>1, <1>2, <1>3, <1>5, <1>6, <1>8, <1>9

LEMMA DoneFacts ==
  ASSUME TypeOK, NEW i \in Lives, BroadcastDone(i)
  PROVE  /\ OnlyReader(i) /\ life'[i].n = life[i].n
         /\ life'[i].reader = [pc |-> "read"]
         /\ life[i].reader.pc = "cast" /\ life[i].reader.left = {}
<1>1. [pc |-> "read"] \in Readers
  BY DEF Readers
<1>2. life' = [life EXCEPT ![i].reader = [pc |-> "read"]]
  BY DEF BroadcastDone
<1> QED BY <1>1, <1>2, ReaderFacts DEF BroadcastDone

\* A handler becomes a controller of s.
LEMMA AddedFacts ==
  ASSUME TypeOK, NEW s \in Lives, NEW c \in Clients,
         life' = [life EXCEPT ![s].ctrl = @ \cup {c}]
  PROVE  /\ life' \in Seq(Life) /\ Lives' = Lives
         /\ \A i \in Lives : SameShell(life[i], life'[i])
         /\ life'[s].ctrl = life[s].ctrl \cup {c}
         /\ \A i \in Lives \ {s} : life'[i].ctrl = life[i].ctrl
<1>1. PICK l \in Life : l = life[s]
  BY LifeFacts
<1> DEFINE m == [l EXCEPT !.ctrl = l.ctrl \cup {c}]
<1>2. l.ctrl \cup {c} \in SUBSET Clients
  BY <1>1, LifeFacts
<1>3. /\ m \in Life /\ m.ctrl = l.ctrl \cup {c} /\ m.id = l.id /\ m.n = l.n
      /\ m.reader = l.reader
  BY <1>2, LifeFields
<1>4. Replaced(s, m)
  BY <1>1 DEF Replaced
<1> HIDE DEF m
<1>5. /\ life' \in Seq(Life) /\ Lives' = Lives /\ life'[s] = m
      /\ \A j \in Lives \ {s} : life'[j] = life[j]
  BY <1>3, <1>4, LifeReplaced
<1> QED BY <1>1, <1>3, <1>5 DEF SameShell

\* WaitExit closes and ends the waiter.
LEMMA ExitFacts ==
  ASSUME TypeOK, NEW j \in Lives,
         life' = [life EXCEPT ![j].open = FALSE, ![j].waiter = "done"]
  PROVE  /\ life' \in Seq(Life) /\ Lives' = Lives
         /\ \A i \in Lives : /\ SameShell(life[i], life'[i])
                             /\ life'[i].ctrl = life[i].ctrl
<1>1. PICK l \in Life : l = life[j]
  BY LifeFacts
<1> DEFINE m == [l EXCEPT !.open = FALSE, !.waiter = "done"]
<1>2. /\ m \in Life /\ m.ctrl = l.ctrl /\ m.id = l.id /\ m.n = l.n
      /\ m.reader = l.reader
  BY DEF Life
<1>3. Replaced(j, m)
  BY <1>1 DEF Replaced
<1> HIDE DEF m
<1>4. /\ life' \in Seq(Life) /\ Lives' = Lives /\ life'[j] = m
      /\ \A i \in Lives \ {j} : life'[i] = life[i]
  BY <1>2, <1>3, LifeReplaced
<1> QED BY <1>1, <1>2, <1>4 DEF SameShell

-----------------------------------------------------------------------------
(* What clients are given.                                                 *)
LEMMA FeedFields ==
  ASSUME NEW f \in Feeds
  PROVE  /\ f.of \in Nat /\ f.first \in Nat /\ f.last \in Nat \cup {-1}
         /\ f.h \in Nat \cup {-1}
         /\ \A x \in Nat :
              LET g == [f EXCEPT !.h = x] IN
              /\ g \in Feeds /\ g.of = f.of /\ g.first = f.first
              /\ g.last = f.last /\ g.h = x
         /\ \A x \in Nat : \A y \in Nat \cup {-1} :
              LET g == [f EXCEPT !.first = x, !.last = y] IN
              /\ g \in Feeds /\ g.of = f.of /\ g.first = x /\ g.last = y
              /\ g.h = f.h
BY DEF Feeds

LEMMA NoFeedFacts ==
  /\ NoFeed \in Feeds /\ NoFeed.of = None
  /\ \A s \in Nat : LET g == [NoFeed EXCEPT !.of = s] IN
       /\ g \in Feeds /\ g.of = s /\ g.first = 0 /\ g.last = 0 /\ g.h = -1
BY DEF NoFeed, Feeds, None

\* Only c is given something else.
Fed(c, f) == feed' = [feed EXCEPT ![c] = f]
LEMMA FeedReplaced ==
  ASSUME TypeOK, NEW c \in Clients, NEW f \in Feeds, Fed(c, f)
  PROVE  /\ feed' \in [Clients -> Feeds] /\ feed'[c] = f
         /\ \A d \in Clients \ {c} : feed'[d] = feed[d]
<1> HIDE DEF Feeds
<1> QED BY DEF TypeOK, Fed

LEMMA GivenFacts ==
  ASSUME TypeOK, NEW c \in Clients, NEW s, NEW i, NEW w \in Nat,
         feed' = Given(c, s, i, w)
  PROVE  /\ feed' \in [Clients -> Feeds]
         /\ \A d \in Clients : d # c \/ feed[d].of # s => feed'[d] = feed[d]
         /\ \A d \in Clients : /\ feed'[d].of = feed[d].of
                               /\ feed'[d].h = feed[d].h
         /\ feed[c].of = s =>
              /\ feed'[c].first = IF feed[c].first = 0 THEN w ELSE feed[c].first
              /\ feed'[c].last =
                   IF i = s /\ (feed[c].last = 0 \/ w = feed[c].last + 1)
                   THEN w ELSE -1
<1>0. feed \in [Clients -> Feeds]
  BY DEF TypeOK
<1>1. CASE feed[c].of # s
  BY <1>0, <1>1 DEF Given
<1>2. CASE feed[c].of = s
  <2>1. PICK f \in Feeds : f = feed[c]
    BY <1>0
  <2>2. PICK x \in Nat : x = IF f.first = 0 THEN w ELSE f.first
    BY FeedFields
  <2>3. PICK y \in Nat \cup {-1} :
          y = IF i = s /\ (f.last = 0 \/ w = f.last + 1) THEN w ELSE -1
    OBVIOUS
  <2> DEFINE g == [f EXCEPT !.first = x, !.last = y]
  <2>4. /\ g \in Feeds /\ g.of = f.of /\ g.first = x /\ g.last = y
        /\ g.h = f.h
    BY DEF Feeds
  <2>5. Fed(c, g)
    BY <1>0, <1>2, <2>1, <2>2, <2>3 DEF Given, Fed
  <2> HIDE DEF g
  <2>6. /\ feed' \in [Clients -> Feeds] /\ feed'[c] = g
        /\ \A d \in Clients \ {c} : feed'[d] = feed[d]
    BY <2>4, <2>5, FeedReplaced
  <2> QED BY <1>2, <2>1, <2>2, <2>3, <2>4, <2>6
<1> QED BY <1>1, <1>2

LEMMA DroppedFacts ==
  ASSUME TypeOK, NEW id \in Ids, NEW cs \in SUBSET Clients,
         feed' = Dropped(id, cs)
  PROVE  /\ feed' \in [Clients -> Feeds]
         /\ \A c \in Clients :
              /\ feed'[c] = feed[c] \/ feed'[c] = NoFeed
              /\ c \in cs => feed'[c].of = None \/ feed'[c].of # table[id]
<1> HIDE DEF Feeds
<1> QED BY NoFeedFacts DEF TypeOK, Dropped

-----------------------------------------------------------------------------
(* What the handlers of clients do.                                        *)
LEMMA PlaceMembers ==
  /\ Ready \in Places /\ Gone \in Places /\ [pc |-> "reply"] \in Places
  /\ \A id \in Ids, s \in Nat : [pc |-> "add", id |-> id, s |-> s] \in Places
  /\ \A s, h \in Nat : [pc |-> "sendhistory", s |-> s, h |-> h] \in Places
  /\ \A id \in Ids : /\ [pc |-> "untrack", id |-> id] \in Places
                     /\ [pc |-> "destroy", id |-> id] \in Places
  /\ \A L \in SUBSET Ids : /\ [pc |-> "empty", left |-> L] \in Places
                           /\ [pc |-> "bye", left |-> L] \in Places
BY DEF Places, Ready, Gone

Shells == <<life, table, order, reused>>

\* Steps that change nothing but where a handler is, off the way of an attach.
LEMMA PlainFacts ==
  ASSUME TypeOK, NEW c \in Clients,
         Connect(c) \/ Request(c) \/ Reply(c) \/ Leave(c)
  PROVE  /\ Moved(c) /\ at'[c].pc \in {"ready", "reply", "gone"}
         /\ \/ at[c].pc \in {"new", "ready", "reply"}
            \/ at[c].pc = "bye" /\ at[c].left = {}
         /\ UNCHANGED Shells /\ UNCHANGED <<tracked, feed, crossed>>
<1>1. PICK p \in {Ready, Gone, [pc |-> "reply"]} : Goto(c, p)
  BY DEF Connect, Request, Reply, Leave
<1>2. p \in Places /\ p.pc \in {"ready", "reply", "gone"}
  BY PlaceMembers DEF Ready, Gone
<1>3. Moved(c) /\ at'[c] = p
  BY <1>1, <1>2, GotoFacts
<1>4. /\ \/ at[c].pc \in {"new", "ready", "reply"}
         \/ at[c].pc = "bye" /\ at[c].left = {}
      /\ UNCHANGED Shells /\ UNCHANGED <<tracked, feed, crossed>>
  BY DEF Connect, Request, Reply, Leave, At, Shells, ptyVars, clientVars
<1> QED BY <1>2, <1>3, <1>4

\* One place further on the way of an attach.
Further(c, from, to) ==
  /\ Moved(c) /\ at[c].pc = from /\ at'[c].pc = to
  /\ at'[c].id = at[c].id /\ at'[c].s = at[c].s
  /\ at[c].id \in Ids /\ at[c].s \in Nat

LEMMA FurtherFacts ==
  ASSUME TypeOK, NEW c \in Clients,
         NEW from \in {"add", "table", "drop", "ok", "history"},
         NEW to \in {"add", "table", "drop", "ok", "history"},
         At(c, from), Goto(c, [at[c] EXCEPT !.pc = to])
  PROVE  Further(c, from, to)
<1>1. PICK p \in Places : p = at[c]
  BY DEF TypeOK
<1>2. p.pc = from
  BY <1>1 DEF At
<1> DEFINE q == [p EXCEPT !.pc = to]
<1>3. /\ p.id \in Ids /\ p.s \in Nat /\ q \in Places /\ q.pc = to
      /\ q.id = p.id /\ q.s = p.s
  <2>1. p \in [pc : {"add", "table", "drop", "ok", "history"}, id : Ids, s : Nat]
    BY <1>2 DEF Places
  <2>2. q \in [pc : {"add", "table", "drop", "ok", "history"}, id : Ids, s : Nat]
    BY <2>1
  <2>3. q \in Places
    BY <2>2 DEF Places
  <2> QED BY <2>1, <2>3
<1>4. Goto(c, q)
  BY <1>1
<1> HIDE DEF q
<1>5. Moved(c) /\ at'[c] = q
  BY <1>3, <1>4, GotoFacts
<1> QED BY <1>1, <1>2, <1>3, <1>5 DEF Further

LEMMA OnwardFacts ==
  ASSUME TypeOK, NEW c \in Clients
  PROVE  /\ LockTable(c) =>
              /\ Further(c, "table", "drop") /\ UNCHANGED Shells
              /\ UNCHANGED <<tracked, feed, crossed>>
         /\ Track(c) =>
              /\ Further(c, "drop", "ok") /\ UNCHANGED Shells
              /\ tracked' = [tracked EXCEPT ![c] = TrackedNow(c)]
              /\ UNCHANGED <<feed, crossed>>
         /\ SendOK(c) =>
              /\ Further(c, "ok", "history") /\ UNCHANGED Shells
              /\ UNCHANGED <<tracked, feed, crossed>>
<1>1. ASSUME LockTable(c)
      PROVE  Further(c, "table", "drop")
  BY <1>1, FurtherFacts DEF LockTable
<1>2. ASSUME Track(c)
      PROVE  Further(c, "drop", "ok")
  BY <1>2, FurtherFacts DEF Track
<1>3. ASSUME SendOK(c)
      PROVE  Further(c, "ok", "history")
  BY <1>3, FurtherFacts DEF SendOK
<1> QED BY <1>1, <1>2, <1>3 DEF LockTable, Track, SendOK, Shells, ptyVars

LEMMA AddFacts ==
  ASSUME TypeOK, PlaceInv, NEW c \in Clients, AddController(c)
  PROVE  /\ Further(c, "add", "table") /\ at[c].s \in Lives
         /\ life[at[c].s].id = at[c].id
         /\ life' \in Seq(Life) /\ Lives' = Lives
         /\ \A i \in Lives : SameShell(life[i], life'[i])
         /\ life'[at[c].s].ctrl = life[at[c].s].ctrl \cup {c}
         /\ \A i \in Lives \ {at[c].s} : life'[i].ctrl = life[i].ctrl
         /\ UNCHANGED <<table, order, reused, tracked, crossed>>
         /\ feed' \in [Clients -> Feeds]
         /\ \A d \in Clients \ {c} : feed'[d] = feed[d]
         /\ feed'[c].of = at[c].s /\ feed'[c].first = 0 /\ feed'[c].last = 0
         /\ feed'[c].h = -1
<1>1. Further(c, "add", "table")
  BY FurtherFacts DEF AddController
<1>2. PICK s \in Lives : s = at[c].s /\ life[s].id = at[c].id
  BY <1>1 DEF PlaceInv, Attaches, Further
<1>3. life' = [life EXCEPT ![s].ctrl = @ \cup {c}]
  BY <1>2 DEF AddController
<1>4. /\ life' \in Seq(Life) /\ Lives' = Lives
      /\ \A i \in Lives : SameShell(life[i], life'[i])
      /\ life'[s].ctrl = life[s].ctrl \cup {c}
      /\ \A i \in Lives \ {s} : life'[i].ctrl = life[i].ctrl
  BY <1>3, AddedFacts
<1> DEFINE g == [NoFeed EXCEPT !.of = s]
<1>5. /\ g \in Feeds /\ g.of = s /\ g.first = 0 /\ g.last = 0 /\ g.h = -1
  BY NoFeedFacts, LifeFacts
<1>6. Fed(c, g)
  BY <1>2 DEF AddController, Fed
<1> HIDE DEF g
<1>7. /\ feed' \in [Clients -> Feeds] /\ feed'[c] = g
      /\ \A d \in Clients \ {c} : feed'[d] = feed[d]
  BY <1>5, <1>6, FeedReplaced
<1>8. UNCHANGED <<table, order, reused, tracked, crossed>>
  BY DEF AddController
<1> QED BY <1>1, <1>2, <1>4, <1>5, <1>7, <1>8

LEMMA AttachFacts ==
  ASSUME TypeOK, NEW c \in Clients, NEW id \in Ids, Attach(c, id)
  PROVE  /\ Moved(c) /\ at[c].pc = "ready"
         /\ \/ at'[c].pc = "reply"
            \/ /\ at'[c].pc = "add" /\ table[id] # None
               /\ at'[c].id = id /\ at'[c].s = table[id]
         /\ UNCHANGED Shells /\ UNCHANGED <<tracked, feed>>
         /\ crossed' = IF TakingOver THEN crossed \cup {c} ELSE crossed
<1>1. table[id] \in Nat
  BY DEF TypeOK
<1>2. CASE table[id] = None
  <2>1. Goto(c, [pc |-> "reply"])
    BY <1>2 DEF Attach
  <2>2. Moved(c) /\ at'[c] = [pc |-> "reply"]
    BY <2>1, PlaceMembers, GotoFacts
  <2> QED BY <2>2 DEF Attach, At, Shells, ptyVars
<1>3. CASE table[id] # None
  <2>1. PICK p : p = [pc |-> "add", id |-> id, s |-> table[id]]
    OBVIOUS
  <2>2. p \in Places
    BY <1>1, <2>1, PlaceMembers
  <2>3. Goto(c, p)
    BY <1>3, <2>1 DEF Attach
  <2>4. Moved(c) /\ at'[c] = p
    BY <2>2, <2>3, GotoFacts
  <2>5. p.pc = "add" /\ p.id = id /\ p.s = table[id]
    BY <2>1
  <2> QED BY <1>3, <2>4, <2>5 DEF Attach, At, Shells, ptyVars
<1> QED BY <1>2, <1>3

\* cs are no controllers of id any more; table and order stay.
Detached(id, cs) == /\ life' = Without(id, cs)
                    /\ UNCHANGED <<table, order, reused, crossed>>

LEMMA DropOldFacts ==
  ASSUME TypeOK, NEW c \in Clients, DropOld(c)
  PROVE  /\ at[c].pc = "drop" /\ UNCHANGED <<at, feed>>
         /\ \E id \in Ids :
              /\ id \in tracked[c] /\ id # at[c].id /\ Detached(id, {c})
              /\ tracked' = [tracked EXCEPT ![c] = @ \ {id}]
<1>1. tracked[c] \subseteq Ids
  BY DEF TypeOK
<1>2. PICK id \in Others(c) :
        /\ life' = Without(id, {c})
        /\ tracked' = [tracked EXCEPT ![c] = @ \ {id}]
  BY DEF DropOld
<1>3. id \in Ids /\ id \in tracked[c] /\ id # at[c].id
  BY <1>1, <1>2 DEF Others
<1> QED BY <1>2, <1>3 DEF DropOld, At, Detached

\* The feed after the history was sent, or found empty.
LEMMA HistoryFeed ==
  ASSUME TypeOK, NEW c \in Clients, NEW s, NEW x \in Nat,
         feed' = [feed EXCEPT ![c] =
                    IF s = @.of THEN [@ EXCEPT !.h = x] ELSE NoFeed]
  PROVE  /\ feed' \in [Clients -> Feeds]
         /\ \A d \in Clients \ {c} : feed'[d] = feed[d]
         /\ \/ /\ s = feed[c].of /\ feed'[c].h = x /\ feed'[c].of = feed[c].of
               /\ feed'[c].first = feed[c].first
               /\ feed'[c].last = feed[c].last
            \/ feed'[c].of = None
<1>1. PICK f \in Feeds : f = feed[c]
  BY DEF TypeOK
<1> DEFINE g == [f EXCEPT !.h = x]
<1>2. /\ g \in Feeds /\ g.of = f.of /\ g.first = f.first
      /\ g.last = f.last /\ g.h = x
  BY DEF Feeds
<1>3. PICK n \in Feeds : n = NoFeed
  BY NoFeedFacts
<1>4. Fed(c, IF s = f.of THEN g ELSE n)
  BY <1>1, <1>3 DEF Fed
<1> HIDE DEF g
<1>5. CASE s = f.of
  <2>1. Fed(c, g)
    BY <1>4, <1>5
  <2> QED BY <1>1, <1>2, <1>5, <2>1, FeedReplaced
<1>6. CASE s # f.of
  <2>1. Fed(c, n)
    BY <1>4, <1>6
  <2> QED BY <1>3, <2>1, FeedReplaced, NoFeedFacts
<1> QED BY <1>5, <1>6

LEMMA GetHistoryFacts ==
  ASSUME TypeOK, TableInv, NEW c \in Clients, GetHistory(c)
  PROVE  /\ Moved(c) /\ at[c].pc = "history"
         /\ UNCHANGED Shells /\ UNCHANGED <<tracked, crossed>>
         /\ feed' \in [Clients -> Feeds]
         /\ \A d \in Clients \ {c} : feed'[d] = feed[d]
         /\ \/ /\ at'[c].pc = "ready"
               /\ \/ feed'[c].of = None
                  \/ /\ feed[c].of # None => life[feed[c].of].n = 0
                     /\ feed'[c].of = feed[c].of /\ feed'[c].h = 0
                     /\ feed'[c].first = feed[c].first
                     /\ feed'[c].last = feed[c].last
            \/ /\ at'[c].pc = "sendhistory" /\ feed'[c] = feed[c]
               /\ at'[c].s \in Lives /\ at'[c].h = life[at'[c].s].n
<1>1. PICK p \in Places : p = at[c]
  BY DEF TypeOK
<1>2. p.pc = "history" /\ p.id \in Ids
  <2>1. p.pc = "history"
    BY <1>1 DEF GetHistory, At
  <2> QED BY <2>1, PlaceFacts
<1>3. PICK s \in Nat : s = table[p.id]
  BY <1>2 DEF TypeOK
<1>4. /\ UNCHANGED Shells /\ UNCHANGED <<tracked, crossed>>
  BY DEF GetHistory, Shells, ptyVars
<1>5. s # None => s \in Lives /\ life[s].n \in Nat
  BY <1>2, <1>3, LifeFacts DEF TableInv
<1>6. CASE s = None \/ life[s].n = 0
  <2>1. /\ Goto(c, Ready)
        /\ feed' = [feed EXCEPT ![c] =
                      IF s = @.of THEN [@ EXCEPT !.h = 0] ELSE NoFeed]
    BY <1>1, <1>3, <1>6 DEF GetHistory
  <2>2. Moved(c) /\ at'[c].pc = "ready"
    BY <2>1, GotoFacts, PlaceMembers DEF Ready
  <2>3. /\ feed' \in [Clients -> Feeds]
        /\ \A d \in Clients \ {c} : feed'[d] = feed[d]
        /\ \/ /\ s = feed[c].of /\ feed'[c].h = 0
              /\ feed'[c].of = feed[c].of
              /\ feed'[c].first = feed[c].first
              /\ feed'[c].last = feed[c].last
           \/ feed'[c].of = None
    BY <2>1, HistoryFeed
  <2> QED BY <1>1, <1>2, <1>4, <1>6, <2>2, <2>3
<1>7. CASE ~(s = None \/ life[s].n = 0)
  <2>1. PICK q : q = [pc |-> "sendhistory", s |-> s, h |-> life[s].n]
    OBVIOUS
  <2>2. Goto(c, q) /\ feed' = feed
    BY <1>1, <1>3, <1>7, <2>1 DEF GetHistory
  <2>3. q \in Places
    BY <1>5, <1>7, <2>1, PlaceMembers
  <2>4. q.pc = "sendhistory" /\ q.s = s /\ q.h = life[s].n
    BY <2>1
  <2>5. Moved(c) /\ at'[c] = q
    BY <2>2, <2>3, GotoFacts
  <2> QED BY <1>1, <1>2, <1>4, <1>5, <1>7, <2>2, <2>4, <2>5 DEF TypeOK
<1> QED BY <1>6, <1>7

LEMMA SendHistoryFacts ==
  ASSUME TypeOK, NEW c \in Clients, SendHistory(c)
  PROVE  /\ Moved(c) /\ at[c].pc = "sendhistory" /\ at'[c].pc = "ready"
         /\ UNCHANGED Shells /\ UNCHANGED <<tracked, crossed>>
         /\ feed' \in [Clients -> Feeds] /\ at[c].h \in Nat
         /\ \A d \in Clients \ {c} : feed'[d] = feed[d]
         /\ \/ /\ at[c].s = feed[c].of /\ feed'[c].h = at[c].h
               /\ feed'[c].of = feed[c].of
               /\ feed'[c].first = feed[c].first
               /\ feed'[c].last = feed[c].last
            \/ feed'[c].of = None
<1>1. PICK p \in Places : p = at[c]
  BY DEF TypeOK
<1>2. p.pc = "sendhistory"
  BY <1>1 DEF SendHistory, At
<1>3. PICK s \in Nat, h \in Nat : s = p.s /\ h = p.h
  BY <1>2, PlaceFacts
<1>4. /\ Goto(c, Ready)
      /\ feed' = [feed EXCEPT ![c] =
                    IF s = @.of THEN [@ EXCEPT !.h = h] ELSE NoFeed]
  BY <1>1, <1>3 DEF SendHistory
<1>5. Moved(c) /\ at'[c].pc = "ready"
  BY <1>4, GotoFacts, PlaceMembers DEF Ready
<1>6. /\ UNCHANGED Shells /\ UNCHANGED <<tracked, crossed>>
  BY DEF SendHistory, Shells, ptyVars
<1>7. /\ feed' \in [Clients -> Feeds]
      /\ \A d \in Clients \ {c} : feed'[d] = feed[d]
      /\ \/ /\ s = feed[c].of /\ feed'[c].h = h /\ feed'[c].of = feed[c].of
            /\ feed'[c].first = feed[c].first
            /\ feed'[c].last = feed[c].last
         \/ feed'[c].of = None
  BY <1>4, HistoryFeed
<1> QED BY <1>1, <1>2, <1>3, <1>5, <1>6, <1>7

LEMMA DetachFacts ==
  ASSUME TypeOK, NEW c \in Clients, NEW id \in Ids, Detach(c, id)
  PROVE  /\ Moved(c) /\ at[c].pc = "ready"
         /\ at'[c].pc = "untrack" /\ at'[c].id = id
         /\ Detached(id, {c}) /\ feed' = Dropped(id, {c})
         /\ UNCHANGED tracked
<1>1. Goto(c, [pc |-> "untrack", id |-> id])
  BY DEF Detach
<1>2. Moved(c) /\ at'[c] = [pc |-> "untrack", id |-> id]
  BY <1>1, PlaceMembers, GotoFacts
<1> QED BY <1>2 DEF Detach, At, Detached

LEMMA DestroySessionFacts ==
  ASSUME TypeOK, NEW c \in Clients, NEW id \in Ids, DestroySession(c, id)
  PROVE  /\ Moved(c) /\ at[c].pc = "ready" /\ at'[c].pc = "destroy"
         /\ Detached(id, Clients) /\ feed' = Dropped(id, Clients)
         /\ UNCHANGED tracked
<1>1. Goto(c, [pc |-> "destroy", id |-> id])
  BY DEF DestroySession
<1>2. Moved(c) /\ at'[c] = [pc |-> "destroy", id |-> id]
  BY <1>1, PlaceMembers, GotoFacts
<1> QED BY <1>2 DEF DestroySession, At, Detached

LEMMA UntrackFacts ==
  ASSUME TypeOK, NEW c \in Clients, Untrack(c)
  PROVE  /\ Moved(c) /\ at[c].pc = "untrack" /\ at'[c].pc = "ready"
         /\ at[c].id \in Ids
         /\ UNCHANGED Shells /\ UNCHANGED <<feed, crossed>>
         /\ tracked' = [tracked EXCEPT ![c] = @ \ {at[c].id}]
<1>1. Moved(c) /\ at'[c].pc = "ready"
  BY GotoFacts, PlaceMembers DEF Untrack, Ready
<1>2. PICK p \in Places : p = at[c] /\ p.pc = "untrack"
  BY DEF TypeOK, Untrack, At
<1>3. at[c].id \in Ids
  BY <1>2, PlaceFacts
<1> QED BY <1>1, <1>2, <1>3 DEF Untrack, Shells, ptyVars

LEMMA LocalTakeoverFacts ==
  ASSUME TypeOK, NEW c \in Clients, LocalTakeover(c)
  PROVE  /\ Moved(c) /\ at[c].pc = "ready"
         /\ at'[c].pc = "empty" /\ at'[c].left = ToSet(order)
         /\ UNCHANGED Shells /\ UNCHANGED <<tracked, feed>>
         /\ crossed' = crossed \cup {d \in Clients : Attaching(d)}
<1>1. ToSet(order) \in SUBSET Ids
  BY DEF ToSet, TypeOK
<1>2. PICK p : p = [pc |-> "empty", left |-> ToSet(order)]
  OBVIOUS
<1>3. p \in Places
  BY <1>1, <1>2, PlaceMembers
<1>4. Moved(c) /\ at'[c] = p
  BY <1>2, <1>3, GotoFacts DEF LocalTakeover
<1>5. p.pc = "empty" /\ p.left = ToSet(order)
  BY <1>2
<1> QED BY <1>4, <1>5 DEF LocalTakeover, At, Shells, ptyVars

LEMMA EmptyFacts ==
  ASSUME TypeOK, NEW c \in Clients, Empty(c)
  PROVE  /\ Moved(c) /\ at[c].pc = "empty" /\ at'[c].pc = "empty"
         /\ UNCHANGED tracked
         /\ \E id \in Ids : /\ id \in at[c].left
                            /\ Detached(id, Clients) /\ feed' = Dropped(id, Clients)
                            /\ at'[c].left = at[c].left \ {id}
<1>1. PICK p \in Places : p = at[c] /\ p.pc = "empty"
  BY DEF TypeOK, Empty, At
<1>2. p.left \subseteq Ids
  BY <1>1, PlaceFacts
<1>3. PICK id \in p.left :
        /\ life' = Without(id, Clients) /\ feed' = Dropped(id, Clients)
        /\ Goto(c, [at[c] EXCEPT !.left = @ \ {id}])
  BY <1>1 DEF Empty
<1> DEFINE q == [p EXCEPT !.left = p.left \ {id}]
<1>4. p.left \ {id} \in SUBSET Ids
  BY <1>2
<1>5. q \in Places /\ q.pc = "empty" /\ q.left = p.left \ {id}
  <2>1. p \in [pc : {"empty", "bye"}, left : SUBSET Ids]
    BY <1>1 DEF Places
  <2> QED BY <1>1, <1>4, <2>1 DEF Places
<1>6. Goto(c, q)
  BY <1>1, <1>3
<1> HIDE DEF q
<1>7. Moved(c) /\ at'[c] = q
  BY <1>5, <1>6, GotoFacts
<1> QED BY <1>1, <1>2, <1>3, <1>5, <1>7 DEF Empty, Detached

LEMMA ForgetFacts ==
  ASSUME TypeOK, NEW c \in Clients, Forget(c)
  PROVE  /\ Moved(c) /\ at[c].pc = "empty" /\ at[c].left = {}
         /\ at'[c].pc = "ready"
         /\ UNCHANGED Shells /\ UNCHANGED <<feed, crossed>>
         /\ tracked' = [d \in Clients |-> {}]
<1>1. Moved(c) /\ at'[c].pc = "ready"
  BY GotoFacts, PlaceMembers DEF Forget, Ready
<1> QED BY <1>1 DEF Forget, At, Shells, ptyVars

LEMMA DisconnectFacts ==
  ASSUME TypeOK, NEW c \in Clients, Disconnect(c)
  PROVE  /\ Moved(c) /\ at[c].pc = "ready"
         /\ at'[c].pc = "bye" /\ at'[c].left = tracked[c]
         /\ UNCHANGED Shells /\ UNCHANGED crossed
         /\ tracked' = [tracked EXCEPT ![c] = {}]
         /\ feed' \in [Clients -> Feeds] /\ feed'[c].of = None
         /\ \A d \in Clients \ {c} : feed'[d] = feed[d]
<1>1. tracked[c] \in SUBSET Ids
  BY DEF TypeOK
<1>2. PICK p : p = [pc |-> "bye", left |-> tracked[c]]
  OBVIOUS
<1>3. p \in Places
  BY <1>1, <1>2, PlaceMembers
<1>4. Moved(c) /\ at'[c] = p
  BY <1>2, <1>3, GotoFacts DEF Disconnect
<1>5. p.pc = "bye" /\ p.left = tracked[c]
  BY <1>2
<1>6. PICK n \in Feeds : n = NoFeed
  BY NoFeedFacts
<1>7. Fed(c, n)
  BY <1>6 DEF Disconnect, Fed
<1>8. /\ feed' \in [Clients -> Feeds] /\ feed'[c] = n
      /\ \A d \in Clients \ {c} : feed'[d] = feed[d]
  BY <1>7, FeedReplaced
<1> QED BY <1>4, <1>5, <1>6, <1>8, NoFeedFacts
        DEF Disconnect, At, Shells, ptyVars

LEMMA DetachAllFacts ==
  ASSUME TypeOK, NEW c \in Clients, DetachAll(c)
  PROVE  /\ Moved(c) /\ at[c].pc = "bye" /\ at'[c].pc = "bye"
         /\ UNCHANGED <<tracked, feed>>
         /\ \E id \in Ids : /\ id \in at[c].left /\ Detached(id, {c})
                            /\ at'[c].left = at[c].left \ {id}
<1>1. PICK p \in Places : p = at[c] /\ p.pc = "bye"
  BY DEF TypeOK, DetachAll, At
<1>2. p.left \subseteq Ids
  BY <1>1, PlaceFacts
<1>3. PICK id \in p.left :
        /\ life' = Without(id, {c})
        /\ Goto(c, [at[c] EXCEPT !.left = @ \ {id}])
  BY <1>1 DEF DetachAll
<1> DEFINE q == [p EXCEPT !.left = p.left \ {id}]
<1>4. p.left \ {id} \in SUBSET Ids
  BY <1>2
<1>5. q \in Places /\ q.pc = "bye" /\ q.left = p.left \ {id}
  <2>1. p \in [pc : {"empty", "bye"}, left : SUBSET Ids]
    BY <1>1 DEF Places
  <2> QED BY <1>1, <1>4, <2>1 DEF Places
<1>6. Goto(c, q)
  BY <1>1, <1>3
<1> HIDE DEF q
<1>7. Moved(c) /\ at'[c] = q
  BY <1>5, <1>6, GotoFacts
<1> QED BY <1>1, <1>2, <1>3, <1>5, <1>7 DEF DetachAll, Detached

-----------------------------------------------------------------------------
(* Any step.                                                               *)
ReaderStep(i) == Read(i) \/ Get(i) \/ Broadcast(i) \/ BroadcastDone(i)

LEMMA ReaderFrame ==
  ASSUME TypeOK, TableInv, NEW i \in Lives, ReaderStep(i)
  PROVE  /\ OnlyReader(i)
         /\ UNCHANGED <<table, order, reused, at, tracked, crossed>>
         /\ feed' \in [Clients -> Feeds]
         /\ \A c \in Clients : /\ feed'[c].of = feed[c].of
                               /\ feed'[c].h = feed[c].h
<1>1. UNCHANGED <<table, order, reused, at, tracked, crossed>>
  BY DEF ReaderStep, Read, Get, Broadcast, BroadcastDone, clientVars
<1>2. CASE Broadcast(i)
  <2>1. PICK c \in Clients :
          feed' = Given(c, life[i].reader.to, i, life[i].n)
    BY <1>2, BroadcastFacts
  <2>2. life[i].n \in Nat
    BY LifeFacts
  <2>3. /\ feed' \in [Clients -> Feeds]
        /\ \A d \in Clients : /\ feed'[d].of = feed[d].of
                              /\ feed'[d].h = feed[d].h
    BY <2>1, <2>2, GivenFacts
  <2>4. OnlyReader(i)
    BY <1>2, BroadcastFacts
  <2> QED BY <1>1, <2>3, <2>4
<1>3. CASE Read(i) \/ Get(i) \/ BroadcastDone(i)
  <2>1. feed' = feed /\ feed \in [Clients -> Feeds]
    BY <1>3 DEF Read, Get, BroadcastDone, clientVars, TypeOK
  <2>2. OnlyReader(i)
    BY <1>3, ReadFacts, GetFacts, DoneFacts
  <2> QED BY <1>1, <2>1, <2>2
<1> QED BY <1>2, <1>3 DEF ReaderStep

\* id is removed from the table, perhaps by c, and its shell closed.
GoneFrom(id) ==
  /\ id \in Ids /\ Removed(id)
  /\ life' \in Seq(Life) /\ Lives' = Lives
  /\ \A i \in Lives : /\ SameShell(life[i], life'[i])
                      /\ life'[i].ctrl = life[i].ctrl
  /\ UNCHANGED <<reused, tracked, feed, crossed>>

LEMMA TableFacts ==
  ASSUME TypeOK, TableInv, NEW id \in Ids
  PROVE  /\ table[id] \in Lives \cup {None} /\ table[id] \in Nat
         /\ table[id] # None => life[table[id]].id = id
BY DEF TypeOK, TableInv

LEMMA RemovalFacts ==
  ASSUME TypeOK, TableInv
  PROVE  /\ \A id \in Ids : AppDestroys(id) => GoneFrom(id) /\ UNCHANGED at
         /\ \A i \in Lives : WaitExit(i) => GoneFrom(life[i].id) /\ UNCHANGED at
         /\ \A c \in Clients : Destroy(c) =>
              /\ GoneFrom(at[c].id) /\ Moved(c)
              /\ at[c].pc = "destroy" /\ at'[c].pc = "ready"
<1>1. ASSUME NEW id \in Ids, AppDestroys(id)
      PROVE  GoneFrom(id) /\ UNCHANGED at
  <2>1. life' = Closed(table[id])
    BY <1>1 DEF AppDestroys
  <2>2. /\ life' \in Seq(Life) /\ Lives' = Lives
        /\ \A i \in Lives : /\ SameShell(life[i], life'[i])
                            /\ life'[i].ctrl = life[i].ctrl
    BY <2>1, TableFacts, ClosedFacts
  <2> QED BY <1>1, <2>2 DEF AppDestroys, GoneFrom, clientVars
<1>2. ASSUME NEW i \in Lives, WaitExit(i)
      PROVE  GoneFrom(life[i].id) /\ UNCHANGED at
  <2>1. life' = [life EXCEPT ![i].open = FALSE, ![i].waiter = "done"]
    BY <1>2 DEF WaitExit
  <2>2. /\ life' \in Seq(Life) /\ Lives' = Lives
        /\ \A j \in Lives : /\ SameShell(life[j], life'[j])
                            /\ life'[j].ctrl = life[j].ctrl
    BY <2>1, ExitFacts
  <2>3. life[i].id \in Ids
    BY LifeFacts
  <2> QED BY <1>2, <2>2, <2>3 DEF WaitExit, RemovedAtExit, GoneFrom, clientVars
<1>3. ASSUME NEW c \in Clients, Destroy(c)
      PROVE  /\ GoneFrom(at[c].id) /\ Moved(c)
             /\ at[c].pc = "destroy" /\ at'[c].pc = "ready"
  <2>1. PICK p \in Places : p = at[c] /\ p.pc = "destroy"
    BY <1>3 DEF TypeOK, Destroy, At
  <2>2. PICK id \in Ids : id = at[c].id
    BY <2>1, PlaceFacts
  <2>3. life' = Closed(table[id]) /\ Removed(id)
    BY <1>3, <2>2 DEF Destroy
  <2>4. /\ life' \in Seq(Life) /\ Lives' = Lives
        /\ \A i \in Lives : /\ SameShell(life[i], life'[i])
                            /\ life'[i].ctrl = life[i].ctrl
    BY <2>3, TableFacts, ClosedFacts
  <2>5. Moved(c) /\ at'[c].pc = "ready"
    BY <1>3, GotoFacts, PlaceMembers DEF Destroy, Ready
  <2> QED BY <1>3, <2>1, <2>2, <2>3, <2>4, <2>5 DEF Destroy, GoneFrom
<1> QED BY <1>1, <1>2, <1>3

Plain(c) == Connect(c) \/ Request(c) \/ Reply(c) \/ Leave(c)

LEMMA StepCases ==
  ASSUME [Next]_vars
  PROVE  \/ UNCHANGED Shells /\ UNCHANGED <<at, tracked, feed, crossed>>
         \/ \E id \in Ids : Create(id) \/ AppDestroys(id)
         \/ \E i \in Lives : ReaderStep(i) \/ WaitExit(i)
         \/ \E c \in Clients :
              \/ Plain(c) \/ AddController(c) \/ LockTable(c) \/ DropOld(c)
              \/ Track(c) \/ SendOK(c) \/ GetHistory(c) \/ SendHistory(c)
              \/ Untrack(c) \/ Destroy(c) \/ Empty(c) \/ Forget(c)
              \/ DetachAll(c) \/ LocalTakeover(c) \/ Disconnect(c)
         \/ \E c \in Clients, id \in Ids :
              Attach(c, id) \/ Detach(c, id) \/ DestroySession(c, id)
<1>1. CASE UNCHANGED vars
  BY <1>1 DEF vars, Shells
<1>2. CASE Next
  <2>1. \/ Running
        \/ \E c \in Clients : Requests(c) \/ Stall(c) \/ Resume(c)
        \/ \E id \in Ids : Create(id) \/ AppDestroys(id)
        \/ \E i \in Lives : Read(i) \/ WaitExit(i)
        \/ PushState \/ Close
    BY <1>2 DEF Next
  <2>2. CASE Writer \/ PushState \/ Close \/ \E c \in Clients : Stall(c) \/ Resume(c)
    BY <2>2 DEF Writer, Take, Write, PushState, Close, Stall, Resume, Shells,
                ptyVars, clientVars
  <2>3. CASE \E c \in Clients : Handler(c) \/ Requests(c)
    BY <2>3 DEF Handler, Requests, Plain
  <2>4. CASE \E i \in Lives : Session(i) \/ Read(i) \/ WaitExit(i)
    BY <2>4 DEF Session, ReaderStep
  <2> QED BY <2>1, <2>2, <2>3, <2>4 DEF Running
<1> QED BY <1>1, <1>2

\* The controllers of one session go, and nothing else of a shell.
LEMMA DetachedFacts ==
  ASSUME TypeOK, TableInv, NEW id \in Ids, NEW cs \in SUBSET Clients,
         Detached(id, cs)
  PROVE  /\ life' \in Seq(Life) /\ Lives' = Lives
         /\ \A i \in Lives :
              /\ SameShell(life[i], life'[i])
              /\ i = table[id] => life'[i].ctrl = life[i].ctrl \ cs
              /\ i # table[id] => life'[i].ctrl = life[i].ctrl
         /\ UNCHANGED <<table, order, reused, crossed>>
BY WithoutFacts DEF Detached

-----------------------------------------------------------------------------
(* Types, the table, and the places.                                       *)
\* Most steps leave the shells where they are.
Unmoved == /\ Lives' = Lives /\ \A i \in Lives : life'[i].id = life[i].id
           /\ UNCHANGED <<table, order, reused>>

SameShells == \A i \in Lives : SameShell(life[i], life'[i])

\* The clients' side of a step that is neither a creation nor a removal.
ClientStep(c) ==
  \/ Plain(c) \/ AddController(c) \/ LockTable(c) \/ DropOld(c)
  \/ Track(c) \/ SendOK(c) \/ GetHistory(c) \/ SendHistory(c)
  \/ Untrack(c) \/ Empty(c) \/ Forget(c)
  \/ DetachAll(c) \/ LocalTakeover(c) \/ Disconnect(c)
  \/ \E id \in Ids : Attach(c, id) \/ Detach(c, id) \/ DestroySession(c, id)

LEMMA Sorted ==
  ASSUME [Next]_vars, TypeOK, TableInv
  PROVE  \/ UNCHANGED Shells /\ UNCHANGED <<at, tracked, feed, crossed>>
         \/ \E id \in Ids : Create(id)
         \/ \E id \in Ids : GoneFrom(id) /\ UNCHANGED at
         \/ \E c \in Clients : /\ GoneFrom(at[c].id) /\ Moved(c)
                               /\ at[c].pc = "destroy" /\ at'[c].pc = "ready"
         \/ \E i \in Lives : ReaderStep(i)
         \/ \E c \in Clients : ClientStep(c)
<1>1. CASE \E id \in Ids : Create(id) \/ AppDestroys(id)
  BY <1>1, RemovalFacts
<1>2. CASE \E i \in Lives : ReaderStep(i) \/ WaitExit(i)
  BY <1>2, RemovalFacts DEF GoneFrom
<1>3. CASE \E c \in Clients : Destroy(c)
  BY <1>3, RemovalFacts
<1> QED BY <1>1, <1>2, <1>3, StepCases DEF ClientStep

\* Where a handler goes.
LEMMA ClientTyped ==
  ASSUME TypeOK, TableInv, PlaceInv, NEW c \in Clients, ClientStep(c)
  PROVE  Unmoved /\ SameShells /\ TypeOK'
<1>t. /\ life \in Seq(Life) /\ table \in [Ids -> Nat] /\ order \in Seq(Ids)
      /\ at \in [Clients -> Places] /\ tracked \in [Clients -> SUBSET Ids]
      /\ feed \in [Clients -> Feeds]
      /\ crossed \subseteq Clients /\ reused \subseteq Ids
  BY DEF TypeOK
<1>s. ASSUME UNCHANGED Shells
      PROVE  /\ Unmoved /\ SameShells /\ life' \in Seq(Life)
             /\ table' \in [Ids -> Nat]
             /\ order' \in Seq(Ids) /\ reused' \subseteq Ids
  BY <1>s, <1>t DEF Shells, Unmoved, SameShells, SameShell, Lives
<1>d. ASSUME NEW id \in Ids, NEW cs \in SUBSET Clients, Detached(id, cs)
      PROVE  /\ Unmoved /\ SameShells /\ life' \in Seq(Life)
             /\ table' \in [Ids -> Nat]
             /\ order' \in Seq(Ids) /\ reused' \subseteq Ids
             /\ crossed' \subseteq Clients
  BY <1>d, <1>t, DetachedFacts DEF Unmoved, SameShells, SameShell
<1>m. Moved(c) => at' \in [Clients -> Places]
  BY DEF Moved
<1>1. CASE Plain(c)
  BY <1>1, <1>s, <1>t, <1>m, PlainFacts DEF Plain, TypeOK
<1>2. CASE AddController(c)
  BY <1>2, <1>t, <1>m, AddFacts DEF TypeOK, Unmoved, SameShells, SameShell, Further
<1>3. CASE LockTable(c) \/ SendOK(c)
  BY <1>3, <1>s, <1>t, <1>m, OnwardFacts DEF TypeOK, Further
<1>4. CASE Track(c)
  <2>1. TrackedNow(c) \in SUBSET Ids
    BY <1>4, <1>t, OnwardFacts DEF TrackedNow, Further
  <2>2. tracked' \in [Clients -> SUBSET Ids]
    BY <1>4, <1>t, <2>1, OnwardFacts
  <2> QED BY <1>4, <1>s, <1>t, <1>m, <2>2, OnwardFacts DEF TypeOK, Further
<1>5. CASE DropOld(c)
  <2>1. PICK id \in Ids : /\ Detached(id, {c})
                          /\ tracked' = [tracked EXCEPT ![c] = @ \ {id}]
    BY <1>5, DropOldFacts
  <2>2. tracked' \in [Clients -> SUBSET Ids]
    BY <1>t, <2>1
  <2>3. UNCHANGED <<at, feed>>
    BY <1>5, DropOldFacts
  <2> QED BY <1>d, <1>t, <2>1, <2>2, <2>3 DEF TypeOK
<1>6. CASE GetHistory(c) \/ SendHistory(c)
  BY <1>6, <1>s, <1>t, <1>m, GetHistoryFacts, SendHistoryFacts DEF TypeOK
<1>7. CASE Untrack(c) \/ Forget(c)
  <2>1. tracked' \in [Clients -> SUBSET Ids]
    <3>1. CASE Untrack(c)
      BY <1>t, <3>1, UntrackFacts
    <3>2. CASE Forget(c)
      BY <3>2, ForgetFacts
    <3> QED BY <1>7, <3>1, <3>2
  <2> QED BY <1>7, <1>s, <1>t, <1>m, <2>1, UntrackFacts, ForgetFacts DEF TypeOK
<1>8. CASE Empty(c)
  <2>1. PICK id \in Ids : Detached(id, Clients) /\ feed' = Dropped(id, Clients)
    BY <1>8, EmptyFacts
  <2>2. feed' \in [Clients -> Feeds]
    BY <2>1, DroppedFacts
  <2> QED BY <1>8, <1>d, <1>t, <1>m, <2>1, <2>2, EmptyFacts DEF TypeOK
<1>9. CASE DetachAll(c)
  <2>1. PICK id \in Ids : Detached(id, {c})
    BY <1>9, DetachAllFacts
  <2> QED BY <1>9, <1>d, <1>t, <1>m, <2>1, DetachAllFacts DEF TypeOK
<1>10. CASE LocalTakeover(c)
  BY <1>10, <1>s, <1>t, <1>m, LocalTakeoverFacts DEF TypeOK
<1>11. CASE Disconnect(c)
  <2>1. tracked' \in [Clients -> SUBSET Ids]
    BY <1>11, <1>t, DisconnectFacts
  <2> QED BY <1>11, <1>s, <1>t, <1>m, <2>1, DisconnectFacts DEF TypeOK
<1>12. ASSUME NEW id \in Ids, Attach(c, id)
       PROVE  Unmoved /\ SameShells /\ TypeOK'
  <2>1. crossed' \subseteq Clients
    BY <1>12, <1>t, AttachFacts
  <2> QED BY <1>12, <1>s, <1>t, <1>m, <2>1, AttachFacts DEF TypeOK
<1>13. ASSUME NEW id \in Ids, Detach(c, id)
       PROVE  Unmoved /\ SameShells /\ TypeOK'
  <2>1. /\ Detached(id, {c}) /\ feed' = Dropped(id, {c})
        /\ Moved(c) /\ UNCHANGED tracked /\ {c} \in SUBSET Clients
    BY <1>13, DetachFacts
  <2>2. feed' \in [Clients -> Feeds]
    BY <2>1, DroppedFacts
  <2> QED BY <1>d, <1>t, <1>m, <2>1, <2>2 DEF TypeOK
<1>14. ASSUME NEW id \in Ids, DestroySession(c, id)
       PROVE  Unmoved /\ SameShells /\ TypeOK'
  <2>1. /\ Detached(id, Clients) /\ feed' = Dropped(id, Clients)
        /\ Moved(c) /\ UNCHANGED tracked
    BY <1>14, DestroySessionFacts
  <2>2. feed' \in [Clients -> Feeds]
    BY <2>1, DroppedFacts
  <2> QED BY <1>d, <1>t, <1>m, <2>1, <2>2 DEF TypeOK
<1> QED BY <1>1, <1>2, <1>3, <1>4, <1>5, <1>6, <1>7, <1>8, <1>9, <1>10, <1>11,
           <1>12, <1>13, <1>14 DEF ClientStep

LEMMA TypeStep ==
  ASSUME TypeOK, TableInv, PlaceInv, [Next]_vars
  PROVE  TypeOK'
<1>1. CASE UNCHANGED Shells /\ UNCHANGED <<at, tracked, feed, crossed>>
  BY <1>1 DEF TypeOK, Shells
<1>2. ASSUME NEW id \in Ids, Create(id)
      PROVE  TypeOK'
  <2>1. table' \in [Ids -> Nat]
    BY <1>2, CreateFacts DEF TypeOK
  <2>2. reused' \subseteq Ids /\ UNCHANGED <<at, tracked, feed, crossed>>
    BY <1>2 DEF Create, TypeOK, clientVars
  <2> QED BY <1>2, <2>1, <2>2, CreateFacts DEF TypeOK
<1>3. ASSUME NEW id \in Ids, GoneFrom(id), UNCHANGED at \/ \E c \in Clients : Moved(c)
      PROVE  TypeOK'
  <2>1. at' \in [Clients -> Places]
    BY <1>3 DEF Moved, TypeOK
  <2> QED BY <1>3, <2>1, RemovedFacts DEF TypeOK, GoneFrom
<1>4. ASSUME NEW i \in Lives, ReaderStep(i)
      PROVE  TypeOK'
  BY <1>4, ReaderFrame DEF TypeOK, OnlyReader
<1>5. ASSUME NEW c \in Clients, GoneFrom(at[c].id), Moved(c)
      PROVE  TypeOK'
  BY <1>3, <1>5 DEF GoneFrom
<1> QED BY <1>1, <1>2, <1>3, <1>4, <1>5, Sorted, ClientTyped

LEMMA TableStep ==
  ASSUME TypeOK, TableInv, PlaceInv, [Next]_vars
  PROVE  TableInv'
<1>1. ASSUME Unmoved
      PROVE  TableInv'
  BY <1>1 DEF Unmoved, TableInv
<1>2. ASSUME NEW id \in Ids, Create(id)
      PROVE  TableInv'
  <2> DEFINE n == Len(life) + 1
  <2>1. /\ Lives' = Lives \cup {n} /\ n \notin Lives /\ n \in Nat \ {None}
        /\ \A i \in Lives : life'[i] = life[i]
        /\ life'[n] = ThisLife(id) /\ table' = [table EXCEPT ![id] = n]
        /\ Contains(order', id)
        /\ \A x \in Ids : Contains(order, x) => Contains(order', x)
    BY <1>2, CreateFacts
  <2>a. ThisLife(id).id = id
    BY DEF ThisLife
  <2>2. reused' = IF \E i \in Lives : life[i].id = id THEN reused \cup {id}
                  ELSE reused
    BY <1>2 DEF Create
  <2> HIDE DEF n
  <2>3. \A x \in Ids : table'[x] # None =>
          /\ table'[x] \in Lives' /\ life'[table'[x]].id = x
          /\ Contains(order', x)
    BY <2>1, <2>a DEF TableInv, TypeOK
  <2>4. ASSUME NEW i \in Lives', NEW j \in Lives',
               life'[i].id = life'[j].id, i # j
        PROVE  life'[i].id \in reused'
    <3>1. CASE i \in Lives /\ j \in Lives
      BY <2>1, <2>2, <2>4, <3>1 DEF TableInv
    <3>2. CASE i = n \/ j = n
      BY <2>1, <2>2, <2>4, <2>a, <3>2
    <3> QED BY <2>1, <3>1, <3>2
  <2> QED BY <2>3, <2>4 DEF TableInv
<1>3. ASSUME NEW id \in Ids, GoneFrom(id)
      PROVE  TableInv'
  <2>1. /\ table'[id] = None
        /\ \A x \in Ids \ {id} :
             /\ table'[x] = table[x]
             /\ Contains(order, x) => Contains(order', x)
    BY <1>3, RemovedFacts DEF GoneFrom
  <2> QED BY <1>3, <2>1 DEF GoneFrom, SameShell, TableInv
<1>4. ASSUME NEW i \in Lives, ReaderStep(i)
      PROVE  Unmoved
  BY <1>4, ReaderFrame DEF OnlyReader, Unmoved
<1>5. CASE UNCHANGED Shells
  BY <1>1, <1>5 DEF Shells, Unmoved, Lives
<1>6. ASSUME NEW c \in Clients, GoneFrom(at[c].id)
      PROVE  TableInv'
  BY <1>3, <1>6 DEF GoneFrom
<1> QED BY <1>1, <1>2, <1>3, <1>4, <1>5, <1>6, Sorted, ClientTyped

LEMMA ClientPlaces ==
  ASSUME TypeOK, TableInv, PlaceInv, NEW c \in Clients, ClientStep(c),
         NEW d \in Clients, Attaches(d)'
  PROVE  at'[d].s \in Lives /\ life[at'[d].s].id = at'[d].id
<1> DEFINE OK == at'[d].s \in Lives /\ life[at'[d].s].id = at'[d].id
           Out == at'[c].pc \in {"ready", "reply", "gone", "sendhistory",
                                 "untrack", "destroy", "empty", "bye"}
<1>0. at'[d].pc \in {"add", "table", "drop", "ok", "history"}
  BY DEF Attaches
<1>1. at'[d] = at[d] => OK
  BY DEF PlaceInv, Attaches
<1>2. Moved(c) /\ d # c => OK
  BY <1>1 DEF Moved
<1>3. Out /\ d = c => OK
  BY <1>0
<1>4. CASE Moved(c) /\ Out
  BY <1>2, <1>3, <1>4
<1>5. ASSUME NEW from \in {"add", "table", "drop", "ok", "history"},
             NEW to, Further(c, from, to)
      PROVE  OK
  BY <1>2, <1>5 DEF Further, PlaceInv, Attaches
<1>6. CASE at' = at
  BY <1>1, <1>6
<1>7. ASSUME NEW id \in Ids, Attach(c, id)
      PROVE  OK
  <2>1. Moved(c) /\ (Out \/ (/\ table[id] # None /\ at'[c].id = id
                             /\ at'[c].s = table[id]))
    BY <1>7, AttachFacts
  <2>2. table[id] # None => table[id] \in Lives /\ life[table[id]].id = id
    BY DEF TableInv
  <2> QED BY <1>2, <1>3, <2>1, <2>2
<1>8. CASE \/ Plain(c) \/ GetHistory(c) \/ SendHistory(c) \/ Untrack(c)
           \/ Forget(c) \/ LocalTakeover(c) \/ Disconnect(c)
  <2>1. Moved(c) /\ Out
    BY <1>8, PlainFacts, GetHistoryFacts, SendHistoryFacts, UntrackFacts,
       ForgetFacts, LocalTakeoverFacts, DisconnectFacts DEF Plain
  <2> QED BY <1>4, <2>1
<1>9. CASE Empty(c) \/ DetachAll(c)
  <2>1. Moved(c) /\ Out
    BY <1>9, EmptyFacts, DetachAllFacts
  <2> QED BY <1>4, <2>1
<1>10. ASSUME NEW id \in Ids, Detach(c, id) \/ DestroySession(c, id)
       PROVE  OK
  <2>1. Moved(c) /\ Out
    BY <1>10, DetachFacts, DestroySessionFacts
  <2> QED BY <1>4, <2>1
<1>11. CASE AddController(c) \/ LockTable(c) \/ Track(c) \/ SendOK(c)
  BY <1>5, <1>11, AddFacts, OnwardFacts
<1>12. CASE DropOld(c)
  BY <1>6, <1>12, DropOldFacts
<1> QED BY <1>7, <1>8, <1>9, <1>10, <1>11, <1>12 DEF ClientStep

LEMMA PlaceStep ==
  ASSUME TypeOK, TableInv, PlaceInv, [Next]_vars
  PROVE  PlaceInv'
<1> DEFINE CastsTo(i, s) == s \in Lives /\ life[s].id = life[i].id
<1>0. \A i \in Lives : life[i].reader.pc = "cast" => CastsTo(i, life[i].reader.to)
  BY DEF PlaceInv
<1>1. ASSUME Lives' = Lives, SameShells,
             \A d \in Clients : Attaches(d)' =>
               at'[d].s \in Lives /\ life[at'[d].s].id = at'[d].id
      PROVE  PlaceInv'
  BY <1>0, <1>1 DEF SameShells, SameShell, PlaceInv
<1>2. \A d \in Clients : at'[d] = at[d] /\ Attaches(d)' =>
        at'[d].s \in Lives /\ life[at'[d].s].id = at'[d].id
  BY DEF PlaceInv, Attaches
<1>3. ASSUME NEW c \in Clients, ClientStep(c)
      PROVE  PlaceInv'
  BY <1>1, <1>3, ClientPlaces, ClientTyped DEF Unmoved
<1>4. ASSUME NEW id \in Ids, GoneFrom(id),
             UNCHANGED at \/ \E c \in Clients : Moved(c) /\ at'[c].pc = "ready"
      PROVE  PlaceInv'
  <2>1. \A d \in Clients : Attaches(d)' => at'[d] = at[d]
    BY <1>4 DEF Moved, Attaches
  <2> QED BY <1>1, <1>2, <1>4, <2>1 DEF GoneFrom, SameShells
<1>5. CASE UNCHANGED Shells /\ UNCHANGED at
  BY <1>5 DEF Shells, PlaceInv, Attaches, Lives
<1>6. ASSUME NEW id \in Ids, Create(id)
      PROVE  PlaceInv'
  <2> DEFINE n == Len(life) + 1
  <2>1. /\ Lives' = Lives \cup {n} /\ n \notin Lives
        /\ \A i \in Lives : life'[i] = life[i]
        /\ life'[n] = ThisLife(id)
    BY <1>6, CreateFacts
  <2>2. ThisLife(id).reader.pc = "read"
    BY DEF ThisLife
  <2>3. UNCHANGED at
    BY <1>6 DEF Create, clientVars
  <2> HIDE DEF n
  <2>4. \A i \in Lives' : life'[i].reader.pc = "cast" =>
          /\ life'[i].reader.to \in Lives'
          /\ life'[life'[i].reader.to].id = life'[i].id
    BY <1>0, <2>1, <2>2
  <2> QED BY <1>2, <2>1, <2>3, <2>4 DEF PlaceInv
<1>7. ASSUME NEW i \in Lives, ReaderStep(i)
      PROVE  PlaceInv'
  <2>1. /\ Lives' = Lives /\ \A j \in Lives : life'[j].id = life[j].id
        /\ \A j \in Lives \ {i} : life'[j] = life[j]
        /\ UNCHANGED at
    BY <1>7, ReaderFrame DEF OnlyReader
  <2>2. life'[i].reader.pc = "cast" => CastsTo(i, life'[i].reader.to)
    <3>1. CASE Read(i) \/ BroadcastDone(i)
      BY <3>1, ReadFacts, DoneFacts
    <3>2. CASE Get(i)
      <4>1. PICK id \in Ids : id = life[i].id
        BY LifeFacts
      <4>2. table[id] # None => table[id] \in Lives /\ life[table[id]].id = id
        BY TableFacts
      <4>3. \/ life'[i].reader = [pc |-> "read"]
            \/ life'[i].reader.to = table[id] /\ table[id] \in Lives
        BY <3>2, <4>1, GetFacts
      <4>4. None \notin Lives
        BY LifeFacts
      <4> QED BY <4>1, <4>2, <4>3, <4>4
    <3>3. CASE Broadcast(i)
      BY <1>0, <3>3, BroadcastFacts
    <3> QED BY <1>7, <3>1, <3>2, <3>3 DEF ReaderStep
  <2> HIDE DEF CastsTo
  <2>3. ASSUME NEW j \in Lives, life'[j].reader.pc = "cast"
        PROVE  CastsTo(j, life'[j].reader.to)
    BY <1>0, <2>1, <2>2, <2>3
  <2>4. \A j \in Lives' : life'[j].reader.pc = "cast" =>
          /\ life'[j].reader.to \in Lives'
          /\ life'[life'[j].reader.to].id = life'[j].id
    BY <2>1, <2>3 DEF CastsTo
  <2> QED BY <1>2, <2>1, <2>4 DEF PlaceInv
<1>8. ASSUME NEW c \in Clients, GoneFrom(at[c].id), Moved(c), at'[c].pc = "ready"
      PROVE  PlaceInv'
  BY <1>4, <1>8 DEF GoneFrom
<1> QED BY <1>3, <1>4, <1>5, <1>6, <1>7, <1>8, Sorted

-----------------------------------------------------------------------------
(* The controllers.                                                        *)
LEMMA CtrlType ==
  ASSUME TypeOK, TableInv, NEW id \in Ids
  PROVE  Ctrl(id) \subseteq Clients
BY LifeFacts, TableFacts DEF Ctrl

LEMMA CtrlSame ==
  ASSUME TypeOK, TableInv, Lives' = Lives, table' = table,
         \A i \in Lives : life'[i].ctrl = life[i].ctrl, NEW id \in Ids
  PROVE  Ctrl(id)' = Ctrl(id)
BY TableFacts DEF Ctrl

LEMMA CtrlOfCreate ==
  ASSUME TypeOK, TableInv, NEW id \in Ids, Create(id), NEW x \in Ids
  PROVE  Ctrl(x)' \subseteq Ctrl(x)
<1> DEFINE n == Len(life) + 1
<1>1. /\ Lives' = Lives \cup {n} /\ n \notin Lives /\ n # None
      /\ \A i \in Lives : life'[i] = life[i]
      /\ life'[n] = ThisLife(id) /\ table' = [table EXCEPT ![id] = n]
  BY CreateFacts
<1>2. ThisLife(id).ctrl = {}
  BY DEF ThisLife
<1> HIDE DEF n
<1>3. table \in [Ids -> Nat] /\ table[x] \in Lives \cup {None}
  BY TableFacts DEF TypeOK
<1>4. CASE x = id
  BY <1>1, <1>2, <1>3, <1>4 DEF Ctrl
<1>5. CASE x # id
  BY <1>1, <1>3, <1>5 DEF Ctrl
<1> QED BY <1>4, <1>5

LEMMA CtrlOfGone ==
  ASSUME TypeOK, TableInv, NEW id \in Ids, GoneFrom(id), NEW x \in Ids
  PROVE  Ctrl(x)' \subseteq Ctrl(x)
<1>1. /\ table'[id] = None /\ (x # id => table'[x] = table[x])
      /\ \A i \in Lives : life'[i].ctrl = life[i].ctrl
  BY RemovedFacts DEF GoneFrom
<1>2. table[x] \in Lives \cup {None}
  BY TableFacts
<1> QED BY <1>1, <1>2 DEF Ctrl

LEMMA CtrlOfReader ==
  ASSUME TypeOK, TableInv, NEW i \in Lives, ReaderStep(i), NEW x \in Ids
  PROVE  Ctrl(x)' = Ctrl(x)
<1>1. /\ OnlyReader(i) /\ table' = table
  BY ReaderFrame
<1>2. Lives' = Lives /\ \A j \in Lives : life'[j].ctrl = life[j].ctrl
  BY <1>1 DEF OnlyReader
<1> QED BY <1>1, <1>2, CtrlSame

LEMMA CtrlOfDetached ==
  ASSUME TypeOK, TableInv, NEW id \in Ids, NEW cs \in SUBSET Clients,
         Detached(id, cs)
  PROVE  /\ Ctrl(id)' = Ctrl(id) \ cs
         /\ \A x \in Ids \ {id} : Ctrl(x)' = Ctrl(x)
<1>1. /\ table' = table
      /\ \A i \in Lives :
           /\ i = table[id] => life'[i].ctrl = life[i].ctrl \ cs
           /\ i # table[id] => life'[i].ctrl = life[i].ctrl
  BY DetachedFacts
<1>2. Ctrl(id)' = Ctrl(id) \ cs
  BY <1>1, TableFacts DEF Ctrl
<1>3. ASSUME NEW x \in Ids \ {id}
      PROVE  Ctrl(x)' = Ctrl(x)
  <2>1. table[x] # None => table[x] \in Lives /\ table[x] # table[id]
    BY TableFacts
  <2> QED BY <1>1, <2>1 DEF Ctrl
<1> QED BY <1>2, <1>3

LEMMA CtrlOfAdd ==
  ASSUME TypeOK, TableInv, PlaceInv, NEW c \in Clients, AddController(c),
         NEW id \in Ids, id = at[c].id
  PROVE  /\ Ctrl(id)' \subseteq Ctrl(id) \cup {c}
         /\ \A x \in Ids \ {id} : Ctrl(x)' = Ctrl(x)
<1>1. PICK s \in Lives :
        /\ s = at[c].s /\ life[s].id = id
        /\ life'[s].ctrl = life[s].ctrl \cup {c}
        /\ \A i \in Lives \ {s} : life'[i].ctrl = life[i].ctrl
        /\ table' = table
  BY AddFacts
<1>2. Ctrl(id)' \subseteq Ctrl(id) \cup {c}
  BY <1>1, TableFacts DEF Ctrl
<1>3. ASSUME NEW x \in Ids \ {id}
      PROVE  Ctrl(x)' = Ctrl(x)
  <2>1. table[x] # None => table[x] \in Lives \ {s}
    BY <1>1, TableFacts
  <2> QED BY <1>1, <2>1 DEF Ctrl
<1> QED BY <1>2, <1>3

\* Steps that nobody attaches in and no takeover begins.
Calm == /\ crossed' = crossed
        /\ \A x \in Ids : Ctrl(x)' \subseteq Ctrl(x)
        /\ \A d \in Clients :
             /\ Attaching(d)' => Attaching(d)
             /\ At(d, "empty")' => At(d, "empty") /\ at'[d].left = at[d].left
             /\ At(d, "untrack")' => /\ At(d, "untrack") /\ at'[d].id = at[d].id
                                     /\ at[d].id \in Ids
        /\ \A x \in Ids : \A d \in Ctrl(x)' \ crossed :
             Kept(d, x) => Kept(d, x)'

LEMMA CalmKeeps ==
  ASSUME CtrlInv, Calm
  PROVE  CtrlInv'
<1>1. ASSUME NEW c \in Clients PROVE EmptyOK(c)'
  BY DEF CtrlInv, EmptyOK, Calm
<1>2. ASSUME NEW c \in Clients PROVE UntrackOK(c)'
  BY DEF CtrlInv, UntrackOK, Calm
<1>3. ASSUME NEW id \in Ids PROVE KeptOK(id)'
  BY DEF CtrlInv, KeptOK, Calm
<1> QED BY <1>1, <1>2, <1>3 DEF CtrlInv

LEMMA UntrackId ==
  ASSUME TypeOK, NEW d \in Clients, At(d, "untrack")
  PROVE  at[d].id \in Ids
<1>1. PICK p \in Places : p = at[d] /\ p.pc = "untrack"
  BY DEF TypeOK, At
<1> QED BY <1>1, PlaceFacts

\* Nobody moves.
LEMMA CalmRest ==
  ASSUME TypeOK, UNCHANGED <<at, tracked, crossed>>,
         \A x \in Ids : Ctrl(x)' \subseteq Ctrl(x)
  PROVE  Calm
<1>1. \A x \in Ids, d \in Clients : Kept(d, x)' <=> Kept(d, x)
  BY DEF Kept
<1>2. \A x \in Ids : \A d \in Ctrl(x)' \ crossed : Kept(d, x) => Kept(d, x)'
  BY DEF Kept
<1>3. ASSUME NEW d \in Clients
      PROVE  /\ Attaching(d)' => Attaching(d)
             /\ At(d, "empty")' => At(d, "empty") /\ at'[d].left = at[d].left
             /\ At(d, "untrack")' => /\ At(d, "untrack") /\ at'[d].id = at[d].id
                                     /\ at[d].id \in Ids
  BY UntrackId DEF Attaching, At
<1> QED BY <1>2, <1>3 DEF Calm

\* Only c's handler moves, and neither begins to attach nor to empty.
LEMMA CalmMove ==
  ASSUME TypeOK, NEW c \in Clients, Moved(c), crossed' = crossed,
         Attaching(c)' => Attaching(c), at'[c].pc \notin {"empty", "untrack"},
         \A d \in Clients \ {c} : tracked'[d] = tracked[d],
         \A x \in Ids : Ctrl(x)' \subseteq Ctrl(x),
         \A x \in Ids : Ctrl(x) \subseteq Clients,
         \A x \in Ids : c \in Ctrl(x)' \ crossed /\ Kept(c, x) => Kept(c, x)'
  PROVE  Calm
<1>1. \A d \in Clients \ {c} : at'[d] = at[d]
  BY DEF Moved
<1>2. ASSUME NEW x \in Ids, NEW d \in Ctrl(x)' \ crossed, Kept(d, x)
      PROVE  Kept(d, x)'
  <2>1. CASE d = c
    BY <1>2, <2>1
  <2>2. CASE d # c
    <3>1. at'[d] = at[d] /\ tracked'[d] = tracked[d]
      BY <1>1, <2>2
    <3> QED BY <1>2, <3>1 DEF Kept
  <2> QED BY <2>1, <2>2
<1>3. ASSUME NEW d \in Clients
      PROVE  /\ Attaching(d)' => Attaching(d)
             /\ At(d, "empty")' => At(d, "empty") /\ at'[d].left = at[d].left
             /\ At(d, "untrack")' => /\ At(d, "untrack") /\ at'[d].id = at[d].id
                                     /\ at[d].id \in Ids
  <2>1. CASE d = c
    BY <2>1 DEF At
  <2>2. CASE d # c
    BY <1>1, <2>2, UntrackId DEF Attaching, At
  <2> QED BY <2>1, <2>2
<1> QED BY <1>2, <1>3 DEF Calm

LEMMA CtrlOfShells ==
  ASSUME UNCHANGED Shells, NEW x \in Ids
  PROVE  Ctrl(x)' = Ctrl(x)
BY DEF Shells, Ctrl

\* The steps of a client that are calm.
LEMMA CalmClients ==
  ASSUME TypeOK, TableInv, PlaceInv, CtrlInv, NEW c \in Clients,
         \/ Plain(c) \/ LockTable(c) \/ DropOld(c) \/ Track(c) \/ SendOK(c)
         \/ GetHistory(c) \/ SendHistory(c) \/ Untrack(c) \/ Disconnect(c)
         \/ DetachAll(c)
         \/ \E id \in Ids : DestroySession(c, id)
  PROVE  Calm
<1>0. \A x \in Ids : Ctrl(x) \subseteq Clients
  BY CtrlType
<1>1. CASE Plain(c)
  <2>1. /\ Moved(c) /\ at'[c].pc \in {"ready", "reply", "gone"}
        /\ \/ at[c].pc \in {"new", "ready", "reply"}
           \/ at[c].pc = "bye" /\ at[c].left = {}
        /\ UNCHANGED Shells /\ UNCHANGED <<tracked, crossed>>
    BY <1>1, PlainFacts DEF Plain
  <2>2. \A x \in Ids : Kept(c, x) => Kept(c, x)'
    BY <2>1 DEF Kept
  <2> QED BY <1>0, <2>1, <2>2, CtrlOfShells, CalmMove DEF Attaching
<1>2. CASE LockTable(c) \/ SendOK(c)
  <2>1. /\ \/ Further(c, "table", "drop") \/ Further(c, "ok", "history")
        /\ UNCHANGED Shells /\ UNCHANGED <<tracked, crossed>>
    BY <1>2, OnwardFacts
  <2>2. /\ Moved(c) /\ at'[c].id = at[c].id
        /\ \/ at[c].pc = "table" /\ at'[c].pc = "drop"
           \/ at[c].pc = "ok" /\ at'[c].pc = "history"
    BY <2>1 DEF Further
  <2>3. \A x \in Ids : Kept(c, x) => Kept(c, x)'
    BY <2>1, <2>2 DEF Kept
  <2> QED BY <1>0, <2>1, <2>2, <2>3, CtrlOfShells, CalmMove DEF Attaching
<1>3. CASE DropOld(c)
  <2>1. PICK id \in Ids :
          /\ id # at[c].id /\ Detached(id, {c})
          /\ tracked' = [tracked EXCEPT ![c] = @ \ {id}]
    BY <1>3, DropOldFacts
  <2>2. at' = at /\ at \in [Clients -> Places] /\ crossed' = crossed
    BY <1>3, <2>1, DropOldFacts DEF Detached, TypeOK
  <2>3. /\ tracked'[c] = tracked[c] \ {id}
        /\ \A d \in Clients \ {c} : tracked'[d] = tracked[d]
    BY <2>1 DEF TypeOK
  <2>4. /\ Ctrl(id)' = Ctrl(id) \ {c}
        /\ \A x \in Ids \ {id} : Ctrl(x)' = Ctrl(x)
    BY <2>1, CtrlOfDetached
  <2>5. ASSUME NEW x \in Ids, c \in Ctrl(x)', Kept(c, x)
        PROVE  Kept(c, x)'
    BY <2>2, <2>3, <2>4, <2>5 DEF Kept
  <2>6. \A x \in Ids : Ctrl(x)' \subseteq Ctrl(x)
    BY <2>4
  <2>7. at[c].pc = "drop"
    BY <1>3, DropOldFacts
  <2>8. Moved(c) /\ (Attaching(c)' => Attaching(c))
        /\ at'[c].pc \notin {"empty", "untrack"}
    BY <2>2, <2>7 DEF Moved, Attaching
  <2> QED BY <1>0, <2>2, <2>3, <2>5, <2>6, <2>8, CalmMove
<1>4. CASE Track(c)
  <2>1. /\ Further(c, "drop", "ok") /\ UNCHANGED Shells /\ crossed' = crossed
        /\ tracked' = [tracked EXCEPT ![c] = TrackedNow(c)]
    BY <1>4, OnwardFacts
  <2>2. /\ Moved(c) /\ at[c].pc = "drop" /\ at'[c].pc = "ok"
    BY <2>1 DEF Further
  <2>3. /\ tracked'[c] = tracked[c] \cup {at[c].id}
        /\ \A d \in Clients \ {c} : tracked'[d] = tracked[d]
    BY <2>1 DEF TypeOK, TrackedNow
  <2>4. \A x \in Ids : Kept(c, x) => Kept(c, x)'
    BY <2>2, <2>3 DEF Kept
  <2> QED BY <1>0, <2>1, <2>2, <2>3, <2>4, CtrlOfShells, CalmMove DEF Attaching
<1>5. CASE GetHistory(c) \/ SendHistory(c)
  <2>1. /\ Moved(c) /\ at[c].pc \in {"history", "sendhistory"}
        /\ at'[c].pc \in {"ready", "sendhistory"}
        /\ UNCHANGED Shells /\ UNCHANGED <<tracked, crossed>>
    BY <1>5, GetHistoryFacts, SendHistoryFacts
  <2>2. \A x \in Ids : Kept(c, x) => Kept(c, x)'
    BY <2>1 DEF Kept
  <2> QED BY <1>0, <2>1, <2>2, CtrlOfShells, CalmMove DEF Attaching
<1>6. CASE Untrack(c)
  <2>1. /\ Moved(c) /\ at[c].pc = "untrack" /\ at'[c].pc = "ready"
        /\ UNCHANGED Shells /\ crossed' = crossed
        /\ tracked' = [tracked EXCEPT ![c] = @ \ {at[c].id}]
    BY <1>6, UntrackFacts
  <2>2. /\ tracked'[c] = tracked[c] \ {at[c].id}
        /\ \A d \in Clients \ {c} : tracked'[d] = tracked[d]
    BY <2>1 DEF TypeOK
  <2>3. c \notin Ctrl(at[c].id)
    BY <2>1 DEF CtrlInv, UntrackOK, At
  <2>4. ASSUME NEW x \in Ids, c \in Ctrl(x)', Kept(c, x)
        PROVE  Kept(c, x)'
    <3>1. Ctrl(x)' = Ctrl(x)
      BY <2>1, CtrlOfShells
    <3>2. x # at[c].id
      BY <2>3, <2>4, <3>1
    <3> QED BY <2>1, <2>2, <2>4, <3>2 DEF Kept
  <2> QED BY <1>0, <2>1, <2>2, <2>4, CtrlOfShells, CalmMove DEF Attaching
<1>7. CASE Disconnect(c)
  <2>1. /\ Moved(c) /\ at[c].pc = "ready"
        /\ at'[c].pc = "bye" /\ at'[c].left = tracked[c]
        /\ UNCHANGED Shells /\ crossed' = crossed
        /\ tracked' = [tracked EXCEPT ![c] = {}]
    BY <1>7, DisconnectFacts
  <2>2. \A d \in Clients \ {c} : tracked'[d] = tracked[d]
    BY <2>1 DEF TypeOK
  <2>3. \A x \in Ids : Kept(c, x) => Kept(c, x)'
    BY <2>1 DEF Kept
  <2> QED BY <1>0, <2>1, <2>2, <2>3, CtrlOfShells, CalmMove DEF Attaching
<1>8. CASE DetachAll(c)
  <2>1. /\ Moved(c) /\ at[c].pc = "bye" /\ at'[c].pc = "bye"
        /\ tracked' = tracked
    BY <1>8, DetachAllFacts
  <2>2. PICK id \in Ids : /\ Detached(id, {c})
                          /\ at'[c].left = at[c].left \ {id}
    BY <1>8, DetachAllFacts
  <2>3. /\ Ctrl(id)' = Ctrl(id) \ {c}
        /\ \A x \in Ids \ {id} : Ctrl(x)' = Ctrl(x)
    BY <2>2, CtrlOfDetached
  <2>4. ASSUME NEW x \in Ids, c \in Ctrl(x)', Kept(c, x)
        PROVE  Kept(c, x)'
    BY <2>1, <2>2, <2>3, <2>4 DEF Kept
  <2>5. crossed' = crossed /\ \A x \in Ids : Ctrl(x)' \subseteq Ctrl(x)
    BY <2>2, <2>3 DEF Detached
  <2> QED BY <1>0, <2>1, <2>4, <2>5, CalmMove DEF Attaching
<1>9. ASSUME NEW id \in Ids, DestroySession(c, id)
      PROVE  Calm
  <2>1. /\ Moved(c) /\ at[c].pc = "ready" /\ at'[c].pc = "destroy"
        /\ Detached(id, Clients) /\ tracked' = tracked
    BY <1>9, DestroySessionFacts
  <2>2. /\ Ctrl(id)' = Ctrl(id) \ Clients
        /\ \A x \in Ids \ {id} : Ctrl(x)' = Ctrl(x)
    BY <2>1, CtrlOfDetached
  <2>3. crossed' = crossed /\ \A x \in Ids : Ctrl(x)' \subseteq Ctrl(x)
    BY <2>1, <2>2 DEF Detached
  <2>4. \A x \in Ids : Kept(c, x) => Kept(c, x)'
    BY <2>1 DEF Kept
  <2> QED BY <1>0, <2>1, <2>3, <2>4, CalmMove DEF Attaching
<1> QED BY <1>1, <1>2, <1>3, <1>4, <1>5, <1>6, <1>7, <1>8, <1>9

LEMMA CtrlAttach ==
  ASSUME TypeOK, TableInv, CtrlInv, NEW c \in Clients, NEW id \in Ids,
         Attach(c, id)
  PROVE  CtrlInv'
<1>1. /\ \A d \in Clients \ {c} : at'[d] = at[d]
      /\ at[c].pc = "ready" /\ at'[c].pc \in {"reply", "add"}
      /\ UNCHANGED Shells /\ tracked' = tracked
      /\ crossed' = IF TakingOver THEN crossed \cup {c} ELSE crossed
  BY AttachFacts DEF Moved
<1>2. \A x \in Ids : Ctrl(x)' = Ctrl(x)
  BY <1>1, CtrlOfShells
<1>3. ASSUME NEW d \in Clients PROVE EmptyOK(d)'
  <2>1. SUFFICES ASSUME At(d, "empty")'
                 PROVE  /\ \A e \in Clients : Attaching(e)' => e \in crossed'
                        /\ \A x \in Ids \ at'[d].left : Ctrl(x)' \subseteq crossed'
    BY DEF EmptyOK
  <2>2. d # c /\ at'[d] = at[d] /\ At(d, "empty")
    BY <1>1, <2>1 DEF At
  <2>3. crossed' = crossed \cup {c}
    BY <1>1, <2>2 DEF TakingOver
  <2>4. \A e \in Clients \ {c} : Attaching(e)' => Attaching(e)
    BY <1>1 DEF Attaching
  <2> QED BY <1>2, <2>2, <2>3, <2>4 DEF CtrlInv, EmptyOK
<1>4. ASSUME NEW d \in Clients PROVE UntrackOK(d)'
  <2>1. SUFFICES ASSUME At(d, "untrack")' PROVE d \notin Ctrl(at[d].id)' /\ at'[d] = at[d]
    BY DEF UntrackOK
  <2>2. d # c /\ at'[d] = at[d] /\ At(d, "untrack")
    BY <1>1, <2>1 DEF At
  <2>3. PICK x \in Ids : x = at[d].id
    BY <2>2, UntrackId
  <2> QED BY <1>2, <2>2, <2>3 DEF CtrlInv, UntrackOK
<1>5. ASSUME NEW x \in Ids PROVE KeptOK(x)'
  <2>1. \A d \in Clients : Kept(d, x) => Kept(d, x)'
    BY <1>1 DEF Kept
  <2>2. \A d \in Ctrl(x)' \ crossed' : d \in Ctrl(x) \ crossed /\ d \in Clients
    BY <1>1, <1>2, CtrlType
  <2> QED BY <2>1, <2>2 DEF CtrlInv, KeptOK
<1> QED BY <1>3, <1>4, <1>5 DEF CtrlInv

LEMMA CtrlAdd ==
  ASSUME TypeOK, TableInv, PlaceInv, CtrlInv, NEW c \in Clients,
         AddController(c)
  PROVE  CtrlInv'
<1>1. /\ Further(c, "add", "table") /\ crossed' = crossed /\ tracked' = tracked
  BY AddFacts
<1>2. /\ \A d \in Clients \ {c} : at'[d] = at[d]
      /\ at[c].pc = "add" /\ at'[c].pc = "table"
      /\ at'[c].id = at[c].id /\ at[c].id \in Ids
  BY <1>1 DEF Further, Moved
<1>3. PICK id \in Ids : id = at[c].id
  BY <1>2
<1>4. /\ Ctrl(id)' \subseteq Ctrl(id) \cup {c}
      /\ \A x \in Ids \ {id} : Ctrl(x)' = Ctrl(x)
  BY <1>3, CtrlOfAdd
<1>5. ASSUME NEW d \in Clients PROVE EmptyOK(d)'
  <2>1. SUFFICES ASSUME At(d, "empty")'
                 PROVE  /\ \A e \in Clients : Attaching(e)' => e \in crossed'
                        /\ \A x \in Ids \ at'[d].left : Ctrl(x)' \subseteq crossed'
    BY DEF EmptyOK
  <2>2. d # c /\ at'[d] = at[d] /\ At(d, "empty")
    BY <1>2, <2>1 DEF At
  <2>3. \A e \in Clients : Attaching(e)' => Attaching(e)
    BY <1>2 DEF Attaching
  <2>4. Attaching(c)
    BY <1>2 DEF Attaching
  <2>5. /\ \A e \in Clients : Attaching(e) => e \in crossed
        /\ \A x \in Ids \ at[d].left : Ctrl(x) \subseteq crossed
    BY <2>2 DEF CtrlInv, EmptyOK
  <2> QED BY <1>1, <1>4, <2>2, <2>3, <2>4, <2>5
<1>6. ASSUME NEW d \in Clients PROVE UntrackOK(d)'
  <2>1. SUFFICES ASSUME At(d, "untrack")'
                 PROVE  d \notin Ctrl(at[d].id)' /\ at'[d] = at[d]
    BY DEF UntrackOK
  <2>2. d # c /\ at'[d] = at[d] /\ At(d, "untrack")
    BY <1>2, <2>1 DEF At
  <2>3. PICK x \in Ids : x = at[d].id
    BY <2>2, UntrackId
  <2>4. d \notin Ctrl(x)
    BY <2>2, <2>3 DEF CtrlInv, UntrackOK
  <2>5. d \notin Ctrl(x)'
    BY <1>4, <2>2, <2>4
  <2> QED BY <2>2, <2>3, <2>5
<1>7. ASSUME NEW x \in Ids, NEW d \in Ctrl(x)' \ crossed'
      PROVE  Kept(d, x)'
  <2>1. CASE x = id /\ d = c
    BY <1>2, <1>3, <2>1 DEF Kept
  <2>2. CASE ~(x = id /\ d = c)
    <3>1. d \in Ctrl(x) \ crossed /\ d \in Clients
      BY <1>1, <1>4, <1>7, <2>2, CtrlType
    <3>2. Kept(d, x)
      BY <3>1 DEF CtrlInv, KeptOK
    <3> QED BY <1>1, <1>2, <3>1, <3>2 DEF Kept
  <2> QED BY <2>1, <2>2
<1>8. \A x \in Ids : KeptOK(x)'
  BY <1>7 DEF KeptOK
<1> QED BY <1>5, <1>6, <1>8 DEF CtrlInv

LEMMA CtrlDetach ==
  ASSUME TypeOK, TableInv, CtrlInv, NEW c \in Clients, NEW id \in Ids,
         Detach(c, id)
  PROVE  CtrlInv'
<1>1. /\ \A d \in Clients \ {c} : at'[d] = at[d]
      /\ at[c].pc = "ready" /\ at'[c].pc = "untrack" /\ at'[c].id = id
      /\ Detached(id, {c}) /\ tracked' = tracked
  BY DetachFacts DEF Moved
<1>2. /\ Ctrl(id)' = Ctrl(id) \ {c}
      /\ \A x \in Ids \ {id} : Ctrl(x)' = Ctrl(x)
      /\ crossed' = crossed
  BY <1>1, CtrlOfDetached DEF Detached
<1>3. \A x \in Ids : Ctrl(x)' \subseteq Ctrl(x)
  BY <1>2
<1>4. ASSUME NEW d \in Clients PROVE EmptyOK(d)'
  <2>1. At(d, "empty")' => At(d, "empty") /\ at'[d] = at[d]
    BY <1>1 DEF At
  <2>2. \A e \in Clients : Attaching(e)' => Attaching(e)
    BY <1>1 DEF Attaching
  <2> QED BY <1>2, <1>3, <2>1, <2>2 DEF CtrlInv, EmptyOK
<1>5. ASSUME NEW d \in Clients PROVE UntrackOK(d)'
  <2>1. CASE d = c
    BY <1>1, <1>2, <2>1 DEF UntrackOK
  <2>2. CASE d # c
    <3>1. SUFFICES ASSUME At(d, "untrack")' PROVE d \notin Ctrl(at[d].id)' /\ at'[d] = at[d]
      BY DEF UntrackOK
    <3>2. at'[d] = at[d] /\ At(d, "untrack")
      BY <1>1, <2>2, <3>1 DEF At
    <3>3. PICK x \in Ids : x = at[d].id
      BY <3>2, UntrackId
    <3> QED BY <1>3, <3>2, <3>3 DEF CtrlInv, UntrackOK
  <2> QED BY <2>1, <2>2
<1>6. ASSUME NEW x \in Ids PROVE KeptOK(x)'
  <2>1. \A d \in Clients : Kept(d, x) => Kept(d, x)'
    BY <1>1 DEF Kept
  <2>2. \A d \in Ctrl(x)' \ crossed' : d \in Ctrl(x) \ crossed /\ d \in Clients
    BY <1>2, <1>3, CtrlType
  <2> QED BY <2>1, <2>2 DEF CtrlInv, KeptOK
<1> QED BY <1>4, <1>5, <1>6 DEF CtrlInv

LEMMA CtrlTakeover ==
  ASSUME TypeOK, TableInv, CtrlInv, NEW c \in Clients, LocalTakeover(c)
  PROVE  CtrlInv'
<1>1. /\ \A d \in Clients \ {c} : at'[d] = at[d]
      /\ at[c].pc = "ready" /\ at'[c].pc = "empty"
      /\ at'[c].left = ToSet(order)
      /\ UNCHANGED Shells /\ tracked' = tracked
      /\ crossed' = crossed \cup {d \in Clients : Attaching(d)}
  BY LocalTakeoverFacts DEF Moved
<1>2. \A x \in Ids : Ctrl(x)' = Ctrl(x)
  BY <1>1, CtrlOfShells
<1>3. \A e \in Clients : Attaching(e)' => e \in crossed'
  BY <1>1 DEF Attaching
<1>4. ASSUME NEW d \in Clients PROVE EmptyOK(d)'
  <2>1. CASE d = c
    <3>1. ASSUME NEW x \in Ids \ ToSet(order)
          PROVE  Ctrl(x) = {}
      <4>1. ~Contains(order, x)
        BY DEF ToSet, Contains, TypeOK
      <4> QED BY <4>1 DEF TableInv, Ctrl
    <3> QED BY <1>1, <1>2, <1>3, <2>1, <3>1 DEF EmptyOK
  <2>2. CASE d # c
    <3>1. SUFFICES ASSUME At(d, "empty")'
                   PROVE  \A x \in Ids \ at'[d].left : Ctrl(x)' \subseteq crossed'
      BY <1>3 DEF EmptyOK
    <3>2. at'[d] = at[d] /\ At(d, "empty")
      BY <1>1, <2>2, <3>1 DEF At
    <3> QED BY <1>1, <1>2, <3>2 DEF CtrlInv, EmptyOK
  <2> QED BY <2>1, <2>2
<1>5. ASSUME NEW d \in Clients PROVE UntrackOK(d)'
  <2>1. SUFFICES ASSUME At(d, "untrack")' PROVE d \notin Ctrl(at[d].id)' /\ at'[d] = at[d]
    BY DEF UntrackOK
  <2>2. at'[d] = at[d] /\ At(d, "untrack")
    BY <1>1, <2>1 DEF At
  <2>3. PICK x \in Ids : x = at[d].id
    BY <2>2, UntrackId
  <2> QED BY <1>2, <2>2, <2>3 DEF CtrlInv, UntrackOK
<1>6. ASSUME NEW x \in Ids PROVE KeptOK(x)'
  <2>1. \A d \in Clients : Kept(d, x) => Kept(d, x)'
    BY <1>1 DEF Kept
  <2>2. \A d \in Ctrl(x)' \ crossed' : d \in Ctrl(x) \ crossed /\ d \in Clients
    BY <1>1, <1>2, CtrlType
  <2> QED BY <2>1, <2>2 DEF CtrlInv, KeptOK
<1> QED BY <1>4, <1>5, <1>6 DEF CtrlInv

LEMMA CtrlEmpty ==
  ASSUME TypeOK, TableInv, CtrlInv, NEW c \in Clients, Empty(c)
  PROVE  CtrlInv'
<1>1. PICK id \in Ids : /\ id \in at[c].left
                        /\ Detached(id, Clients)
                        /\ at'[c].left = at[c].left \ {id}
  BY EmptyFacts
<1>2. /\ \A d \in Clients \ {c} : at'[d] = at[d]
      /\ at[c].pc = "empty" /\ at'[c].pc = "empty"
      /\ tracked' = tracked /\ crossed' = crossed
  BY <1>1, EmptyFacts DEF Moved, Detached
<1>3. /\ Ctrl(id)' = {}
      /\ \A x \in Ids \ {id} : Ctrl(x)' = Ctrl(x)
  <2>1. /\ Ctrl(id)' = Ctrl(id) \ Clients
        /\ \A x \in Ids \ {id} : Ctrl(x)' = Ctrl(x)
    BY <1>1, CtrlOfDetached
  <2> QED BY <2>1, CtrlType
<1>4. ASSUME NEW d \in Clients PROVE EmptyOK(d)'
  <2>1. SUFFICES ASSUME At(d, "empty")'
                 PROVE  /\ \A e \in Clients : Attaching(e)' => e \in crossed'
                        /\ \A x \in Ids \ at'[d].left : Ctrl(x)' \subseteq crossed'
    BY DEF EmptyOK
  <2>2. At(d, "empty") /\ (Ids \ at'[d].left) \ {id} \subseteq Ids \ at[d].left
    BY <1>1, <1>2, <2>1 DEF At
  <2>3. \A e \in Clients : Attaching(e)' => Attaching(e)
    BY <1>2 DEF Attaching
  <2>4. /\ \A e \in Clients : Attaching(e) => e \in crossed
        /\ \A x \in Ids \ at[d].left : Ctrl(x) \subseteq crossed
    BY <2>2 DEF CtrlInv, EmptyOK
  <2> QED BY <1>2, <1>3, <2>2, <2>3, <2>4
<1>5. ASSUME NEW d \in Clients PROVE UntrackOK(d)'
  <2>1. SUFFICES ASSUME At(d, "untrack")' PROVE d \notin Ctrl(at[d].id)' /\ at'[d] = at[d]
    BY DEF UntrackOK
  <2>2. at'[d] = at[d] /\ At(d, "untrack")
    BY <1>2, <2>1 DEF At
  <2>3. PICK x \in Ids : x = at[d].id
    BY <2>2, UntrackId
  <2> QED BY <1>3, <2>2, <2>3 DEF CtrlInv, UntrackOK
<1>6. ASSUME NEW x \in Ids PROVE KeptOK(x)'
  <2>1. \A d \in Clients : Kept(d, x) => Kept(d, x)'
    BY <1>2 DEF Kept
  <2>2. \A d \in Ctrl(x)' \ crossed' : d \in Ctrl(x) \ crossed /\ d \in Clients
    BY <1>2, <1>3, CtrlType
  <2> QED BY <2>1, <2>2 DEF CtrlInv, KeptOK
<1> QED BY <1>4, <1>5, <1>6 DEF CtrlInv

\* The tables are cleared when every controller left has crossed.
LEMMA CtrlForget ==
  ASSUME TypeOK, TableInv, CtrlInv, NEW c \in Clients, Forget(c)
  PROVE  CtrlInv'
<1>1. /\ \A d \in Clients \ {c} : at'[d] = at[d]
      /\ at[c].pc = "empty" /\ at[c].left = {} /\ at'[c].pc = "ready"
      /\ UNCHANGED Shells /\ crossed' = crossed
  BY ForgetFacts DEF Moved
<1>2. \A x \in Ids : Ctrl(x)' = Ctrl(x)
  BY <1>1, CtrlOfShells
<1>3. \A x \in Ids : Ctrl(x) \subseteq crossed
  BY <1>1 DEF CtrlInv, EmptyOK, At
<1>4. ASSUME NEW d \in Clients PROVE EmptyOK(d)'
  <2>1. At(d, "empty")' => At(d, "empty") /\ at'[d] = at[d]
    BY <1>1 DEF At
  <2>2. \A e \in Clients : Attaching(e)' => Attaching(e)
    BY <1>1 DEF Attaching
  <2> QED BY <1>1, <1>2, <2>1, <2>2 DEF CtrlInv, EmptyOK
<1>5. ASSUME NEW d \in Clients PROVE UntrackOK(d)'
  <2>1. SUFFICES ASSUME At(d, "untrack")' PROVE d \notin Ctrl(at[d].id)' /\ at'[d] = at[d]
    BY DEF UntrackOK
  <2>2. at'[d] = at[d] /\ At(d, "untrack")
    BY <1>1, <2>1 DEF At
  <2>3. PICK x \in Ids : x = at[d].id
    BY <2>2, UntrackId
  <2> QED BY <1>2, <2>2, <2>3 DEF CtrlInv, UntrackOK
<1>6. \A x \in Ids : KeptOK(x)'
  BY <1>1, <1>2, <1>3 DEF KeptOK
<1> QED BY <1>4, <1>5, <1>6 DEF CtrlInv

LEMMA CtrlStep ==
  ASSUME TypeOK, TableInv, PlaceInv, CtrlInv, [Next]_vars
  PROVE  CtrlInv'
<1>1. CASE UNCHANGED Shells /\ UNCHANGED <<at, tracked, feed, crossed>>
  <2>1. Calm
    BY <1>1, CtrlOfShells, CalmRest
  <2> QED BY <2>1, CalmKeeps
<1>2. ASSUME NEW id \in Ids, Create(id)
      PROVE  CtrlInv'
  <2>1. UNCHANGED <<at, tracked, crossed>>
    BY <1>2 DEF Create, clientVars
  <2>2. Calm
    BY <1>2, <2>1, CtrlOfCreate, CalmRest
  <2> QED BY <2>2, CalmKeeps
<1>3. ASSUME NEW id \in Ids, GoneFrom(id), UNCHANGED at
      PROVE  CtrlInv'
  <2>1. Calm
    BY <1>3, CtrlOfGone, CalmRest DEF GoneFrom
  <2> QED BY <2>1, CalmKeeps
<1>4. ASSUME NEW c \in Clients, GoneFrom(at[c].id), Moved(c),
             at[c].pc = "destroy", at'[c].pc = "ready"
      PROVE  CtrlInv'
  <2>1. \A x \in Ids : Ctrl(x)' \subseteq Ctrl(x) /\ Ctrl(x) \subseteq Clients
    BY <1>4, CtrlOfGone, CtrlType DEF GoneFrom
  <2>2. tracked' = tracked /\ crossed' = crossed
    BY <1>4 DEF GoneFrom
  <2>3. \A x \in Ids : Kept(c, x) => Kept(c, x)'
    BY <1>4, <2>2 DEF Kept
  <2>4. Calm
    BY <1>4, <2>1, <2>2, <2>3, CalmMove DEF Attaching
  <2> QED BY <2>4, CalmKeeps
<1>5. ASSUME NEW i \in Lives, ReaderStep(i)
      PROVE  CtrlInv'
  <2>1. Calm
    BY <1>5, CtrlOfReader, ReaderFrame, CalmRest
  <2> QED BY <2>1, CalmKeeps
<1>6. ASSUME NEW c \in Clients, ClientStep(c)
      PROVE  CtrlInv'
  BY <1>6, CalmClients, CalmKeeps, CtrlAttach, CtrlAdd, CtrlDetach,
     CtrlTakeover, CtrlEmpty, CtrlForget DEF ClientStep
<1> QED BY <1>1, <1>2, <1>3, <1>4, <1>5, <1>6, Sorted

-----------------------------------------------------------------------------
(* What clients look at.                                                   *)
\* Nobody looks at something else, and a controller that does stays one.
StillFed(d) ==
  \/ feed'[d].of = None
  \/ /\ feed'[d].of = feed[d].of
     /\ feed[d].of \in Lives => /\ feed[d].of \in Lives'
                                /\ \/ d \notin life[feed[d].of].ctrl
                                   \/ d \in life'[feed[d].of].ctrl

LEMMA FeedOthers ==
  ASSUME NEW d \in Clients, FeedOK(d), at'[d] = at[d], StillFed(d)
  PROVE  FeedOK(d)'
BY DEF FeedOK, StillFed, Attaches, At

\* The one that moves: off the way of an attach, or one place further on it.
LEMMA FeedMover ==
  ASSUME NEW c \in Clients, FeedOK(c), StillFed(c),
         at'[c].pc # "bye" \/ feed'[c].of = None,
         \/ at'[c].pc \notin {"table", "drop", "ok", "history"}
         \/ Attaches(c) /\ ~At(c, "add") /\ at'[c].s = at[c].s
  PROVE  FeedOK(c)'
BY DEF FeedOK, StillFed, Attaches, At

LEMMA FeedClients ==
  ASSUME TypeOK, TableInv, PlaceInv, FeedInv, NEW c \in Clients, ClientStep(c)
  PROVE  FeedInv'
<1>0. \A d \in Clients : FeedOK(d)
  BY DEF FeedInv, FeedOK
<1>s. ASSUME UNCHANGED Shells, NEW d \in Clients,
             feed'[d].of = feed[d].of \/ feed'[d].of = None
      PROVE  StillFed(d)
  BY <1>s DEF Shells, StillFed, Lives
<1>d. ASSUME NEW id \in Ids, NEW cs \in SUBSET Clients, Detached(id, cs),
             NEW d \in Clients,
             \/ feed'[d].of = None
             \/ feed'[d].of = feed[d].of /\ (d \notin cs \/ feed[d].of # table[id])
      PROVE  StillFed(d)
  BY <1>d, DetachedFacts DEF StillFed
<1>q. ASSUME \A d \in Clients : FeedOK(d)'
      PROVE  FeedInv'
  BY <1>q DEF FeedInv, FeedOK
<1>m. ASSUME Moved(c), \A d \in Clients \ {c} : StillFed(d), FeedOK(c)'
      PROVE  FeedInv'
  <2>1. \A d \in Clients \ {c} : FeedOK(d)'
    BY <1>0, <1>m, FeedOthers DEF Moved
  <2> QED BY <1>m, <1>q, <2>1
<1>1. CASE Plain(c) \/ Untrack(c) \/ Forget(c) \/ LocalTakeover(c)
  <2>1. /\ Moved(c) /\ UNCHANGED Shells /\ UNCHANGED feed
        /\ at'[c].pc \in {"ready", "reply", "gone", "empty"}
    BY <1>1, PlainFacts, UntrackFacts, ForgetFacts, LocalTakeoverFacts DEF Plain
  <2>2. \A d \in Clients : StillFed(d)
    BY <1>s, <2>1
  <2> QED BY <1>0, <1>m, <2>1, <2>2, FeedMover
<1>2. ASSUME NEW id \in Ids, Attach(c, id)
      PROVE  FeedInv'
  <2>1. /\ Moved(c) /\ UNCHANGED Shells /\ UNCHANGED feed
        /\ at'[c].pc \in {"reply", "add"}
    BY <1>2, AttachFacts
  <2>2. \A d \in Clients : StillFed(d)
    BY <1>s, <2>1
  <2> QED BY <1>0, <1>m, <2>1, <2>2, FeedMover
<1>3. CASE LockTable(c) \/ Track(c) \/ SendOK(c)
  <2>1. /\ UNCHANGED Shells /\ UNCHANGED feed /\ Moved(c) /\ at'[c].s = at[c].s
        /\ at[c].pc \in {"table", "drop", "ok"}
        /\ at'[c].pc \in {"drop", "ok", "history"}
    BY <1>3, OnwardFacts DEF Further
  <2>2. \A d \in Clients : StillFed(d)
    BY <1>s, <2>1
  <2>3. Attaches(c) /\ ~At(c, "add")
    BY <2>1 DEF Attaches, At
  <2> QED BY <1>0, <1>m, <2>1, <2>2, <2>3, FeedMover
<1>4. CASE AddController(c)
  <2>1. PICK s \in Lives :
          /\ s = at[c].s /\ Lives' = Lives
          /\ life'[s].ctrl = life[s].ctrl \cup {c}
          /\ \A i \in Lives \ {s} : life'[i].ctrl = life[i].ctrl
          /\ \A d \in Clients \ {c} : feed'[d] = feed[d]
          /\ feed'[c].of = at[c].s
    BY <1>4, AddFacts
  <2>2. Moved(c) /\ at'[c].pc = "table" /\ at'[c].s = at[c].s
    BY <1>4, AddFacts DEF Further
  <2>3. \A d \in Clients \ {c} : StillFed(d)
    BY <2>1 DEF StillFed
  <2>4. FeedOK(c)'
    BY <2>1, <2>2 DEF FeedOK, At
  <2> QED BY <1>m, <2>2, <2>3, <2>4
<1>5. CASE DropOld(c)
  <2>1. PICK id \in Ids : id # at[c].id /\ Detached(id, {c})
    BY <1>5, DropOldFacts
  <2>2. at' = at /\ feed' = feed /\ at[c].pc = "drop"
    BY <1>5, DropOldFacts
  <2>3. feed[c].of \in {None, at[c].s} /\ life[at[c].s].id = at[c].id
    BY <1>0, <2>2 DEF FeedOK, PlaceInv, Attaches, At
  <2>4. feed[c].of = None \/ feed[c].of # table[id]
    BY <2>1, <2>3, TableFacts
  <2>5. \A d \in Clients : StillFed(d)
    BY <1>d, <2>1, <2>2, <2>4
  <2> QED BY <1>0, <1>q, <2>2, <2>5, FeedOthers
<1>6. CASE GetHistory(c) \/ SendHistory(c)
  <2>1. /\ Moved(c) /\ UNCHANGED Shells /\ at'[c].pc \in {"ready", "sendhistory"}
        /\ \A d \in Clients \ {c} : feed'[d] = feed[d]
        /\ feed'[c].of = feed[c].of \/ feed'[c].of = None
    BY <1>6, GetHistoryFacts, SendHistoryFacts
  <2>2. \A d \in Clients : StillFed(d)
    BY <1>s, <2>1
  <2> QED BY <1>0, <1>m, <2>1, <2>2, FeedMover
<1>7. CASE Disconnect(c)
  <2>1. /\ Moved(c) /\ UNCHANGED Shells /\ at'[c].pc = "bye"
        /\ \A d \in Clients \ {c} : feed'[d] = feed[d]
        /\ feed'[c].of = None
    BY <1>7, DisconnectFacts
  <2>2. \A d \in Clients : StillFed(d)
    BY <1>s, <2>1
  <2> QED BY <1>0, <1>m, <2>1, <2>2, FeedMover
<1>8. CASE DetachAll(c)
  <2>1. PICK id \in Ids : Detached(id, {c})
    BY <1>8, DetachAllFacts
  <2>2. Moved(c) /\ at[c].pc = "bye" /\ at'[c].pc = "bye" /\ feed' = feed
    BY <1>8, DetachAllFacts
  <2>3. feed[c].of = None
    BY <1>0, <2>2 DEF FeedOK, At
  <2>4. \A d \in Clients : StillFed(d)
    BY <1>d, <2>1, <2>2, <2>3
  <2> QED BY <1>0, <1>m, <2>2, <2>3, <2>4, FeedMover
<1>9. ASSUME NEW id \in Ids, NEW cs \in SUBSET Clients, Detached(id, cs),
             feed' = Dropped(id, cs), Moved(c),
             at'[c].pc \in {"untrack", "destroy", "empty"}
      PROVE  FeedInv'
  <2>1. \A d \in Clients :
          /\ feed'[d] = feed[d] \/ feed'[d] = NoFeed
          /\ d \in cs => feed'[d].of = None \/ feed'[d].of # table[id]
    BY <1>9, DroppedFacts
  <2>2. \A d \in Clients : StillFed(d)
    BY <1>9, <1>d, <2>1, NoFeedFacts
  <2> QED BY <1>0, <1>9, <1>m, <2>2, FeedMover
<1>10. CASE Empty(c)
  <2>1. PICK id \in Ids : Detached(id, Clients) /\ feed' = Dropped(id, Clients)
    BY <1>10, EmptyFacts
  <2> QED BY <1>9, <1>10, <2>1, EmptyFacts
<1>11. ASSUME NEW id \in Ids, Detach(c, id) \/ DestroySession(c, id)
       PROVE  FeedInv'
  <2>1. \E cs \in SUBSET Clients :
          /\ Detached(id, cs) /\ feed' = Dropped(id, cs) /\ Moved(c)
          /\ at'[c].pc \in {"untrack", "destroy"}
    <3>1. {c} \in SUBSET Clients
      OBVIOUS
    <3> QED BY <1>11, <3>1, DetachFacts, DestroySessionFacts
  <2> QED BY <1>9, <2>1
<1> QED BY <1>1, <1>2, <1>3, <1>4, <1>5, <1>6, <1>7, <1>8, <1>10, <1>11
        DEF ClientStep

LEMMA FeedStep ==
  ASSUME TypeOK, TableInv, PlaceInv, FeedInv, [Next]_vars
  PROVE  FeedInv'
<1>0. \A d \in Clients : FeedOK(d)
  BY DEF FeedInv, FeedOK
<1>r. ASSUME \A d \in Clients : /\ at'[d] = at[d] \/ at'[d].pc = "ready"
                                /\ feed'[d].of = feed[d].of,
             Lives \subseteq Lives',
             \A i \in Lives : life'[i].ctrl = life[i].ctrl
      PROVE  FeedInv'
  <2>1. \A d \in Clients : StillFed(d)
    BY <1>r DEF StillFed
  <2>2. \A d \in Clients : FeedOK(d)'
    BY <1>0, <1>r, <2>1, FeedOthers, FeedMover
  <2> QED BY <2>2 DEF FeedInv, FeedOK
<1>1. CASE UNCHANGED Shells /\ UNCHANGED <<at, tracked, feed, crossed>>
  BY <1>1, <1>r DEF Shells, Lives
<1>2. ASSUME NEW id \in Ids, Create(id)
      PROVE  FeedInv'
  <2>1. UNCHANGED <<at, feed>>
    BY <1>2 DEF Create, clientVars
  <2> QED BY <1>2, <1>r, <2>1, CreateFacts
<1>3. ASSUME NEW id \in Ids, GoneFrom(id), UNCHANGED at
      PROVE  FeedInv'
  BY <1>3, <1>r DEF GoneFrom
<1>4. ASSUME NEW c \in Clients, GoneFrom(at[c].id), Moved(c), at'[c].pc = "ready"
      PROVE  FeedInv'
  BY <1>4, <1>r DEF GoneFrom, Moved
<1>5. ASSUME NEW i \in Lives, ReaderStep(i)
      PROVE  FeedInv'
  BY <1>5, <1>r, ReaderFrame DEF OnlyReader
<1> QED BY <1>1, <1>2, <1>3, <1>4, <1>5, FeedClients, Sorted

-----------------------------------------------------------------------------
(* What clients have seen.                                                 *)
\* Nothing that Whole speaks of changes, but that a history is forgotten.
LEMMA WholeKept ==
  ASSUME NEW c \in Clients, NEW i \in Lives, Whole(c, i),
         life'[i].n = life[i].n, life'[i].reader = life[i].reader,
         feed'[c].first = feed[c].first, feed'[c].last = feed[c].last,
         \A h \in Nat : HasHistory(c, h)' => HasHistory(c, h)
  PROVE  Whole(c, i)'
BY DEF Whole, BeingSent

\* A client that has just attached has seen nothing.
LEMMA WholeNew ==
  ASSUME NEW c \in Clients, NEW i, life'[i].n \in Nat,
         feed'[c].first = 0, feed'[c].last = 0, feed'[c].h = -1,
         at'[c].pc = "table"
  PROVE  Whole(c, i)'
<1>1. \A h \in Nat : ~HasHistory(c, h)'
  BY DEF HasHistory, At
<1> QED BY <1>1 DEF Whole

\* Either it looks at another session, or its handler does not send one a
\* history it did not have.
LEMMA HistoryKept ==
  ASSUME NEW c \in Clients,
         feed'[c].h = feed[c].h /\ feed'[c].of = feed[c].of,
         at'[c] = at[c] \/ at'[c].pc # "sendhistory"
  PROVE  \A h \in Nat : HasHistory(c, h)' => HasHistory(c, h)
BY DEF HasHistory, At

\* For the incarnation c looks at to count now, it counted before.
LEMMA SeenKept ==
  ASSUME NEW c \in Clients, SeenOK(c), FeedOK(c),
         \/ feed'[c].of = None
         \/ /\ feed'[c].of = feed[c].of
            /\ \A i \in Lives :
                 /\ life'[i].id = life[i].id
                 /\ table'[life[i].id] \in {table[life[i].id], None}
                      \/ table'[life[i].id] \notin Lives
            /\ reused \subseteq reused'
            /\ None \notin Lives
            /\ \A i \in Lives : i = feed[c].of /\ Whole(c, i) => Whole(c, i)'
  PROVE  SeenOK(c)'
<1>1. CASE feed'[c].of = None
  BY <1>1 DEF SeenOK
<1>2. CASE feed'[c].of # None
  <2>1. PICK i \in Lives : i = feed[c].of /\ i = feed'[c].of
    BY <1>2 DEF FeedOK
  <2>2. SUFFICES ASSUME table'[life[i].id] = i, life[i].id \notin reused'
                 PROVE  Whole(c, i)'
    BY <1>2, <2>1 DEF SeenOK
  <2>3. table[life[i].id] = i /\ life[i].id \notin reused
    BY <1>2, <2>1, <2>2
  <2>4. Whole(c, i)
    BY <2>1, <2>3, <1>2 DEF SeenOK
  <2> QED BY <1>2, <2>1, <2>4
<1> QED BY <1>1, <1>2

\* A client's step: the shells stay.
LEMMA SeenSame ==
  ASSUME NEW d \in Clients, SeenOK(d), FeedOK(d), Unmoved, SameShells,
         None \notin Lives,
         \/ feed'[d].of = None
         \/ /\ feed'[d] = feed[d]
            /\ at'[d] = at[d] \/ at'[d].pc # "sendhistory"
  PROVE  SeenOK(d)'
<1>1. ASSUME feed'[d] = feed[d], at'[d] = at[d] \/ at'[d].pc # "sendhistory",
             NEW i \in Lives, Whole(d, i)
      PROVE  Whole(d, i)'
  <2>1. \A h \in Nat : HasHistory(d, h)' => HasHistory(d, h)
    BY <1>1, HistoryKept
  <2> QED BY <1>1, <2>1, WholeKept DEF SameShells, SameShell
<1> QED BY <1>1, SeenKept DEF Unmoved

LEMMA SeenGetHistory ==
  ASSUME TypeOK, TableInv, FeedInv, SeenInv, NEW c \in Clients, GetHistory(c),
         Unmoved, SameShells
  PROVE  SeenOK(c)'
<1>0. SeenOK(c) /\ FeedOK(c) /\ None \notin Lives
  BY LifeFacts DEF SeenInv, FeedInv
<1>1. \/ feed'[c].of = None
      \/ /\ at'[c].pc = "ready"
         /\ feed[c].of # None => life[feed[c].of].n = 0
         /\ feed'[c].of = feed[c].of /\ feed'[c].h = 0
         /\ feed'[c].first = feed[c].first
         /\ feed'[c].last = feed[c].last
      \/ /\ at'[c].pc = "sendhistory" /\ feed'[c] = feed[c]
         /\ at'[c].s \in Lives /\ at'[c].h = life[at'[c].s].n
  BY GetHistoryFacts
<1>2. CASE feed'[c].of = None
  BY <1>0, <1>2, SeenKept
<1>3. CASE feed'[c].of # None
  <2>1. /\ feed'[c].of = feed[c].of /\ feed'[c].first = feed[c].first
        /\ feed'[c].last = feed[c].last
    BY <1>1, <1>3
  <2>2. ASSUME NEW i \in Lives, i = feed[c].of, Whole(c, i)
        PROVE  Whole(c, i)'
    <3>1. life'[i].n = life[i].n /\ life'[i].reader = life[i].reader
      BY DEF SameShells, SameShell
    <3>2. PICK n \in Nat : n = life[i].n
      BY LifeFacts
    <3>3. PICK f \in Feeds : f = feed[c]
      BY DEF TypeOK
    <3>4. f.first \in Nat /\ f.last \in Nat \cup {-1}
      BY FeedFields
    <3>5. ASSUME NEW h \in Nat, HasHistory(c, h)'
          PROVE  h = n \/ HasHistory(c, h)
      <4>1. CASE at'[c].pc = "ready"
        BY <1>0, <1>1, <1>3, <2>2, <3>2, <3>5, <4>1 DEF HasHistory, At
      <4>2. CASE at'[c].pc = "sendhistory"
        BY <1>1, <1>3, <2>2, <3>2, <3>5, <4>2 DEF HasHistory, At
      <4> QED BY <1>1, <1>3, <4>1, <4>2
    <3>6. /\ f.last >= 0 /\ f.first <= n /\ (f.first = 0 <=> f.last = 0)
          /\ f.last # 0 => n = IF BeingSent(c, i) THEN f.last + 1 ELSE f.last
          /\ \A h \in Nat : HasHistory(c, h) =>
               /\ f.first <= h + 1
               /\ f.last = 0 => n = h \/ (BeingSent(c, i) /\ n = h + 1)
      BY <2>2, <3>2, <3>3 DEF Whole
    <3>7. BeingSent(c, i)' <=> BeingSent(c, i)
      BY <3>1 DEF BeingSent
    <3>8. \A h \in Nat : HasHistory(c, h)' =>
               /\ f.first <= h + 1
               /\ f.last = 0 => n = h \/ (BeingSent(c, i) /\ n = h + 1)
      BY <3>4, <3>5, <3>6
    <3>9. life'[i].n = n /\ feed'[c].first = f.first /\ feed'[c].last = f.last
      BY <2>1, <3>1, <3>2, <3>3
    <3> QED BY <3>6, <3>7, <3>8, <3>9 DEF Whole
  <2> QED BY <1>0, <2>1, <2>2, SeenKept DEF Unmoved
<1> QED BY <1>2, <1>3

LEMMA SeenSendHistory ==
  ASSUME TypeOK, FeedInv, SeenInv, NEW c \in Clients, SendHistory(c),
         Unmoved, SameShells
  PROVE  SeenOK(c)'
<1>0. SeenOK(c) /\ FeedOK(c) /\ None \notin Lives
  BY LifeFacts DEF SeenInv, FeedInv
<1>1. /\ at[c].pc = "sendhistory" /\ at'[c].pc = "ready" /\ at[c].h \in Nat
      /\ \/ /\ at[c].s = feed[c].of /\ feed'[c].h = at[c].h
            /\ feed'[c].of = feed[c].of
            /\ feed'[c].first = feed[c].first
            /\ feed'[c].last = feed[c].last
         \/ feed'[c].of = None
  BY SendHistoryFacts
<1>2. CASE feed'[c].of = None
  BY <1>0, <1>2, SeenKept
<1>3. CASE feed'[c].of # None
  <2>1. \A h \in Nat : HasHistory(c, h)' => HasHistory(c, h)
    BY <1>1, <1>3 DEF HasHistory, At
  <2>2. \A i \in Lives : Whole(c, i) => Whole(c, i)'
    BY <1>1, <1>3, <2>1, WholeKept DEF SameShells, SameShell
  <2> QED BY <1>0, <1>1, <1>3, <2>2, SeenKept DEF Unmoved
<1> QED BY <1>2, <1>3

LEMMA SeenAdd ==
  ASSUME TypeOK, PlaceInv, NEW c \in Clients, AddController(c), SameShells
  PROVE  SeenOK(c)'
<1>1. PICK s \in Lives :
        /\ s = at[c].s /\ at'[c].pc = "table" /\ feed'[c].of = s
        /\ feed'[c].first = 0 /\ feed'[c].last = 0 /\ feed'[c].h = -1
  BY AddFacts DEF Further
<1>2. life'[s].n \in Nat
  BY LifeFacts DEF SameShells, SameShell
<1>3. Whole(c, s)'
  BY <1>1, <1>2, WholeNew
<1> QED BY <1>1, <1>3 DEF SeenOK

LEMMA SeenClients ==
  ASSUME TypeOK, TableInv, PlaceInv, FeedInv, SeenInv,
         NEW c \in Clients, ClientStep(c)
  PROVE  SeenInv'
<1>0. /\ Unmoved /\ SameShells /\ None \notin Lives
      /\ \A d \in Clients : SeenOK(d) /\ FeedOK(d)
  BY ClientTyped, LifeFacts DEF SeenInv, FeedInv
<1>1. \A i \in Lives' : life'[i].reader.pc # "read" => life'[i].n >= 1
  BY <1>0 DEF SeenInv, Unmoved, SameShells, SameShell
<1>2. ASSUME Moved(c), SeenOK(c)',
             \A d \in Clients \ {c} : feed'[d] = feed[d] \/ feed'[d].of = None
      PROVE  SeenInv'
  <2>1. \A d \in Clients \ {c} : SeenOK(d)'
    BY <1>0, <1>2, SeenSame DEF Moved
  <2> QED BY <1>1, <1>2, <2>1 DEF SeenInv
<1>3. ASSUME \A d \in Clients : feed'[d] = feed[d] \/ feed'[d].of = None,
             Moved(c), at'[c].pc # "sendhistory"
      PROVE  SeenInv'
  BY <1>0, <1>2, <1>3, SeenSame
<1>4. CASE Plain(c) \/ Untrack(c) \/ Forget(c) \/ LocalTakeover(c) \/ DetachAll(c)
  <2>1. Moved(c) /\ UNCHANGED feed /\ at'[c].pc # "sendhistory"
    BY <1>4, PlainFacts, UntrackFacts, ForgetFacts, LocalTakeoverFacts,
       DetachAllFacts DEF Plain
  <2> QED BY <1>3, <2>1
<1>5. ASSUME NEW id \in Ids, Attach(c, id)
      PROVE  SeenInv'
  BY <1>3, <1>5, AttachFacts
<1>6. CASE LockTable(c) \/ Track(c) \/ SendOK(c)
  BY <1>3, <1>6, OnwardFacts DEF Further
<1>7. CASE AddController(c)
  BY <1>0, <1>2, <1>7, AddFacts, SeenAdd DEF Further
<1>8. CASE DropOld(c)
  <2>1. at' = at /\ feed' = feed
    BY <1>8, DropOldFacts
  <2>2. \A d \in Clients : SeenOK(d)'
    BY <1>0, <2>1, SeenSame
  <2> QED BY <1>1, <2>2 DEF SeenInv
<1>9. CASE GetHistory(c)
  BY <1>0, <1>2, <1>9, GetHistoryFacts, SeenGetHistory
<1>10. CASE SendHistory(c)
  BY <1>0, <1>2, <1>10, SendHistoryFacts, SeenSendHistory
<1>11. CASE Disconnect(c)
  BY <1>3, <1>11, DisconnectFacts
<1>12. ASSUME NEW id \in Ids, NEW cs \in SUBSET Clients,
              feed' = Dropped(id, cs), Moved(c), at'[c].pc # "sendhistory"
       PROVE  SeenInv'
  BY <1>3, <1>12, DroppedFacts, NoFeedFacts
<1>13. CASE Empty(c)
  BY <1>12, <1>13, EmptyFacts
<1>14. ASSUME NEW id \in Ids, Detach(c, id) \/ DestroySession(c, id)
       PROVE  SeenInv'
  <2>1. \E cs \in SUBSET Clients :
          feed' = Dropped(id, cs) /\ Moved(c) /\ at'[c].pc # "sendhistory"
    <3>1. {c} \in SUBSET Clients
      OBVIOUS
    <3> QED BY <1>14, <3>1, DetachFacts, DestroySessionFacts
  <2> QED BY <1>12, <2>1
<1> QED BY <1>4, <1>5, <1>6, <1>7, <1>8, <1>9, <1>10, <1>11, <1>13, <1>14
        DEF ClientStep

\* What is left of a reader's broadcast counts for the clients it still has
\* to send to; the one it sends to has seen one write more.
LEMMA WholeReader ==
  ASSUME TypeOK, TableInv, PlaceInv, FeedInv, SeenInv,
         NEW j \in Lives, ReaderStep(j), NEW c \in Clients, NEW i \in Lives,
         i = feed[c].of, table[life[i].id] = i, life[i].id \notin reused,
         Whole(c, i)
  PROVE  Whole(c, i)'
<1>1. /\ OnlyReader(j) /\ UNCHANGED at
      /\ feed'[c].of = feed[c].of /\ feed'[c].h = feed[c].h
  BY ReaderFrame
<1>2. /\ \A h \in Nat : HasHistory(c, h)' <=> HasHistory(c, h)
      /\ \A h \in Nat : HasHistory(c, h)' => HasHistory(c, h)
  BY <1>1 DEF HasHistory, At
<1>3. PICK n \in Nat : n = life[i].n
  BY LifeFacts
<1>4. PICK f \in Feeds : f = feed[c]
  BY DEF TypeOK
<1>5. f.first \in Nat /\ f.last \in Nat \cup {-1}
  BY FeedFields
<1>6. /\ f.last >= 0 /\ f.first <= n /\ (f.first = 0 <=> f.last = 0)
      /\ f.last # 0 => n = IF BeingSent(c, i) THEN f.last + 1 ELSE f.last
      /\ \A h \in Nat : HasHistory(c, h) =>
           /\ f.first <= h + 1
           /\ f.last = 0 => n = h \/ (BeingSent(c, i) /\ n = h + 1)
  BY <1>3, <1>4 DEF Whole
<1>7. CASE i # j /\ feed'[c] = feed[c]
  <2>1. life'[i] = life[i]
    BY <1>1, <1>7 DEF OnlyReader
  <2> QED BY <1>2, <1>7, <2>1, WholeKept
\* A broadcast to this incarnation is its own.
<1>8. \A k \in Lives : life[k].reader.pc = "cast" /\ k # i => life[k].reader.to # i
  BY DEF PlaceInv, TableInv
<1>9. CASE Read(j)
  <2>1. feed' = feed
    BY <1>9 DEF Read, clientVars
  <2>2. CASE i = j
    <3>1. ~BeingSent(c, i) /\ BeingSent(c, i)' /\ life'[i].n = n + 1
      BY <1>3, <1>9, <2>2, ReadFacts DEF BeingSent
    <3> QED BY <1>2, <1>4, <1>5, <1>6, <2>1, <3>1 DEF Whole
  <2> QED BY <1>7, <2>1, <2>2
<1>10. CASE Get(j)
  <2>1. feed' = feed
    BY <1>10 DEF Get, clientVars
  <2>2. CASE i = j
    <3>1. c \in life[i].ctrl /\ i # None
      BY LifeFacts DEF FeedInv, FeedOK
    <3>2. BeingSent(c, i) /\ BeingSent(c, i)' /\ life'[i].n = n
      BY <1>3, <1>10, <2>2, <3>1, GetFacts DEF BeingSent
    <3> QED BY <1>2, <1>4, <1>5, <1>6, <2>1, <3>2 DEF Whole
  <2> QED BY <1>7, <2>1, <2>2
<1>11. CASE BroadcastDone(j)
  <2>1. feed' = feed
    BY <1>11 DEF BroadcastDone, clientVars
  <2>2. CASE i = j
    <3>1. ~BeingSent(c, i) /\ ~BeingSent(c, i)' /\ life'[i].n = n
      BY <1>3, <1>11, <2>2, DoneFacts DEF BeingSent
    <3> QED BY <1>2, <1>4, <1>5, <1>6, <2>1, <3>1 DEF Whole
  <2> QED BY <1>7, <2>1, <2>2
<1>12. CASE Broadcast(j)
  <2>1. PICK d \in Clients :
          /\ d \in life[j].reader.left
          /\ life'[j].reader.left = life[j].reader.left \ {d}
          /\ feed' = Given(d, life[j].reader.to, j, life[j].n)
          /\ life'[j].n = life[j].n
          /\ life[j].reader.pc = "cast" /\ life'[j].reader.pc = "cast"
    BY <1>12, BroadcastFacts
  <2>2. /\ d # c \/ i # life[j].reader.to => feed'[c] = feed[c]
        /\ d = c /\ i = life[j].reader.to =>
             /\ feed'[c].first = IF f.first = 0 THEN life[j].n ELSE f.first
             /\ feed'[c].last =
                  IF j = i /\ (f.last = 0 \/ life[j].n = f.last + 1)
                  THEN life[j].n ELSE -1
    <3>1. PICK w \in Nat : w = life[j].n
      BY LifeFacts
    <3>s. PICK s : s = life[j].reader.to
      OBVIOUS
    <3>2. feed' = Given(d, s, j, w)
      BY <2>1, <3>1, <3>s
    <3>3. /\ \A e \in Clients : e # d \/ feed[e].of # s => feed'[e] = feed[e]
          /\ feed[d].of = s =>
               /\ feed'[d].first = IF feed[d].first = 0 THEN w ELSE feed[d].first
               /\ feed'[d].last =
                    IF j = s /\ (feed[d].last = 0 \/ w = feed[d].last + 1)
                    THEN w ELSE -1
      BY <3>2, GivenFacts
    <3> QED BY <1>4, <3>1, <3>s, <3>3
  <2>3. CASE i # j
    BY <1>7, <1>8, <2>1, <2>2, <2>3
  <2>4. CASE i = j /\ d # c
    <3>1. (BeingSent(c, i)' <=> BeingSent(c, i)) /\ life'[i].n = n
      BY <1>3, <2>1, <2>4 DEF BeingSent
    <3> QED BY <1>2, <1>4, <1>6, <2>2, <2>4, <3>1 DEF Whole
  <2>5. CASE i = j /\ d = c
    <3>1. life[j].reader.to = i
      BY <2>1, <2>5 DEF PlaceInv, TableInv
    <3>2. BeingSent(c, i) /\ ~BeingSent(c, i)' /\ life'[i].n = n
      BY <1>3, <2>1, <2>5 DEF BeingSent
    <3>3. n >= 1
      BY <1>3, <2>1, <2>5 DEF SeenInv
    <3>4. feed'[c].last = n /\ feed'[c].first = IF f.first = 0 THEN n ELSE f.first
      BY <1>3, <1>6, <2>2, <2>5, <3>1, <3>2
    <3> QED BY <1>2, <1>5, <1>6, <3>2, <3>3, <3>4 DEF Whole
  <2> QED BY <2>3, <2>4, <2>5
<1> QED BY <1>9, <1>10, <1>11, <1>12 DEF ReaderStep

LEMMA SeenStep ==
  ASSUME TypeOK, TableInv, PlaceInv, FeedInv, SeenInv, [Next]_vars
  PROVE  SeenInv'
<1>0. None \notin Lives /\ \A d \in Clients : SeenOK(d) /\ FeedOK(d)
  BY LifeFacts DEF SeenInv, FeedInv
<1>1. CASE UNCHANGED Shells /\ UNCHANGED <<at, tracked, feed, crossed>>
  <2>1. Unmoved /\ SameShells
    BY <1>1 DEF Shells, Unmoved, SameShells, SameShell, Lives
  <2>2. \A d \in Clients : SeenOK(d)'
    BY <1>0, <1>1, <2>1, SeenSame
  <2> QED BY <2>1, <2>2 DEF SeenInv, Unmoved, SameShells, SameShell
<1>2. ASSUME NEW id \in Ids, Create(id)
      PROVE  SeenInv'
  <2> DEFINE n == Len(life) + 1
  <2>1. /\ Lives' = Lives \cup {n} /\ n \notin Lives
        /\ \A i \in Lives : life'[i] = life[i]
        /\ life'[n] = ThisLife(id) /\ table' = [table EXCEPT ![id] = n]
    BY <1>2, CreateFacts
  <2>2. UNCHANGED <<at, feed>> /\ reused \subseteq reused'
    BY <1>2 DEF Create, clientVars
  <2>3. ThisLife(id).reader.pc = "read"
    BY DEF ThisLife
  <2> HIDE DEF n
  <2>4. \A i \in Lives : table'[life[i].id] = table[life[i].id]
                         \/ table'[life[i].id] \notin Lives
    BY <2>1, LifeFacts DEF TypeOK
  <2>5. ASSUME NEW d \in Clients, NEW i \in Lives, Whole(d, i)
        PROVE  Whole(d, i)'
    <3>1. \A h \in Nat : HasHistory(d, h)' => HasHistory(d, h)
      BY <2>2, HistoryKept
    <3> QED BY <2>1, <2>2, <2>5, <3>1, WholeKept
  <2>6. \A d \in Clients : SeenOK(d)'
    BY <1>0, <2>1, <2>2, <2>4, <2>5, SeenKept
  <2>7. \A i \in Lives' : life'[i].reader.pc # "read" => life'[i].n >= 1
    BY <2>1, <2>3 DEF SeenInv
  <2> QED BY <2>6, <2>7 DEF SeenInv
<1>3. ASSUME NEW id \in Ids, GoneFrom(id),
             \A d \in Clients : at'[d] = at[d] \/ at'[d].pc = "ready"
      PROVE  SeenInv'
  <2>1. /\ Lives' = Lives /\ SameShells /\ reused' = reused /\ feed' = feed
        /\ \A i \in Lives : life'[i].id = life[i].id
    BY <1>3 DEF GoneFrom, SameShells, SameShell
  <2>2. \A i \in Lives : table'[life[i].id] \in {table[life[i].id], None}
    BY <1>3, LifeFacts, RemovedFacts DEF GoneFrom
  <2>3. ASSUME NEW d \in Clients, NEW i \in Lives, Whole(d, i)
        PROVE  Whole(d, i)'
    <3>1. \A h \in Nat : HasHistory(d, h)' => HasHistory(d, h)
      BY <1>3, <2>1, HistoryKept
    <3> QED BY <2>1, <2>3, <3>1, WholeKept DEF SameShells, SameShell
  <2>4. \A d \in Clients : SeenOK(d)'
    BY <1>0, <2>1, <2>2, <2>3, SeenKept
  <2> QED BY <2>1, <2>4 DEF SeenInv, SameShells, SameShell
<1>4. ASSUME NEW c \in Clients, GoneFrom(at[c].id), Moved(c), at'[c].pc = "ready"
      PROVE  SeenInv'
  BY <1>3, <1>4 DEF GoneFrom, Moved
<1>5. ASSUME NEW j \in Lives, ReaderStep(j)
      PROVE  SeenInv'
  <2>1. /\ OnlyReader(j) /\ UNCHANGED <<table, reused, at>>
        /\ \A d \in Clients : feed'[d].of = feed[d].of
    BY <1>5, ReaderFrame
  <2>2. Lives' = Lives /\ \A i \in Lives : life'[i].id = life[i].id
    BY <2>1 DEF OnlyReader
  <2>3. ASSUME NEW d \in Clients
        PROVE  SeenOK(d)'
    <3>1. CASE feed[d].of = None
      BY <2>1, <3>1 DEF SeenOK
    <3>2. CASE feed[d].of # None
      <4>1. PICK i \in Lives : i = feed[d].of
        BY <1>0, <3>2 DEF FeedOK
      <4>2. SUFFICES ASSUME table[life[i].id] = i, life[i].id \notin reused
                     PROVE  Whole(d, i)'
        BY <2>1, <2>2, <4>1 DEF SeenOK
      <4>3. Whole(d, i)
        BY <1>0, <3>2, <4>1, <4>2 DEF SeenOK
      <4> QED BY <1>5, <4>1, <4>2, <4>3, WholeReader
    <3> QED BY <3>1, <3>2
  <2>4. life'[j].reader.pc # "read" => life'[j].n >= 1
    <3>1. CASE Read(j)
      <4>1. life[j].n \in Nat
        BY LifeFacts
      <4> QED BY <3>1, <4>1, ReadFacts
    <3>2. CASE Get(j) \/ Broadcast(j)
      BY <3>2, GetFacts, BroadcastFacts DEF SeenInv
    <3>3. CASE BroadcastDone(j)
      BY <3>3, DoneFacts
    <3> QED BY <1>5, <3>1, <3>2, <3>3 DEF ReaderStep
  <2>5. \A i \in Lives' : life'[i].reader.pc # "read" => life'[i].n >= 1
    BY <2>1, <2>2, <2>4 DEF SeenInv, OnlyReader
  <2> QED BY <2>3, <2>5 DEF SeenInv
<1> QED BY <1>1, <1>2, <1>3, <1>4, <1>5, SeenClients, Sorted

-----------------------------------------------------------------------------
(* The theorems.                                                           *)
IInv == TypeOK /\ TableInv /\ PlaceInv /\ CtrlInv /\ FeedInv /\ SeenInv

LEMMA Begins ==
  ASSUME Init
  PROVE  IInv
<1>1. PICK id \in Ids :
        /\ table = [i \in Ids |-> IF i = id THEN 1 ELSE None]
        /\ order = <<id>> /\ life = <<ThisLife(id)>>
  BY DEF Init, ThisLife
<1>2. PICK l \in Life : l = ThisLife(id)
  BY DEF ThisLife, Life, Readers
<1>3. /\ l.id = id /\ l.ctrl = {} /\ l.reader.pc = "read"
  BY <1>2 DEF ThisLife
<1>4. Lives = {1} /\ life[1] = l /\ life \in Seq(Life)
  <2> HIDE DEF Life
  <2> QED BY <1>1, <1>2 DEF Lives
<1>5. order \in Seq(Ids) /\ Contains(order, id)
  BY <1>1 DEF Contains
<1>6. \A c \in Clients : /\ at[c] = [pc |-> "new"] /\ at[c].pc = "new"
                         /\ feed[c] = NoFeed /\ feed[c].of = None
  BY NoFeedFacts DEF Init
<1>7. TypeOK
  <2>1. at \in [Clients -> Places]
    BY DEF Init, Places
  <2>2. feed \in [Clients -> Feeds]
    BY NoFeedFacts DEF Init
  <2>3. table \in [Ids -> Nat]
    BY <1>1 DEF None
  <2> QED BY <1>4, <1>5, <2>1, <2>2, <2>3 DEF Init, TypeOK
<1>8. TableInv
  BY <1>1, <1>3, <1>4, <1>5 DEF TableInv, None
<1>9. PlaceInv
  BY <1>3, <1>4, <1>6 DEF PlaceInv, Attaches
<1>10. CtrlInv
  <2>1. \A x \in Ids : Ctrl(x) = {}
    BY <1>1, <1>3, <1>4 DEF Ctrl, None
  <2>2. \A x \in Ids : KeptOK(x)
    BY <2>1 DEF KeptOK
  <2> QED BY <1>6, <2>2 DEF CtrlInv, EmptyOK, UntrackOK, At
<1>11. FeedInv
  BY <1>6 DEF FeedInv, FeedOK, Attaches, At
<1>12. SeenInv
  BY <1>3, <1>4, <1>6 DEF SeenInv, SeenOK
<1> QED BY <1>7, <1>8, <1>9, <1>10, <1>11, <1>12 DEF IInv

LEMMA Invariant == Spec => []IInv
<1>1. IInv /\ [Next]_vars => IInv'
  BY TypeStep, TableStep, PlaceStep, CtrlStep, FeedStep, SeenStep DEF IInv
<1> QED BY <1>1, Begins, PTL DEF Spec

\* Every variable of the sessions and the handlers keeps its type: the table
\* leads to incarnations, a handler's place has what its next step needs.
THEOREM TypeCorrect == Spec => []TypeOK
<1>1. IInv => TypeOK
  BY DEF IInv
<1> QED BY <1>1, Invariant, PTL

\* Whoever controls a listed session will be detached from it (AttachLocalSession,
\* detachLocalSession, LocalTakeover and the deferred part of ServeHTTP in
\* local_server.go), unless its attach ran beside a takeover.
THEOREM TrackedCorrect == Spec => []ControllersTracked
<1>1. IInv => ControllersTracked
  BY DEF IInv, CtrlInv, KeptOK, Ctrl, Kept, ControllersTracked
<1> QED BY <1>1, Invariant, PTL

\* A client that attached is given a history and every write after it, in
\* order: what AddController before GetHistory in AttachLocalSession is for.
THEOREM SeenCorrect == Spec => []AttachedSeesEverything
<1>1. ASSUME IInv
      PROVE  AttachedSeesEverything
  <2>1. SUFFICES ASSUME NEW c \in Clients, feed[c].of # None, feed[c].h >= 0,
                        table[life[feed[c].of].id] = feed[c].of,
                        life[feed[c].of].id \notin reused
                 PROVE  LET f == feed[c]  i == f.of IN
                        /\ f.last >= 0 /\ f.first <= f.h + 1
                        /\ \/ life[i].n \in {f.h, f.last}
                           \/ BeingSent(c, i) /\ life[i].n - 1 \in {f.h, f.last}
    BY DEF AttachedSeesEverything
  <2>2. PICK i \in Lives : i = feed[c].of
    BY <1>1, <2>1 DEF IInv, FeedInv, FeedOK
  <2>3. Whole(c, i)
    BY <1>1, <2>1, <2>2 DEF IInv, SeenInv, SeenOK
  <2>4. PICK f \in Feeds : f = feed[c]
    BY <1>1 DEF IInv, TypeOK
  <2>5. PICK h \in Nat : h = f.h
    <3>1. f.h \in Nat \cup {-1}
      BY DEF Feeds
    <3>2. f.h >= 0
      BY <2>1, <2>4
    <3>3. f.h \in Nat
      BY <3>1, <3>2
    <3> QED BY <3>3
  <2>6. HasHistory(c, h)
    BY <2>4, <2>5 DEF HasHistory
  <2>7. PICK n \in Nat : n = life[i].n
    BY <1>1, LifeFacts DEF IInv
  <2>8. /\ f.last >= 0 /\ f.first <= h + 1
        /\ f.last # 0 => n = IF BeingSent(c, i) THEN f.last + 1 ELSE f.last
        /\ f.last = 0 => n = h \/ (BeingSent(c, i) /\ n = h + 1)
    BY <2>3, <2>4, <2>6, <2>7 DEF Whole
  <2>9. f.last \in Nat \cup {-1}
    BY FeedFields
  <2>10. \/ n \in {h, f.last}
         \/ BeingSent(c, i) /\ n - 1 \in {h, f.last}
    BY <2>8, <2>9
  <2> QED BY <2>2, <2>4, <2>5, <2>7, <2>8, <2>10
<1> QED BY <1>1, Invariant, PTL
=============================================================================
