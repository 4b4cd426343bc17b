------------------------- MODULE FileTransferProofs -------------------------
(***************************************************************************)
(* Proofs about file transfers, for any number of goroutines, paths and    *)
(* chunks, any window and any number of transfers and of events.           *)
(***************************************************************************)
EXTENDS FileTransfer, FiniteSetTheorems, TLAPS

-----------------------------------------------------------------------------
(***************************************************************************)
(* The inductive invariants, one for each property.                        *)
(***************************************************************************)
\* The next chunk of a relay transfer lies in the window of the largest ack
\* that was received, whichever ack is stored last.
InWindow(t) ==
  /\ t.pc = "open" => t.idx = 0
  /\ t.win => /\ t.idx <= t.used + AckWindow
              /\ t.pc = "chunk" => t.idx < t.used + AckWindow
WindowInv == \A id \in Sends : InWindow(task[id])

\* A sender that has found the window shut and finds it open now has a poke
\* waiting or coming, also while it is on its way to wait.
Woken(id) ==
  task[id].pc \in {"shut", "parked"} /\ WindowOpen(task[id]) =>
    \/ task[id].notify
    \/ \E g \in Goroutines : at[g].do = "poke" /\ at[g].id = id
WakeInv == \A id \in Sends : Woken(id)

\* The tasks in ftm.active have never been closed.
OpenInv ==
  ~misdeleted => ~panicked /\ \A id \in active : ~task[id].closed

\* A file has one name: whoever holds it holds it under the same path.
OneName ==
  /\ \A p, q \in Paths : disk[p] = disk[q] /\ disk[p] # Gone => p = q
  /\ \A g \in Goroutines : at[g].do = "copy" =>
       \A p \in Paths : disk[p] = at[g].file => p = at[g].path
  /\ \A g, h \in Goroutines : at[g].do = "copy" /\ at[h].do = "copy" =>
       (at[g].file = at[h].file => at[g].path = at[h].path)
  /\ \A id \in Sends : task[id].file # Gone =>
       /\ \A p \in Paths : disk[p] = task[id].file => p = task[id].path
       /\ \A g \in Goroutines : at[g].do = "copy" =>
            (at[g].file = task[id].file => at[g].path = task[id].path)

\* A running transfer that nothing has hurt reads the file as it was staged
\* and has handed over every chunk it has counted.
Faithful(t) ==
  ~t.hurt =>
    /\ t.sent = 0..(t.idx - 1)
    /\ t.pc # "done" =>
         /\ t.total = TotalChunks(Blocks[t.path]) /\ t.said = "begin"
         /\ t.pc = "open" =>
              /\ t.idx = 0 /\ t.file = Gone
              /\ disk[t.path] # Gone => content[disk[t.path]] = Blocks[t.path]
         /\ t.pc # "open" =>
              t.file # Gone /\ content[t.file] = Blocks[t.path]
         /\ t.pc = "chunk" => t.idx < Blocks[t.path]
         /\ t.pc = "end" => t.idx = Blocks[t.path]
    /\ t.pc = "done" /\ t.said = "end" => t.idx = Blocks[t.path]
FaithfulInv == \A id \in Sends : Faithful(task[id])

-----------------------------------------------------------------------------
(***************************************************************************)
(* The operators of the model.                                             *)
(***************************************************************************)
\* The larger of two numbers.
LEMMA MaxFacts ==
  ASSUME NEW a \in Nat, NEW b \in Nat
  PROVE  Max({a, b}) \in Nat /\ Max({a, b}) >= a /\ Max({a, b}) >= b
<1>1. \E x \in {a, b} : \A y \in {a, b} : x >= y
  OBVIOUS
<1> QED BY <1>1 DEF Max

\* The backing arrays: as many as before or one more, none gets shorter, and
\* the entries appended or shifted stay entries.
Entries == [id : Ids, path : Paths]

LEMMA RemoveFacts ==
  ASSUME TypeOK, count > 0, NEW i \in 1..count, store' = Remove(i)
  PROVE  /\ store' \in Seq(Seq(Entries)) /\ Len(store') = Len(store)
         /\ \A n \in DOMAIN store :
              DOMAIN store'[n] = DOMAIN store[n]
         /\ DOMAIN store' = DOMAIN store
<1> DEFINE n == Len(store)
           a == store[n]
           b == [j \in DOMAIN a |->
                   IF j \in i..(count - 1) THEN a[j + 1] ELSE a[j]]
<1>1. /\ store \in Seq(Seq(Entries)) /\ n \in DOMAIN store
      /\ a \in Seq(Entries) /\ count \in Nat /\ count <= Len(a)
  BY DEF TypeOK, Entries
<1>2. /\ a = [j \in 1..Len(a) |-> a[j]] /\ DOMAIN a = 1..Len(a)
      /\ Len(a) \in Nat /\ \A j \in 1..Len(a) : a[j] \in Entries
  BY <1>1
<1>3. \A j \in 1..Len(a) : b[j] \in Entries
  BY <1>1, <1>2
<1>4. b \in Seq(Entries) /\ DOMAIN b = DOMAIN a
  <2>1. b \in [1..Len(a) -> Entries]
    BY <1>2, <1>3
  <2> HIDE DEF b, Entries
  <2> QED BY <1>2, <2>1
<1>5. store' = [store EXCEPT ![n] = b]
  BY DEF Remove
<1> HIDE DEF b, Entries
<1> QED BY <1>1, <1>4, <1>5

LEMMA AppendEntryFacts ==
  ASSUME TypeOK, NEW e \in Entries, store' = AppendEntry(e)
  PROVE  /\ store' \in Seq(Seq(Entries)) /\ store' # <<>>
         /\ count + 1 <= Len(store'[Len(store')])
         /\ \A n \in DOMAIN store :
              n \in DOMAIN store' /\ DOMAIN store[n] \subseteq DOMAIN store'[n]
<1> DEFINE n == Len(store)
           room == IF n = 0 THEN 0 ELSE 2^(n - 1)
           a == store[n]
           b == Append(SubSeq(a, 1, count), e)
                  \o SubSeq(a, count + 2, Len(a))
           c == Append(Staged, e)
<1>1. /\ store \in Seq(Seq(Entries)) /\ count \in Nat /\ n \in Nat
      /\ count > 0 => n # 0 /\ count <= Len(a)
      /\ n # 0 => a \in Seq(Entries)
  BY DEF TypeOK, Entries
<1>2. IF count < room THEN store' = [store EXCEPT ![n] = b]
                      ELSE store' = Append(store, c)
  BY DEF AppendEntry
<1>3. count < room => n # 0
  BY <1>1
<1> HIDE DEF room
<1>4. CASE count < room
  <2>1. /\ a \in Seq(Entries) /\ Len(a) \in Nat /\ count <= Len(a)
        /\ n \in DOMAIN store
    BY <1>1, <1>3, <1>4
  <2>2. /\ b \in Seq(Entries) /\ Len(b) \in Nat
        /\ Len(b) >= Len(a) /\ Len(b) >= count + 1
    <3> HIDE DEF Entries, a
    <3>1. /\ SubSeq(a, 1, count) \in Seq(Entries)
          /\ Len(SubSeq(a, 1, count)) = count
      BY <1>1, <2>1
    <3>2. /\ SubSeq(a, count + 2, Len(a)) \in Seq(Entries)
          /\ Len(SubSeq(a, count + 2, Len(a))) >= Len(a) - (count + 1)
          /\ Len(SubSeq(a, count + 2, Len(a))) \in Nat
      BY <1>1, <2>1
    <3>3. /\ Append(SubSeq(a, 1, count), e) \in Seq(Entries)
          /\ Len(Append(SubSeq(a, 1, count), e)) = count + 1
      BY <3>1
    <3>4. \A u, v \in Seq(Entries) : u \o v \in Seq(Entries)
                                    /\ Len(u \o v) = Len(u) + Len(v)
      OBVIOUS
    <3>5. b \in Seq(Entries) /\ Len(b) = count + 1
                                + Len(SubSeq(a, count + 2, Len(a)))
      BY <3>2, <3>3, <3>4
    <3> DEFINE y == SubSeq(a, count + 2, Len(a))
    <3>6. Len(b) = count + 1 + Len(y) /\ Len(y) \in Nat
          /\ Len(y) >= Len(a) - (count + 1) /\ b \in Seq(Entries)
      BY <3>2, <3>5
    <3> HIDE DEF b, y
    <3>7. count \in Nat /\ Len(a) \in Nat
      BY <1>1, <2>1
    <3> QED BY <3>6, <3>7
  <2>3. DOMAIN a \subseteq DOMAIN b
    <3> HIDE DEF a, b
    <3> QED BY <2>1, <2>2
  <2> DEFINE S == Seq(Entries)
  <2>4. store \in Seq(S) /\ b \in S /\ store' = [store EXCEPT ![n] = b]
    BY <1>1, <1>2, <1>4, <2>2
  <2> HIDE DEF b, S
  <2>5. /\ store' \in Seq(S) /\ Len(store') = n /\ DOMAIN store' = DOMAIN store
        /\ store'[n] = b /\ \A m \in DOMAIN store \ {n} : store'[m] = store[m]
    BY <2>1, <2>4
  <2>6. \A m \in DOMAIN store : DOMAIN store[m] \subseteq DOMAIN store'[m]
    BY <2>3, <2>5
  <2>7. store' # <<>> /\ count + 1 <= Len(store'[Len(store')])
    BY <1>1, <1>3, <1>4, <2>2, <2>5
  <2> QED BY <2>5, <2>6, <2>7 DEF S
<1>5. CASE ~(count < room)
  <2>1. Staged \in Seq(Entries) /\ Len(Staged) = count
    BY <1>1 DEF Staged
  <2>2. c \in Seq(Entries) /\ Len(c) = count + 1
    BY <2>1
  <2> DEFINE S == Seq(Entries)
  <2>3. store \in Seq(S) /\ c \in S /\ store' = Append(store, c)
    BY <1>1, <1>2, <1>5, <2>2
  <2> HIDE DEF c, S
  <2>4. /\ store' \in Seq(S) /\ Len(store') = n + 1
        /\ store'[n + 1] = c /\ DOMAIN store \subseteq DOMAIN store'
        /\ \A m \in DOMAIN store : store'[m] = store[m]
    BY <2>3
  <2>5. store' # <<>> /\ count + 1 <= Len(store'[Len(store')])
    BY <1>1, <2>2, <2>4
  <2> QED BY <2>4, <2>5 DEF S
<1> QED BY <1>4, <1>5

\* Updating some fields of one task.
LEMMA GoFacts ==
  ASSUME TypeOK, NEW id \in Sends, NEW new, Go(id, new)
  PROVE  /\ Sends' = Sends /\ DOMAIN task'[id] = TaskFields
         /\ \A j \in Sends \ {id} : task'[j] = task[j]
BY DEF Go, TypeOK, TaskTyped, Sends, TaskFields

-----------------------------------------------------------------------------
(***************************************************************************)
(* What the steps do to the transfers.                                     *)
(***************************************************************************)
\* The fields sendFile never writes, once it has started.
Kept(t, u) ==
  /\ u.path = t.path /\ u.total = t.total /\ u.size = t.size
  /\ u.acked = t.acked /\ u.used = t.used /\ u.closed = t.closed
\* Those that count what was sent.
SameCount(t, u) == u.idx = t.idx /\ u.sent = t.sent /\ u.hurt = t.hurt

\* How sendFile goes from one state to the next.
SenderMoves(t, u) ==
  \/ /\ u.pc = "done" /\ t.pc # "done" /\ SameCount(t, u)
     /\ u.win = t.win /\ u.file = t.file
     /\ u.said = "end" => t.pc = "end"
  \/ /\ t.pc = "open" /\ u.pc = "window" /\ SameCount(t, u)
     /\ u.file = disk[t.path] /\ u.file # Gone /\ u.said = t.said
  \/ /\ t.pc = "window" /\ u.pc = "shut" /\ ~WindowOpen(t)
     /\ SameCount(t, u) /\ u.win = t.win /\ u.file = t.file
     /\ u.said = t.said
  \/ /\ t.pc = "shut" /\ u.pc = "parked" /\ u.notify = t.notify
     /\ SameCount(t, u) /\ u.win = t.win /\ u.file = t.file
     /\ u.said = t.said
  \/ /\ t.pc = "parked" /\ u.pc = "window"
     /\ SameCount(t, u) /\ u.win = t.win /\ u.file = t.file
     /\ u.said = t.said
  \/ /\ t.pc = "window" /\ u.pc = NextRead(t) /\ WindowOpen(t)
     /\ SameCount(t, u) /\ u.win = t.win /\ u.file = t.file
     /\ u.said = t.said
  \/ /\ t.pc \in {"chunk", "end"} /\ u.pc = t.pc
     /\ SameCount(t, u) /\ u.win = t.win /\ u.file = t.file
     /\ u.said = t.said
  \/ /\ t.pc = "chunk" /\ u.idx = t.idx + 1
     /\ u.pc = IF u.idx = t.total THEN "end" ELSE "window"
     /\ u.sent \subseteq t.sent \cup {t.idx}
     /\ ~u.hurt => ~t.hurt /\ u.sent = t.sent \cup {t.idx}
     /\ u.win = t.win /\ u.file = t.file /\ u.said = t.said

LEMMA SendStep ==
  ASSUME TypeOK, NEW id, SendFile(id)
  PROVE  /\ id \in Sends /\ Sends' = Sends
         /\ \A j \in Sends \ {id} : task'[j] = task[j]
         /\ DOMAIN task'[id] = TaskFields
         /\ Kept(task[id], task'[id]) /\ SenderMoves(task[id], task'[id])
         /\ active' \subseteq active
         /\ UNCHANGED <<store, count, disk, content, nextID, at, mode, up,
                        keys, verified, events, panicked, misdeleted>>
<1>1. id \in Sends
  BY DEF SendFile, OpenFile, Park, Wake, AckTimeout, Cancelled, ReadChunk,
     ReadFails, AskKeys, Seal, Deliver, NotDelivered, Ready, Holding, At
<1>2. /\ active' \subseteq active
      /\ UNCHANGED <<store, count, disk, content, nextID, at, mode, up,
                     keys, verified, events, panicked, misdeleted>>
  BY DEF SendFile, OpenFile, Park, Wake, AckTimeout, Cancelled, ReadChunk,
     ReadFails, AskKeys, Seal, Deliver, NotDelivered, Fail, Return, Continue,
     SenderFrame, stagedVars, diskVars, envVars, linkVars, fateVars
<1>3. \E new : Go(id, new)
  BY DEF SendFile, OpenFile, Park, Wake, AckTimeout, Cancelled, ReadChunk,
     ReadFails, AskKeys, Seal, Deliver, NotDelivered, Fail, Return, Continue
<1>4. /\ Sends' = Sends /\ DOMAIN task'[id] = TaskFields
      /\ \A j \in Sends \ {id} : task'[j] = task[j]
  BY <1>1, <1>3, GoFacts
<1>5. DOMAIN task[id] = TaskFields /\ id \in DOMAIN task
  BY <1>1 DEF TypeOK, TaskTyped, Sends
<1> DEFINE t == task[id]
           u == task'[id]
\* The ways out.
<1>6. ASSUME NEW m, Return(id, m), t.pc # "done", m = "end" => t.pc = "end"
      PROVE  Kept(t, u) /\ SenderMoves(t, u)
  <2>1. /\ Kept(t, u) /\ u.pc = "done" /\ SameCount(t, u)
        /\ u.win = t.win /\ u.file = t.file /\ u.said = m
    BY <1>5, <1>6 DEF Return, Go, TaskFields, Kept, SameCount
  <2> HIDE DEF t, u
  <2> QED BY <1>6, <2>1 DEF SenderMoves
<1>7. ASSUME Fail(id), t.pc # "done"
      PROVE  Kept(t, u) /\ SenderMoves(t, u)
  BY <1>6, <1>7 DEF Fail
<1>8. CASE OpenFile(id)
  <2>1. t.pc = "open"
    BY <1>8 DEF OpenFile, At
  <2>2. ASSUME Fail(id) PROVE Kept(t, u) /\ SenderMoves(t, u)
    BY <1>7, <2>1, <2>2
  <2>3. ASSUME ~Fail(id) PROVE Kept(t, u) /\ SenderMoves(t, u)
    <3>1. /\ disk[t.path] # Gone
          /\ Go(id, [pc |-> "window", file |-> disk[t.path],
                     win |-> mode # "p2p"])
      BY <1>8, <2>3 DEF OpenFile, Continue
    <3>2. /\ Kept(t, u) /\ u.pc = "window" /\ SameCount(t, u)
          /\ u.file = disk[t.path] /\ u.said = t.said
      BY <1>5, <3>1 DEF Go, TaskFields, Kept, SameCount
    <3> HIDE DEF t, u
    <3> QED BY <2>1, <3>1, <3>2 DEF SenderMoves
  <2> QED BY <1>1, <1>2, <1>4, <2>2, <2>3
<1>9. CASE Park(id)
  <2>1. \/ t.pc = "window" /\ ~WindowOpen(t) /\ Go(id, [pc |-> "shut"])
        \/ t.pc = "shut" /\ Go(id, [pc |-> "parked"])
    BY <1>9 DEF Park, At, Continue
  <2>2. /\ Kept(t, u) /\ SameCount(t, u) /\ u.win = t.win /\ u.file = t.file
        /\ u.said = t.said /\ u.notify = t.notify
        /\ u.pc = IF t.pc = "shut" THEN "parked" ELSE "shut"
    BY <1>5, <2>1 DEF Go, TaskFields, Kept, SameCount
  <2> HIDE DEF t, u
  <2>3. Kept(t, u) /\ SenderMoves(t, u)
    BY <2>1, <2>2 DEF SenderMoves
  <2> QED BY <1>1, <1>2, <1>4, <2>3 DEF t, u
<1>10. CASE Wake(id)
  <2>1. t.pc = "parked" /\ Go(id, [pc |-> "window", notify |-> FALSE])
    BY <1>10 DEF Wake, At, Continue
  <2>2. /\ Kept(t, u) /\ SameCount(t, u) /\ u.win = t.win /\ u.file = t.file
        /\ u.said = t.said /\ u.pc = "window"
    BY <1>5, <2>1 DEF Go, TaskFields, Kept, SameCount
  <2> HIDE DEF t, u
  <2>3. Kept(t, u) /\ SenderMoves(t, u)
    BY <2>1, <2>2 DEF SenderMoves
  <2> QED BY <1>1, <1>2, <1>4, <2>3 DEF t, u
<1>11. CASE AckTimeout(id) \/ Cancelled(id) \/ ReadFails(id)
  <2>1. t.pc # "done" /\ Fail(id)
    BY <1>11 DEF AckTimeout, Cancelled, ReadFails, At
  <2> QED BY <1>1, <1>2, <1>4, <1>7, <2>1
<1>12. CASE ReadChunk(id)
  <2>1. t.pc = "window" /\ WindowOpen(t) /\ Go(id, [pc |-> NextRead(t)])
    BY <1>12 DEF ReadChunk, At, Continue
  <2>2. /\ Kept(t, u) /\ SameCount(t, u) /\ u.win = t.win /\ u.file = t.file
        /\ u.said = t.said /\ u.pc = NextRead(t)
    BY <1>5, <2>1 DEF Go, TaskFields, Kept, SameCount
  <2> HIDE DEF t, u
  <2>3. Kept(t, u) /\ SenderMoves(t, u)
    BY <2>1, <2>2 DEF SenderMoves
  <2> QED BY <1>1, <1>2, <1>4, <2>3 DEF t, u
<1>13. CASE AskKeys(id) \/ Seal(id) \/ NotDelivered(id)
  <2>1. t.pc \in {"chunk", "end"}
    BY <1>13 DEF AskKeys, Seal, NotDelivered, Ready, Holding, At
  <2>2. CASE Fail(id)
    BY <1>1, <1>2, <1>4, <1>7, <2>1, <2>2
  <2>3. ASSUME NEW f, Go(id, [frame |-> f])
        PROVE  Kept(t, u) /\ SenderMoves(t, u)
    <3>1. /\ Kept(t, u) /\ SameCount(t, u) /\ u.win = t.win
          /\ u.file = t.file /\ u.said = t.said /\ u.pc = t.pc
      BY <1>5, <2>3 DEF Go, TaskFields, Kept, SameCount
    <3> HIDE DEF t, u
    <3>2. Kept(t, u) /\ SenderMoves(t, u)
      BY <2>1, <3>1 DEF SenderMoves
    <3> QED BY <3>2 DEF t, u
  <2>4. Fail(id) \/ \E f : Go(id, [frame |-> f])
    BY <1>13 DEF AskKeys, Seal, NotDelivered, Continue
  <2> QED BY <1>1, <1>2, <1>4, <2>2, <2>3, <2>4
<1>14. CASE Deliver(id)
  <2>1. CASE t.pc = "chunk"
    <3>1. Go(id, AfterChunk(t))
      BY <1>14, <2>1 DEF Deliver, Continue
    <3>2. /\ Kept(t, u) /\ u.win = t.win /\ u.file = t.file
          /\ u.said = t.said /\ u.idx = t.idx + 1
          /\ u.pc = IF t.idx + 1 = t.total THEN "end" ELSE "window"
          /\ u.sent = IF Fits(t.size) THEN t.sent \cup {t.idx} ELSE t.sent
          /\ u.hurt = (t.hurt \/ ~Fits(t.size))
      BY <1>5, <3>1 DEF Go, TaskFields, Kept, AfterChunk
    <3> HIDE DEF t, u
    <3>3. Kept(t, u) /\ SenderMoves(t, u)
      BY <2>1, <3>2 DEF SenderMoves
    <3> QED BY <1>1, <1>2, <1>4, <3>3 DEF t, u
  <2>2. CASE t.pc # "chunk"
    <3>1. t.pc = "end" /\ Return(id, "end")
      BY <1>14, <2>2 DEF Deliver, Ready, Holding, At
    <3> QED BY <1>1, <1>2, <1>4, <1>6, <3>1
  <2> QED BY <2>1, <2>2
<1> QED
  BY <1>8, <1>9, <1>10, <1>11, <1>12, <1>13, <1>14 DEF SendFile

\* What no other step of a started transfer changes.
Steady(t, u) ==
  /\ DOMAIN u = TaskFields
  /\ u.path = t.path /\ u.file = t.file /\ u.total = t.total
  /\ u.idx = t.idx /\ u.win = t.win /\ u.pc = t.pc /\ u.sent = t.sent
  /\ u.said = t.said /\ (t.hurt => u.hurt)
\* Nor the acks and the pokes.
Touched(t, u) ==
  Steady(t, u) /\ u.used = t.used /\ u.acked = t.acked /\ u.notify = t.notify

\* The transfers before a step are there after it, changed as `r' allows.
AllTasks(r(_, _)) ==
  \A id \in Sends : id \in Sends' /\ r(task[id], task'[id])

LEMMA TouchFacts ==
  ASSUME TypeOK, NEW P \in SUBSET Sends, NEW f \in {"closed", "hurt"},
         task' = [id \in Sends |-> IF id \in P
                    THEN [task[id] EXCEPT ![f] = TRUE] ELSE task[id]]
  PROVE  /\ Sends' = Sends /\ AllTasks(Touched)
         /\ f = "closed" => \A id \in Sends \ P :
                              task'[id].closed = task[id].closed
         /\ f = "hurt" => \A id \in Sends : task'[id].closed = task[id].closed
         /\ f = "hurt" => \A id \in P : task'[id].hurt
BY DEF TypeOK, TaskTyped, TaskFields, Touched, Steady, AllTasks, Sends

\* What happens to the channels and the peer cancels every transfer or none.
LEMMA EnvironmentStep ==
  ASSUME TypeOK, Environment
  PROVE  /\ UNCHANGED <<store, count, disk, content, nextID, at, misdeleted>>
         /\ Sends' = Sends /\ AllTasks(Touched)
         /\ \/ /\ active' = active /\ panicked' = panicked
               /\ \A id \in Sends : task'[id].closed = task[id].closed
            \/ active' = {} /\ panicked' = ClosedTwice(active)
         /\ mode' \in {"ts", "p2p"} /\ up' \subseteq {"ts", "p2p"}
         /\ keys' \in BOOLEAN /\ verified' \in BOOLEAN
<1> DEFINE Calm == /\ active' = active /\ panicked' = panicked
                   /\ \A id \in Sends : task'[id].closed = task[id].closed
           Cancels == active' = {} /\ panicked' = ClosedTwice(active)
<1> USE DEF EventFrame, stagedVars, diskVars, NoCancel
<1>1. ASSUME NEW lost, CancelAll(lost)
      PROVE  Sends' = Sends /\ AllTasks(Touched) /\ Cancels
  BY <1>1 DEF CancelAll, TypeOK, TaskTyped, TaskFields, Touched, Steady,
     AllTasks, Sends
<1>2. ASSUME task' = task, NoCancel
      PROVE  Sends' = Sends /\ AllTasks(Touched) /\ Calm
  BY <1>2 DEF TypeOK, TaskTyped, TaskFields, Touched, Steady, AllTasks, Sends
<1>3. /\ mode \in {"ts", "p2p"} /\ up \subseteq {"ts", "p2p"}
      /\ keys \in BOOLEAN /\ verified \in BOOLEAN
  BY DEF TypeOK
<1>4. CASE RelayLost \/ P2PLost \/ PeerOffline \/ Kicked
  <2>1. \E lost : CancelAll(lost)
    BY <1>4 DEF RelayLost, P2PLost, PeerOffline, Kicked
  <2>2. /\ UNCHANGED <<store, count, disk, content, nextID, at, misdeleted>>
        /\ mode' \in {"ts", "p2p"} /\ up' \subseteq {"ts", "p2p"}
        /\ keys' \in BOOLEAN /\ verified' \in BOOLEAN
    BY <1>3, <1>4 DEF RelayLost, P2PLost, PeerOffline, Kicked
  <2> QED BY <1>1, <2>1, <2>2
<1>5. CASE P2PReset
  <2> DEFINE P == {id \in Sends : Running(id) /\ mode = "p2p"}
  <2>1. task' = [id \in Sends |-> IF id \in P
                   THEN [task[id] EXCEPT !["hurt"] = TRUE] ELSE task[id]]
    BY <1>5 DEF P2PReset, Touch
  <2> HIDE DEF P
  <2>2. Sends' = Sends /\ AllTasks(Touched) /\ Calm
    <3>1. P \subseteq Sends
      BY DEF P
    <3>2. active' = active /\ panicked' = panicked
      BY <1>5 DEF P2PReset
    <3> QED BY <2>1, <3>1, <3>2, TouchFacts
  <2> QED BY <1>3, <1>5, <2>2 DEF P2PReset
<1>6. CASE \/ RelayUp \/ P2PUp \/ PeerOnline \/ Verified \/ SetSecCode
           \/ \E m \in {"ts", "p2p"} : ChannelSelect(m)
  <2>1. task' = task /\ NoCancel
    BY <1>6 DEF RelayUp, P2PUp, PeerOnline, Verified, SetSecCode,
       ChannelSelect
  <2>2. /\ UNCHANGED <<store, count, disk, content, nextID, at, misdeleted>>
        /\ mode' \in {"ts", "p2p"} /\ up' \subseteq {"ts", "p2p"}
        /\ keys' \in BOOLEAN /\ verified' \in BOOLEAN
    BY <1>3, <1>6 DEF RelayUp, P2PUp, PeerOnline, Verified, SetSecCode,
       ChannelSelect
  <2> QED BY <1>2, <2>1, <2>2
<1> QED BY <1>4, <1>5, <1>6 DEF Environment

-----------------------------------------------------------------------------
(***************************************************************************)
(* What the handlers do, one lemma for each.                               *)
(***************************************************************************)
LEMMA IdleIsIdle == Idle.do = "idle"
BY DEF Idle

\* A handler moves its own goroutine only.
Moves(g, a) ==
  /\ DOMAIN at' = Goroutines /\ at'[g] = a
  /\ \A h \in Goroutines \ {g} : at'[h] = at[h]
SameArrays == store' = store /\ count' = count
SameFiles == disk' = disk /\ content' = content
SameTasks == task' = task /\ active' = active
SameLinks == mode' = mode /\ up' = up /\ keys' = keys /\ verified' = verified
SameFate == panicked' = panicked /\ misdeleted' = misdeleted

LEMMA StageFileFacts ==
  ASSUME TypeOK, NEW g \in Goroutines, NEW p \in Paths, StageFile(g, p)
  PROVE  /\ nextID < MaxIds /\ nextID' = nextID + 1 /\ at[g] = Idle
         /\ \E file \in 1..nextID' :
              /\ file = IF disk[p] = Gone THEN nextID' ELSE disk[p]
              /\ disk' = [disk EXCEPT ![p] = file]
              /\ content' = [content EXCEPT ![file] = 0]
              /\ Moves(g, [do |-> "copy", id |-> nextID', path |-> p,
                           file |-> file])
         /\ Sends' = Sends /\ AllTasks(Touched) /\ active' = active
         /\ \A id \in Sends : task'[id].closed = task[id].closed
         /\ \A id \in Sends : task[id].pc # "done" /\ task[id].path = p =>
                                task'[id].hurt
         /\ SameArrays /\ SameLinks /\ SameFate
<1> DEFINE P == {id \in Sends : Running(id) /\ task[id].path = p}
<1>1. task' = [id \in Sends |-> IF id \in P
                 THEN [task[id] EXCEPT !["hurt"] = TRUE] ELSE task[id]]
  BY DEF StageFile, Touch
<1>2. P \subseteq Sends
  OBVIOUS
<1>3. \A id \in Sends : task[id].pc # "done" /\ task[id].path = p => id \in P
  BY DEF Running
<1> HIDE DEF P
<1>4. /\ Sends' = Sends /\ AllTasks(Touched)
      /\ \A id \in Sends : task'[id].closed = task[id].closed
      /\ \A id \in P : task'[id].hurt
  BY <1>1, <1>2, TouchFacts
<1>5. /\ nextID \in Nat /\ disk \in [Paths -> 0..nextID]
      /\ DOMAIN at = Goroutines
  BY FileTransferAssumption DEF TypeOK
<1>6. PICK file : file = IF disk[p] = Gone THEN nextID' ELSE disk[p]
  OBVIOUS
<1>7. /\ nextID < MaxIds /\ nextID' = nextID + 1 /\ at[g] = Idle
      /\ disk' = [disk EXCEPT ![p] = file]
      /\ content' = [content EXCEPT ![file] = 0]
      /\ Moves(g, [do |-> "copy", id |-> nextID', path |-> p, file |-> file])
      /\ active' = active /\ SameArrays /\ SameLinks /\ SameFate
  BY <1>5, <1>6 DEF StageFile, Moves, SameArrays, SameLinks, SameFate,
     stagedVars, linkVars, fateVars
<1>8. file \in 1..nextID'
  BY <1>5, <1>6, <1>7 DEF Gone
<1> QED BY <1>3, <1>4, <1>6, <1>7, <1>8

LEMMA StageDoneFacts ==
  ASSUME TypeOK, NEW g \in Goroutines, StageDone(g)
  PROVE  /\ at[g].do = "copy" /\ Moves(g, Idle)
         /\ content' = [content EXCEPT ![at[g].file] = Blocks[at[g].path]]
         /\ store' \in Seq(Seq(Entries)) /\ store' # <<>>
         /\ count' = count + 1 /\ count' <= Len(store'[Len(store')])
         /\ \A n \in DOMAIN store :
              n \in DOMAIN store' /\ DOMAIN store[n] \subseteq DOMAIN store'[n]
         /\ disk' = disk /\ nextID' = nextID
         /\ SameTasks /\ SameLinks /\ SameFate
<1>1. /\ at[g].do = "copy" /\ Moves(g, Idle)
      /\ content' = [content EXCEPT ![at[g].file] = Blocks[at[g].path]]
      /\ count' = count + 1 /\ disk' = disk /\ nextID' = nextID
      /\ SameTasks /\ SameLinks /\ SameFate
  BY DEF StageDone, TypeOK, Moves, SameTasks, SameLinks, SameFate, envVars,
     linkVars, fateVars
<1>2. [id |-> at[g].id, path |-> at[g].path] \in Entries
  BY <1>1, FileTransferAssumption DEF TypeOK, HandlerTyped, Entries, Ids
<1>3. store' = AppendEntry([id |-> at[g].id, path |-> at[g].path])
  BY DEF StageDone
<1> QED BY <1>1, <1>2, <1>3, AppendEntryFacts

LEMMA StageFailsFacts ==
  ASSUME TypeOK, NEW g \in Goroutines, StageFails(g)
  PROVE  /\ at[g].do = "copy" /\ Moves(g, Idle)
         /\ disk' = [disk EXCEPT ![at[g].path] = Gone] /\ content' = content
         /\ nextID' = nextID /\ SameArrays /\ SameTasks /\ SameLinks
         /\ SameFate
BY DEF StageFails, TypeOK, Moves, SameArrays, SameTasks, SameLinks, SameFate,
   stagedVars, envVars, linkVars, fateVars

LEMMA HandleRequestFacts ==
  ASSUME TypeOK, NEW g \in Goroutines, NEW id \in Ids, HandleRequest(g, id)
  PROVE  /\ at[g] = Idle
         /\ \E i \in 1..count :
              Moves(g, [do |-> "read", ptr |-> <<Len(store), i>>])
         /\ nextID' = nextID /\ SameArrays /\ SameFiles /\ SameTasks
         /\ SameLinks /\ SameFate
BY DEF HandleRequest, TypeOK, Moves, SameArrays, SameFiles, SameTasks,
   SameLinks, SameFate, stagedVars, diskVars, linkVars, fateVars

LEMMA ReadPathFacts ==
  ASSUME TypeOK, NEW g \in Goroutines, ReadPath(g)
  PROVE  /\ at[g].do = "read"
         /\ \/ Moves(g, Idle)
            \/ \E path \in Paths, blocks \in Nat, size \in {"64K", "4M"} :
                 Moves(g, [do |-> "limit", path |-> path, blocks |-> blocks,
                           size |-> size])
         /\ nextID' = nextID /\ SameArrays /\ SameFiles /\ SameTasks
         /\ SameLinks /\ SameFate
<1>1. /\ at[g].do = "read" /\ DOMAIN at = Goroutines /\ nextID' = nextID
      /\ SameArrays /\ SameFiles /\ SameTasks /\ SameLinks /\ SameFate
  BY DEF ReadPath, TypeOK, SameArrays, SameFiles, SameTasks, SameLinks,
     SameFate, stagedVars, diskVars, envVars, linkVars, fateVars
<1> DEFINE n == at[g].ptr[1]
           path == store[n][at[g].ptr[2]].path
<1>2. path \in Paths
  <2>1. n \in DOMAIN store /\ at[g].ptr[2] \in DOMAIN store[n]
    BY <1>1 DEF TypeOK, HandlerTyped
  <2>2. store \in Seq(Seq(Entries))
    BY DEF TypeOK, Entries
  <2>3. \A S : \A q \in Seq(S) : \A j \in DOMAIN q : q[j] \in S
    OBVIOUS
  <2>4. store[n] \in Seq(Entries)
    BY <2>1, <2>2, <2>3
  <2>5. store[n][at[g].ptr[2]] \in Entries
    BY <2>1, <2>3, <2>4
  <2> QED BY <2>5 DEF Entries
<1>3. disk[path] # Gone => content[disk[path]] \in Nat
  <2>1. disk[path] \in 0..nextID /\ nextID \in 0..MaxIds
    BY <1>2 DEF TypeOK
  <2>2. MaxIds \in Nat /\ content \in [Ids -> Nat]
    BY FileTransferAssumption DEF TypeOK
  <2> HIDE DEF path
  <2> QED BY <2>1, <2>2 DEF Gone, Ids
<1>4. at' = [at EXCEPT ![g] =
          IF disk[path] = Gone THEN Idle
          ELSE [do |-> "limit", path |-> path, blocks |-> content[disk[path]],
                size |-> IF mode = "p2p" THEN "64K" ELSE "4M"]]
  BY DEF ReadPath
<1> HIDE DEF path
<1> QED BY <1>1, <1>2, <1>3, <1>4 DEF Moves

\* A transfer as it is when it starts.
Started(a, size) ==
  [path |-> a.path, file |-> Gone, size |-> size,
   total |-> TotalChunks(a.blocks), idx |-> 0, win |-> FALSE,
   acked |-> 0, notify |-> FALSE, closed |-> FALSE, pc |-> "open",
   frame |-> "raw", sent |-> {}, used |-> 0,
   said |-> "begin", hurt |-> ~Whole(a.path, a.blocks)]

LEMMA StartSendFacts ==
  ASSUME TypeOK, NEW g \in Goroutines, StartSend(g)
  PROVE  /\ at[g].do = "limit" /\ Moves(g, Idle)
         /\ nextID < MaxIds /\ nextID' = nextID + 1
         /\ nextID' \notin Sends /\ Sends' = Sends \cup {nextID'}
         /\ active' = active \cup {nextID'}
         /\ \A id \in Sends : task'[id] = task[id]
         /\ \E size : task'[nextID'] = Started(at[g], size)
         /\ SameArrays /\ SameFiles /\ SameLinks /\ SameFate
<1>1. /\ at[g].do = "limit" /\ Moves(g, Idle)
      /\ nextID < MaxIds /\ nextID' = nextID + 1
      /\ active' = active \cup {nextID'}
      /\ SameArrays /\ SameFiles /\ SameLinks /\ SameFate
  BY DEF StartSend, TypeOK, Moves, SameArrays, SameFiles, SameLinks,
     SameFate, stagedVars, diskVars, envVars, linkVars, fateVars
<1>2. nextID' \notin Sends
  BY <1>1, FileTransferAssumption DEF TypeOK
<1> QED BY <1>1, <1>2 DEF StartSend, Sends, Started

LEMMA StartFields ==
  ASSUME TypeOK, NEW g \in Goroutines, StartSend(g)
  PROVE  /\ task'[nextID'].pc = "open" /\ task'[nextID'].idx = 0
         /\ task'[nextID'].win = FALSE /\ task'[nextID'].closed = FALSE
         /\ task'[nextID'].path = at[g].path /\ task'[nextID'].file = Gone
         /\ task'[nextID'].sent = {} /\ task'[nextID'].said = "begin"
         /\ task'[nextID'].total = TotalChunks(at[g].blocks)
         /\ task'[nextID'].hurt = ~Whole(at[g].path, at[g].blocks)
<1>1. PICK u : u = task'[nextID']
  OBVIOUS
<1>2. PICK size : u = Started(at[g], size)
  BY <1>1, StartSendFacts
<1>3. /\ u.pc = "open" /\ u.idx = 0 /\ u.win = FALSE /\ u.closed = FALSE
      /\ u.path = at[g].path /\ u.file = Gone /\ u.sent = {}
      /\ u.said = "begin" /\ u.total = TotalChunks(at[g].blocks)
      /\ u.hurt = ~Whole(at[g].path, at[g].blocks)
  BY <1>2 DEF Started
<1> QED BY <1>1, <1>3

LEMMA HandleAckFacts ==
  ASSUME TypeOK, NEW g \in Goroutines, NEW id \in Ids, HandleAck(g, id)
  PROVE  /\ at[g] = Idle /\ id \in active /\ id \in Sends /\ Sends' = Sends
         /\ \E received \in Nat \ {0} :
              /\ Moves(g, [do |-> "ack", id |-> id, received |-> received])
              /\ task'[id].used = Max({received, task[id].used})
         /\ Steady(task[id], task'[id])
         /\ task'[id].acked = task[id].acked
         /\ task'[id].notify = task[id].notify
         /\ task'[id].closed = task[id].closed
         /\ \A j \in Sends \ {id} : task'[j] = task[j]
         /\ active' = active /\ nextID' = nextID /\ SameArrays /\ SameFiles
         /\ SameLinks /\ SameFate
<1>1. /\ at[g] = Idle /\ id \in active /\ id \in Sends
      /\ DOMAIN task[id] = TaskFields /\ DOMAIN at = Goroutines
      /\ active' = active /\ nextID' = nextID /\ SameArrays /\ SameFiles
      /\ SameLinks /\ SameFate
  BY DEF HandleAck, TypeOK, TaskTyped, SameArrays, SameFiles, SameLinks,
     SameFate, stagedVars, diskVars, envVars, linkVars, fateVars
<1>2. PICK received \in 1..Cardinality(task[id].sent) :
        /\ at' = [at EXCEPT ![g] =
                    [do |-> "ack", id |-> id, received |-> received]]
        /\ Go(id, [used |-> Max({received, task[id].used})])
  BY DEF HandleAck
<1>3. received \in Nat \ {0}
  <2>1. task[id].idx \in Nat /\ task[id].sent \subseteq 0..(task[id].idx - 1)
    BY <1>1 DEF TypeOK, TaskTyped
  <2> DEFINE all == 0..(task[id].idx - 1)
             sent == task[id].sent
  <2>2. IsFiniteSet(all)
    BY SMTT(60), <2>1, FS_Interval
  <2> HIDE DEF all, sent
  <2>3. sent \subseteq all
    BY <2>1 DEF all, sent
  <2>4. Cardinality(sent) \in Nat
    BY <2>2, <2>3, FS_Subset, FS_CardinalityType
  <2> QED BY <2>4 DEF sent
<1>4. /\ Sends' = Sends /\ \A j \in Sends \ {id} : task'[j] = task[j]
      /\ Steady(task[id], task'[id])
      /\ task'[id].acked = task[id].acked
      /\ task'[id].notify = task[id].notify
      /\ task'[id].closed = task[id].closed
      /\ task'[id].used = Max({received, task[id].used})
  BY <1>1, <1>2 DEF Go, Sends, Steady, TaskFields
<1> QED BY <1>1, <1>2, <1>3, <1>4 DEF Moves

LEMMA StoreAckFacts ==
  ASSUME TypeOK, NEW g \in Goroutines, StoreAck(g)
  PROVE  /\ at[g].do = "ack" /\ at[g].id \in Sends /\ Sends' = Sends
         /\ Moves(g, [do |-> "poke", id |-> at[g].id])
         /\ Steady(task[at[g].id], task'[at[g].id])
         /\ task'[at[g].id].used = task[at[g].id].used
         /\ task'[at[g].id].acked = at[g].received
         /\ task'[at[g].id].closed = task[at[g].id].closed
         /\ \A j \in Sends \ {at[g].id} : task'[j] = task[j]
         /\ active' = active /\ nextID' = nextID /\ SameArrays /\ SameFiles
         /\ SameLinks /\ SameFate
<1>1. /\ at[g].do = "ack" /\ at[g].id \in Sends
      /\ DOMAIN task[at[g].id] = TaskFields
      /\ Moves(g, [do |-> "poke", id |-> at[g].id])
      /\ active' = active /\ nextID' = nextID /\ SameArrays /\ SameFiles
      /\ SameLinks /\ SameFate
  BY DEF StoreAck, TypeOK, HandlerTyped, TaskTyped, Moves, SameArrays,
     SameFiles, SameLinks, SameFate, stagedVars, diskVars, envVars, linkVars,
     fateVars
<1>2. Go(at[g].id, [acked |-> at[g].received])
  BY DEF StoreAck
<1> QED BY <1>1, <1>2 DEF Go, Sends, Steady, TaskFields

LEMMA PokeFacts ==
  ASSUME TypeOK, NEW g \in Goroutines, PokeSender(g)
  PROVE  /\ at[g].do = "poke" /\ at[g].id \in Sends /\ Sends' = Sends
         /\ Moves(g, Idle)
         /\ Steady(task[at[g].id], task'[at[g].id])
         /\ task'[at[g].id].used = task[at[g].id].used
         /\ task'[at[g].id].acked = task[at[g].id].acked
         /\ task'[at[g].id].closed = task[at[g].id].closed
         /\ task'[at[g].id].notify
         /\ \A j \in Sends \ {at[g].id} : task'[j] = task[j]
         /\ active' = active /\ nextID' = nextID /\ SameArrays /\ SameFiles
         /\ SameLinks /\ SameFate
<1>1. /\ at[g].do = "poke" /\ at[g].id \in Sends
      /\ DOMAIN task[at[g].id] = TaskFields
      /\ Moves(g, Idle)
      /\ active' = active /\ nextID' = nextID /\ SameArrays /\ SameFiles
      /\ SameLinks /\ SameFate
  BY DEF PokeSender, TypeOK, HandlerTyped, TaskTyped, Moves, SameArrays,
     SameFiles, SameLinks, SameFate, stagedVars, diskVars, envVars, linkVars,
     fateVars
<1>2. Go(at[g].id, [notify |-> TRUE])
  BY DEF PokeSender, Poked
<1> QED BY <1>1, <1>2 DEF Go, Sends, Steady, TaskFields

LEMMA CancelSendFacts ==
  ASSUME TypeOK, NEW g \in Goroutines, NEW id \in Ids, CancelSend(g, id)
  PROVE  /\ id \in active /\ id \in Sends /\ active' = active \ {id}
         /\ Sends' = Sends /\ AllTasks(Touched)
         /\ \A j \in Sends \ {id} : task'[j].closed = task[j].closed
         /\ panicked' = ClosedTwice({id}) /\ misdeleted' = misdeleted
         /\ at' = at /\ nextID' = nextID /\ SameArrays /\ SameFiles
         /\ SameLinks
<1>1. /\ id \in active /\ id \in Sends /\ active' = active \ {id}
      /\ panicked' = ClosedTwice({id}) /\ misdeleted' = misdeleted
      /\ at' = at /\ nextID' = nextID /\ SameArrays /\ SameFiles /\ SameLinks
  BY DEF CancelSend, CancelTasks, TypeOK, SameArrays, SameFiles, SameLinks,
     stagedVars, diskVars, linkVars
<1>2. task' = [j \in Sends |-> IF j \in {id}
                 THEN [task[j] EXCEPT !["closed"] = TRUE] ELSE task[j]]
  BY DEF CancelSend, CancelTasks, Touch
<1>3. /\ Sends' = Sends /\ AllTasks(Touched)
      /\ \A j \in Sends \ {id} : task'[j].closed = task[j].closed
  BY <1>1, <1>2, TouchFacts
<1> QED BY <1>1, <1>3

LEMMA DeleteStagedFacts ==
  ASSUME TypeOK, NEW g \in Goroutines, NEW id \in Ids, DeleteStaged(g, id)
  PROVE  /\ count > 0 /\ count' = count - 1
         /\ \E p \in Paths : disk' = [disk EXCEPT ![p] = Gone]
         /\ content' = content
         /\ store' \in Seq(Seq(Entries)) /\ Len(store') = Len(store)
         /\ DOMAIN store' = DOMAIN store
         /\ \A n \in DOMAIN store : DOMAIN store'[n] = DOMAIN store[n]
         /\ at' = at /\ nextID' = nextID /\ SameTasks /\ SameLinks /\ SameFate
<1>1. PICK i \in 1..count : /\ disk' = [disk EXCEPT ![Staged[i].path] = Gone]
                            /\ store' = Remove(i)
  BY DEF DeleteStaged
<1>2. /\ count' = count - 1 /\ content' = content
      /\ at' = at /\ nextID' = nextID /\ SameTasks /\ SameLinks /\ SameFate
  BY DEF DeleteStaged, SameTasks, SameLinks, SameFate, linkVars, fateVars
<1>3. count > 0 /\ count \in Nat
  BY <1>1 DEF TypeOK
<1>4. Staged[i].path \in Paths
  <2>1. /\ store \in Seq(Seq(Entries)) /\ store # <<>>
        /\ count <= Len(store[Len(store)])
    BY <1>3 DEF TypeOK, Entries
  <2>2. \A S : \A q \in Seq(S) : \A j \in 1..Len(q) : q[j] \in S
    OBVIOUS
  <2>3. Len(store) \in 1..Len(store)
    BY <2>1
  <2>4. store[Len(store)] \in Seq(Entries)
    BY <2>1, <2>2, <2>3
  <2> DEFINE a == store[Len(store)]
  <2>5. Staged = SubSeq(a, 1, count) /\ a \in Seq(Entries) /\ count <= Len(a)
    BY <1>3, <2>1, <2>4 DEF Staged
  <2> HIDE DEF a, Entries
  <2>6. Staged[i] \in Entries
    BY <1>3, <2>5
  <2> QED BY <2>6 DEF Entries
<1>5. \E p \in Paths : disk' = [disk EXCEPT ![p] = Gone]
  BY <1>1, <1>4
<1>6. /\ store' \in Seq(Seq(Entries)) /\ Len(store') = Len(store)
      /\ DOMAIN store' = DOMAIN store
      /\ \A n \in DOMAIN store : DOMAIN store'[n] = DOMAIN store[n]
  BY <1>1, <1>3, RemoveFacts
<1> QED BY <1>2, <1>3, <1>5, <1>6

LEMMA DeleteActiveFacts ==
  ASSUME TypeOK, NEW g \in Goroutines, NEW id \in Ids, DeleteActive(g, id)
  PROVE  /\ Sends' = Sends /\ AllTasks(Touched) /\ active' = active
         /\ panicked' \in BOOLEAN /\ misdeleted'
         /\ misdeleted' \in BOOLEAN
         /\ at' = at /\ nextID' = nextID /\ SameArrays /\ SameFiles
         /\ SameLinks
<1>1. /\ id \in Sends /\ active' = active
      /\ panicked' = ClosedTwice({id}) /\ misdeleted' = TRUE
      /\ at' = at /\ nextID' = nextID /\ SameArrays /\ SameFiles /\ SameLinks
  BY DEF DeleteActive, TypeOK, SameArrays, SameFiles, SameLinks,
     stagedVars, diskVars, linkVars
<1>2. task' = [j \in Sends |-> IF j \in {id}
                 THEN [task[j] EXCEPT !["closed"] = TRUE] ELSE task[j]]
  BY DEF DeleteActive, Touch
<1>3. Sends' = Sends /\ AllTasks(Touched)
  BY <1>1, <1>2, TouchFacts
<1> QED BY <1>1, <1>3 DEF ClosedTwice

-----------------------------------------------------------------------------
(***************************************************************************)
(* Types.                                                                  *)
(***************************************************************************)
\* What a step does to the transfers that were there, as far as types go.
TypedChange(t, u) ==
  /\ Steady(t, u)
  /\ u.used \in Nat /\ u.used >= t.used /\ u.acked \in 0..u.used

Grows(t, u) == u.used \in Nat /\ u.used >= t.used

\* A transfer that has started is well formed.
LEMMA TasksTyped ==
  ASSUME TypeOK, NEW id \in Sends
  PROVE  /\ TaskTyped(task[id])
         /\ TypedChange(task[id], task[id]) /\ Steady(task[id], task[id])
         /\ Grows(task[id], task[id])
<1>1. TaskTyped(task[id])
  BY DEF TypeOK
<1>2. ASSUME NEW t, TaskTyped(t)
      PROVE  TypedChange(t, t) /\ Steady(t, t) /\ Grows(t, t)
  BY <1>2 DEF TaskTyped, TypedChange, Steady, Grows
<1> QED BY <1>1, <1>2

\* What a step does not touch keeps its type.
LEMMA HandlersStayTyped ==
  ASSUME TypeOK, nextID' \in Nat, nextID' >= nextID, AllTasks(Grows),
         \A n \in DOMAIN store :
           n \in DOMAIN store' /\ DOMAIN store[n] \subseteq DOMAIN store'[n],
         NEW h \in Goroutines, at'[h] = at[h]
  PROVE  HandlerTyped(at[h])'
<1>1. nextID \in Nat
  BY FileTransferAssumption DEF TypeOK
<1>2. PICK a : a = at[h]
  OBVIOUS
<1>3. HandlerTyped(a)
  BY <1>2 DEF TypeOK
<1>4. \A id \in Sends : /\ id \in Sends' /\ task'[id].used \in Nat
                        /\ task'[id].used >= task[id].used
                        /\ task[id].used \in Nat
  BY DEF TypeOK, TaskTyped, AllTasks, Grows
<1>5. HandlerTyped(a)'
  BY <1>1, <1>3, <1>4 DEF HandlerTyped
<1> QED BY <1>2, <1>5

LEMMA StaysTyped ==
  ASSUME TypeOK, nextID' \in Nat, nextID' >= nextID, AllTasks(TypedChange),
         \A n \in DOMAIN store :
           n \in DOMAIN store' /\ DOMAIN store[n] \subseteq DOMAIN store'[n]
  PROVE  /\ \A id \in Sends : TaskTyped(task[id])'
         /\ \A h \in Goroutines : at'[h] = at[h] => HandlerTyped(at[h])'
<1>1. nextID \in Nat
  BY FileTransferAssumption DEF TypeOK
<1>2. ASSUME NEW id \in Sends PROVE TaskTyped(task[id])'
  <2>1. PICK t : t = task[id]
    OBVIOUS
  <2>2. PICK u : u = task'[id]
    OBVIOUS
  <2>3. TaskTyped(t) /\ TypedChange(t, u)
    BY <1>2, <2>1, <2>2 DEF TypeOK, AllTasks
  <2>4. TaskTyped(u)'
    <3>1. u.file \in 0..nextID'
      <4>1. t.file \in 0..nextID /\ u.file = t.file
        BY <2>3 DEF TaskTyped, TypedChange, Steady
      <4> QED BY <1>1, <4>1
    <3>2. u.acked \in 0..u.used /\ u.used \in Nat
      BY <2>3 DEF TypedChange
    <3>3. Steady(t, u) /\ TaskTyped(t)
      BY <2>3 DEF TypedChange
    <3> QED BY <3>1, <3>2, <3>3 DEF TaskTyped, Steady
  <2> QED BY <2>2, <2>4
<1>3. AllTasks(Grows)
  BY DEF AllTasks, Grows, TypedChange
<1> QED BY <1>2, <1>3, HandlersStayTyped

LEMMA TouchedTyped ==
  ASSUME TypeOK, AllTasks(Touched) PROVE AllTasks(TypedChange)
BY SMTT(120) DEF AllTasks, Touched, TypedChange, TypeOK, TaskTyped

LEMMA SameTyped ==
  ASSUME TypeOK, SameTasks PROVE AllTasks(Touched) /\ Sends' = Sends
BY DEF AllTasks, Touched, Steady, TypeOK, TaskTyped, SameTasks, Sends

LEMMA ArraysKept ==
  ASSUME TypeOK, SameArrays
  PROVE  /\ store' \in Seq(Seq([id : Ids, path : Paths])) /\ count' \in Nat
         /\ count' > 0 => store' # <<>> /\ count' <= Len(store'[Len(store')])
         /\ \A n \in DOMAIN store :
              n \in DOMAIN store' /\ DOMAIN store[n] \subseteq DOMAIN store'[n]
BY DEF TypeOK, SameArrays

LEMMA TypeStep == ASSUME TypeOK, [Next]_vars PROVE TypeOK'
<1> USE DEF Gone
<1>1. /\ MaxIds \in Nat /\ nextID \in 0..MaxIds /\ nextID \in Nat
      /\ disk \in [Paths -> 0..nextID] /\ content \in [Ids -> Nat]
      /\ active \subseteq Sends /\ Sends \subseteq 1..nextID
      /\ DOMAIN at = Goroutines /\ mode \in {"ts", "p2p"}
      /\ up \subseteq {"ts", "p2p"}
      /\ {keys, verified, panicked, misdeleted} \subseteq BOOLEAN
      /\ Blocks \in [Paths -> Nat]
  BY FileTransferAssumption DEF TypeOK
\* A handler that leaves the arrays, the files and what was there alone.
<1>2. ASSUME NEW g \in Goroutines, NEW a, Moves(g, a), HandlerTyped(a)',
             \A h \in Goroutines : at'[h] = at[h] => HandlerTyped(at[h])'
      PROVE  DOMAIN at' = Goroutines
             /\ \A h \in Goroutines : HandlerTyped(at[h])'
  <2>1. HandlerTyped(at[g])'
    <3>1. at'[g] = a
      BY <1>2 DEF Moves
    <3> QED BY <1>2, <3>1
  <2> QED BY <1>2, <2>1 DEF Moves
<1>3. HandlerTyped(Idle)'
  BY DEF HandlerTyped, Idle
<1>4. ASSUME NEW g \in Goroutines, NEW p \in Paths, StageFile(g, p)
      PROVE  TypeOK'
  <2>1. PICK file \in 1..nextID' :
          /\ file = IF disk[p] = Gone THEN nextID' ELSE disk[p]
          /\ disk' = [disk EXCEPT ![p] = file]
          /\ content' = [content EXCEPT ![file] = 0]
          /\ Moves(g, [do |-> "copy", id |-> nextID', path |-> p,
                       file |-> file])
    BY <1>4, StageFileFacts
  <2>2. /\ nextID' = nextID + 1 /\ nextID' \in 0..MaxIds
        /\ Sends' = Sends /\ AllTasks(TypedChange) /\ active' = active
        /\ SameArrays /\ SameLinks /\ SameFate
    BY <1>1, <1>4, StageFileFacts, TouchedTyped
  <2>3. /\ \A id \in Sends : TaskTyped(task[id])'
        /\ \A h \in Goroutines : at'[h] = at[h] => HandlerTyped(at[h])'
    BY <1>1, <2>2, StaysTyped, ArraysKept
  <2>4. HandlerTyped([do |-> "copy", id |-> nextID, path |-> p,
                      file |-> file])'
    BY <1>1, <2>2 DEF HandlerTyped
  <2>5. DOMAIN at' = Goroutines /\ \A h \in Goroutines : HandlerTyped(at[h])'
    <3>1. PICK a : a = [do |-> "copy", id |-> nextID', path |-> p,
                        file |-> file]
      OBVIOUS
    <3>2. Moves(g, a) /\ HandlerTyped(a)'
      BY <2>1, <2>4, <3>1
    <3> QED BY <1>2, <2>3, <3>2
  <2>6. disk' \in [Paths -> 0..nextID'] /\ content' \in [Ids -> Nat]
    <3>1. 0..nextID \subseteq 0..nextID' /\ file \in 0..nextID'
      BY <1>1, <2>2
    <3>2. disk' \in [Paths -> 0..nextID']
      BY <1>1, <2>1, <3>1
    <3>3. content' \in [Ids -> Nat]
      BY <1>1, <2>1
    <3> QED BY <3>2, <3>3
  <2> QED
    BY <1>1, <2>2, <2>3, <2>5, <2>6, ArraysKept DEF TypeOK, SameLinks, SameFate
<1>5. ASSUME NEW g \in Goroutines, StageDone(g) PROVE TypeOK'
  <2>1. AllTasks(TypedChange) /\ Sends' = Sends
    BY <1>5, StageDoneFacts, SameTyped, TouchedTyped
  <2>2. /\ \A id \in Sends : TaskTyped(task[id])'
        /\ \A h \in Goroutines : at'[h] = at[h] => HandlerTyped(at[h])'
    <3>1. nextID' = nextID /\ \A n \in DOMAIN store :
            n \in DOMAIN store' /\ DOMAIN store[n] \subseteq DOMAIN store'[n]
      BY <1>5, StageDoneFacts
    <3> QED BY <1>1, <2>1, <3>1, StaysTyped
  <2>3. DOMAIN at' = Goroutines /\ \A h \in Goroutines : HandlerTyped(at[h])'
    BY <1>2, <1>3, <1>5, <2>2, StageDoneFacts
  <2>4. content' \in [Ids -> Nat]
    <3>1. /\ at[g].path \in Paths
          /\ content' = [content EXCEPT ![at[g].file] = Blocks[at[g].path]]
      BY <1>5, StageDoneFacts DEF TypeOK, HandlerTyped
    <3> QED BY <1>1, <3>1
  <2>5. count' \in Nat
    BY <1>5, StageDoneFacts DEF TypeOK
  <2> QED
    BY <1>1, <1>5, <2>1, <2>2, <2>3, <2>4, <2>5, StageDoneFacts
    DEF TypeOK, SameLinks, SameFate, SameTasks, Entries
<1>6. ASSUME NEW g \in Goroutines, StageFails(g) PROVE TypeOK'
  <2>1. AllTasks(TypedChange) /\ Sends' = Sends
    BY <1>6, StageFailsFacts, SameTyped, TouchedTyped
  <2>2. /\ \A id \in Sends : TaskTyped(task[id])'
        /\ \A h \in Goroutines : at'[h] = at[h] => HandlerTyped(at[h])'
    BY <1>1, <1>6, <2>1, StaysTyped, StageFailsFacts, ArraysKept
  <2>3. DOMAIN at' = Goroutines /\ \A h \in Goroutines : HandlerTyped(at[h])'
    BY <1>2, <1>3, <1>6, <2>2, StageFailsFacts
  <2>4. disk' \in [Paths -> 0..nextID']
    BY <1>1, <1>6, StageFailsFacts
  <2> QED
    BY <1>1, <1>6, <2>1, <2>2, <2>3, <2>4, StageFailsFacts, ArraysKept
    DEF TypeOK, SameLinks, SameFate, SameTasks
<1>7. ASSUME NEW g \in Goroutines,
             (\E id \in Ids : HandleRequest(g, id)) \/ ReadPath(g)
      PROVE  TypeOK'
  <2>1. /\ nextID' = nextID /\ SameArrays /\ SameFiles /\ SameTasks
        /\ SameLinks /\ SameFate
    BY <1>7, HandleRequestFacts, ReadPathFacts
  <2>2. AllTasks(TypedChange) /\ Sends' = Sends
    BY <2>1, SameTyped, TouchedTyped
  <2>3. /\ \A id \in Sends : TaskTyped(task[id])'
        /\ \A h \in Goroutines : at'[h] = at[h] => HandlerTyped(at[h])'
    <3>1. \A n \in DOMAIN store :
            n \in DOMAIN store' /\ DOMAIN store[n] \subseteq DOMAIN store'[n]
      BY <2>1, ArraysKept
    <3>2. nextID' \in Nat /\ nextID' >= nextID
      BY <1>1, <2>1
    <3> QED BY <2>2, <3>1, <3>2, StaysTyped
  <2>4. \E a : Moves(g, a) /\ HandlerTyped(a)'
    <3>1. CASE \E id \in Ids : HandleRequest(g, id)
      <4>1. PICK i \in 1..count :
              Moves(g, [do |-> "read", ptr |-> <<Len(store), i>>])
        BY <3>1, HandleRequestFacts
      <4>2. Len(store) \in DOMAIN store /\ i \in DOMAIN store[Len(store)]
        <5>1. /\ store \in Seq(Seq(Entries)) /\ store # <<>>
              /\ count <= Len(store[Len(store)]) /\ count \in Nat
          BY DEF TypeOK, Entries
        <5>2. store[Len(store)] \in Seq(Entries)
          BY <5>1
        <5> QED BY <5>1, <5>2
      <4>3. PICK n : n = Len(store)
        OBVIOUS
      <4>4. HandlerTyped([do |-> "read", ptr |-> <<n, i>>])'
        BY <2>1, <4>2, <4>3 DEF HandlerTyped, SameArrays
      <4> QED BY <4>1, <4>3, <4>4
    <3>2. CASE ReadPath(g)
      <4>1. CASE Moves(g, Idle)
        BY <1>3, <4>1
      <4>2. CASE ~Moves(g, Idle)
        <5>1. PICK path \in Paths, blocks \in Nat, size \in {"64K", "4M"} :
                Moves(g, [do |-> "limit", path |-> path, blocks |-> blocks,
                          size |-> size])
          BY <3>2, <4>2, ReadPathFacts
        <5>2. HandlerTyped([do |-> "limit", path |-> path, blocks |-> blocks,
                            size |-> size])'
          BY DEF HandlerTyped
        <5> QED BY <5>1, <5>2
      <4> QED BY <4>1, <4>2
    <3> QED BY <1>7, <3>1, <3>2
  <2>5. DOMAIN at' = Goroutines /\ \A h \in Goroutines : HandlerTyped(at[h])'
    BY <1>2, <2>3, <2>4
  <2> QED
    BY <1>1, <2>1, <2>2, <2>3, <2>5, ArraysKept
    DEF TypeOK, SameLinks, SameFate, SameTasks, SameFiles
<1>8. ASSUME NEW g \in Goroutines, StartSend(g) PROVE TypeOK'
  <2>1. /\ nextID' = nextID + 1 /\ nextID' \in 0..MaxIds
        /\ Sends' = Sends \cup {nextID'} /\ active' = active \cup {nextID'}
        /\ SameArrays /\ SameFiles /\ SameLinks /\ SameFate /\ Moves(g, Idle)
        /\ \A id \in Sends : task'[id] = task[id]
    <3>1. nextID' = nextID + 1 /\ nextID < MaxIds
      BY <1>8, StartSendFacts
    <3> QED BY <1>1, <1>8, <3>1, StartSendFacts
  <2>2. AllTasks(TypedChange)
    <3>1. \A id \in Sends : TypedChange(task[id], task[id])
      BY TasksTyped
    <3> QED BY <2>1, <3>1 DEF AllTasks
  <2>3. /\ \A id \in Sends : TaskTyped(task[id])'
        /\ \A h \in Goroutines : at'[h] = at[h] => HandlerTyped(at[h])'
    BY <1>1, <2>1, <2>2, StaysTyped, ArraysKept
  <2>4. DOMAIN at' = Goroutines /\ \A h \in Goroutines : HandlerTyped(at[h])'
    BY <1>2, <1>3, <2>1, <2>3
  <2>5. at[g].path \in Paths /\ at[g].blocks \in Nat
    BY <1>8, StartSendFacts DEF TypeOK, HandlerTyped
  <2>6. PICK new : new = nextID'
    OBVIOUS
  <2>7. TaskTyped(task[new])'
    <3>1. TotalChunks(at[g].blocks) \in Nat \ {0}
      BY <2>5 DEF TotalChunks
    <3>2. PICK u : u = task'[new]
      OBVIOUS
    <3>3. PICK size : u = Started(at[g], size)
      BY <1>8, <2>6, <3>2, StartSendFacts
    <3>4. DOMAIN u = TaskFields
      BY <3>3 DEF TaskFields, Started
    <3>5. TaskTyped(u)'
      <4> HIDE DEF TaskFields
      <4> QED BY <2>1, <2>5, <3>1, <3>3, <3>4 DEF TaskTyped, SendStates, Started
    <3> QED BY <3>2, <3>5
  <2>8. \A id \in Sends' : TaskTyped(task[id])'
    BY <2>1, <2>3, <2>6, <2>7
  <2>9. active' \subseteq Sends' /\ Sends' \subseteq 1..nextID'
        /\ disk' \in [Paths -> 0..nextID']
    BY <1>1, <2>1 DEF SameFiles
  <2> QED
    BY <1>1, <2>1, <2>4, <2>8, <2>9, ArraysKept
    DEF TypeOK, SameLinks, SameFate, SameFiles
<1>9. ASSUME NEW g \in Goroutines,
             \/ \E id \in Ids : HandleAck(g, id)
             \/ StoreAck(g) \/ PokeSender(g)
      PROVE  TypeOK'
  <2>1. /\ Sends' = Sends /\ active' = active /\ nextID' = nextID
        /\ SameArrays /\ SameFiles /\ SameLinks /\ SameFate
    BY <1>9, HandleAckFacts, StoreAckFacts, PokeFacts
  <2>2. \A id \in Sends : /\ TypedChange(task[id], task[id])
                          /\ task[id].used \in Nat
                          /\ task[id].acked \in 0..task[id].used
    BY DEF TypedChange, Steady, TypeOK, TaskTyped
  <2>3. /\ AllTasks(TypedChange)
        /\ \E a : Moves(g, a) /\ HandlerTyped(a)'
    <3>1. CASE \E id \in Ids : HandleAck(g, id)
      <4>1. PICK id \in Ids : HandleAck(g, id)
        BY <3>1
      <4>2. PICK received \in Nat \ {0} :
              /\ Moves(g, [do |-> "ack", id |-> id, received |-> received])
              /\ task'[id].used = Max({received, task[id].used})
        BY <4>1, HandleAckFacts
      <4>3. id \in Sends
        BY <4>1, HandleAckFacts
      <4>4. /\ task'[id].used \in Nat /\ task'[id].used >= received
            /\ task'[id].used >= task[id].used
        BY <2>2, <4>2, <4>3, MaxFacts
      <4>5. task'[id].acked \in 0..task'[id].used
        BY <2>2, <4>1, <4>3, <4>4, HandleAckFacts
      <4>6. /\ Steady(task[id], task'[id])
            /\ \A j \in Sends \ {id} : task'[j] = task[j]
        BY <4>1, HandleAckFacts
      <4>7. AllTasks(TypedChange)
        BY <2>1, <2>2, <4>3, <4>4, <4>5, <4>6 DEF AllTasks, TypedChange
      <4>8. HandlerTyped([do |-> "ack", id |-> id, received |-> received])'
        BY <2>1, <4>3, <4>4 DEF HandlerTyped
      <4> QED BY <4>2, <4>7, <4>8
    <3>2. CASE StoreAck(g)
      <4>1. PICK id : id = at[g].id
        OBVIOUS
      <4>2. /\ id \in Sends /\ Moves(g, [do |-> "poke", id |-> id])
            /\ Steady(task[id], task'[id])
            /\ task'[id].used = task[id].used
            /\ task'[id].acked = at[g].received
            /\ \A j \in Sends \ {id} : task'[j] = task[j]
            /\ at[g].do = "ack"
        BY <3>2, <4>1, StoreAckFacts
      <4>3. at[g].received \in 1..task[id].used
        BY <4>1, <4>2 DEF TypeOK, HandlerTyped
      <4>4. task'[id].acked \in 0..task'[id].used
        BY <2>2, <4>2, <4>3
      <4>5. AllTasks(TypedChange)
        BY <2>1, <2>2, <4>2, <4>4 DEF AllTasks, TypedChange
      <4>6. HandlerTyped([do |-> "poke", id |-> id])'
        BY <2>1, <4>2 DEF HandlerTyped
      <4> QED BY <4>2, <4>5, <4>6
    <3>3. CASE PokeSender(g)
      <4>1. AllTasks(TypedChange)
        BY <2>1, <2>2, <3>3, PokeFacts DEF AllTasks, TypedChange
      <4> QED BY <1>3, <3>3, <4>1, PokeFacts
    <3> QED BY <1>9, <3>1, <3>2, <3>3
  <2>4. /\ \A id \in Sends : TaskTyped(task[id])'
        /\ \A h \in Goroutines : at'[h] = at[h] => HandlerTyped(at[h])'
    BY <1>1, <2>1, <2>3, StaysTyped, ArraysKept
  <2>5. DOMAIN at' = Goroutines /\ \A h \in Goroutines : HandlerTyped(at[h])'
    BY <1>2, <2>3, <2>4
  <2> QED
    BY <1>1, <2>1, <2>4, <2>5, ArraysKept
    DEF TypeOK, SameLinks, SameFate, SameFiles
<1>10. ASSUME NEW g \in Goroutines, NEW id \in Ids,
              CancelSend(g, id) \/ DeleteActive(g, id)
       PROVE  TypeOK'
  <2>1. /\ Sends' = Sends /\ AllTasks(TypedChange) /\ active' \subseteq active
        /\ panicked' \in BOOLEAN /\ misdeleted' \in BOOLEAN
        /\ at' = at /\ nextID' = nextID /\ SameArrays /\ SameFiles /\ SameLinks
    BY <1>1, <1>10, CancelSendFacts, DeleteActiveFacts, TouchedTyped
    DEF ClosedTwice
  <2>2. /\ \A j \in Sends : TaskTyped(task[j])'
        /\ \A h \in Goroutines : at'[h] = at[h] => HandlerTyped(at[h])'
    BY <1>1, <2>1, StaysTyped, ArraysKept
  <2> QED
    BY <1>1, <2>1, <2>2, ArraysKept DEF TypeOK, SameLinks, SameFiles
<1>11. ASSUME NEW g \in Goroutines, NEW id \in Ids, DeleteStaged(g, id)
       PROVE  TypeOK'
  <2>1. /\ Sends' = Sends /\ AllTasks(TypedChange)
        /\ at' = at /\ nextID' = nextID /\ SameTasks /\ SameLinks /\ SameFate
        /\ content' = content
        /\ \A n \in DOMAIN store :
             n \in DOMAIN store' /\ DOMAIN store[n] \subseteq DOMAIN store'[n]
    BY <1>11, DeleteStagedFacts, SameTyped, TouchedTyped
  <2>2. /\ \A j \in Sends : TaskTyped(task[j])'
        /\ \A h \in Goroutines : at'[h] = at[h] => HandlerTyped(at[h])'
    BY <1>1, <2>1, StaysTyped
  <2>3. disk' \in [Paths -> 0..nextID']
    <3>1. PICK p \in Paths : disk' = [disk EXCEPT ![p] = Gone]
      BY <1>11, DeleteStagedFacts
    <3> QED BY <1>1, <2>1, <3>1
  <2>4. /\ store' \in Seq(Seq([id : Ids, path : Paths])) /\ count' \in Nat
        /\ count' > 0 => store' # <<>> /\ count' <= Len(store'[Len(store')])
    <3>1. /\ store' \in Seq(Seq(Entries)) /\ Len(store') = Len(store)
          /\ count' = count - 1 /\ count > 0
          /\ \A n \in DOMAIN store : DOMAIN store'[n] = DOMAIN store[n]
      BY <1>11, DeleteStagedFacts
    <3>2. /\ store \in Seq(Seq(Entries)) /\ store # <<>> /\ count \in Nat
          /\ count <= Len(store[Len(store)])
      BY <3>1 DEF TypeOK, Entries
    <3> DEFINE n == Len(store)
    <3>3. \A S : \A q \in Seq(S) : \A k \in 1..Len(q) : q[k] \in S
      OBVIOUS
    <3>4. n \in 1..Len(store) /\ n \in DOMAIN store
      BY <3>2
    <3>5. store[n] \in Seq(Entries) /\ store'[n] \in Seq(Entries)
      BY <3>1, <3>2, <3>3, <3>4
    <3>6. DOMAIN store'[n] = DOMAIN store[n]
      BY <3>1, <3>4
    <3>7. Len(store'[n]) = Len(store[n])
      BY <3>5, <3>6
    <3>8. count' \in Nat /\ count' <= Len(store'[Len(store')])
      BY <3>1, <3>2, <3>7
    <3> QED BY <3>1, <3>2, <3>8 DEF Entries
  <2> QED
    BY <1>1, <2>1, <2>2, <2>3, <2>4
    DEF TypeOK, SameLinks, SameFate, SameTasks
<1>12. ASSUME NEW id, SendFile(id) PROVE TypeOK'
  <2>1. /\ id \in Sends /\ Sends' = Sends
        /\ \A j \in Sends \ {id} : task'[j] = task[j]
        /\ DOMAIN task'[id] = TaskFields
        /\ Kept(task[id], task'[id]) /\ SenderMoves(task[id], task'[id])
        /\ active' \subseteq active
        /\ UNCHANGED <<store, count, disk, content, nextID, at, mode, up,
                       keys, verified, events, panicked, misdeleted>>
    BY <1>12, SendStep
  <2>2. TaskTyped(task[id])'
    <3>1. PICK t : t = task[id]
      OBVIOUS
    <3>2. PICK u : u = task'[id]
      OBVIOUS
    <3>3. /\ TaskTyped(t) /\ Kept(t, u) /\ SenderMoves(t, u)
          /\ DOMAIN u = TaskFields
      BY <2>1, <3>1, <3>2 DEF TypeOK
    <3>4. t.path \in Paths => disk[t.path] \in 0..nextID
      BY <1>1
    <3>5. TaskTyped(u)
      BY <3>3, <3>4 DEF TaskTyped, Kept, SenderMoves, SameCount, SendStates,
         NextRead
    <3> QED BY <2>1, <3>2, <3>5 DEF TaskTyped
  <2>3. AllTasks(Grows)
    <3>1. \A j \in Sends : Grows(task[j], task[j])
      BY TasksTyped
    <3>2. Grows(task[id], task'[id])
      BY <2>1, <3>1 DEF Grows, Kept
    <3> QED BY <2>1, <3>1, <3>2 DEF AllTasks
  <2>4. \A h \in Goroutines : HandlerTyped(at[h])'
    BY <1>1, <2>1, <2>3, HandlersStayTyped
  <2>5. \A j \in Sends : TaskTyped(task[j])'
    BY <2>1, <2>2 DEF TypeOK, TaskTyped
  <2> QED BY <1>1, <2>1, <2>4, <2>5 DEF TypeOK
<1>13. ASSUME Environment PROVE TypeOK'
  <2>1. /\ UNCHANGED <<store, count, disk, content, nextID, at, misdeleted>>
        /\ Sends' = Sends /\ AllTasks(TypedChange)
        /\ active' \subseteq active /\ panicked' \in BOOLEAN
        /\ mode' \in {"ts", "p2p"} /\ up' \subseteq {"ts", "p2p"}
        /\ keys' \in BOOLEAN /\ verified' \in BOOLEAN
    BY <1>1, <1>13, EnvironmentStep, TouchedTyped DEF ClosedTwice
  <2>2. /\ \A j \in Sends : TaskTyped(task[j])'
        /\ \A h \in Goroutines : at'[h] = at[h] => HandlerTyped(at[h])'
    BY <1>1, <2>1, StaysTyped
  <2> QED BY <1>1, <2>1, <2>2 DEF TypeOK
<1>14. CASE UNCHANGED vars
  BY <1>14 DEF vars, linkVars, TypeOK, TaskTyped, HandlerTyped, Sends
<1> QED
  BY <1>4, <1>5, <1>6, <1>7, <1>8, <1>9, <1>10, <1>11, <1>12, <1>13, <1>14
  DEF Next, Handler, RequestStaging

LEMMA TypeInit == ASSUME Init PROVE TypeOK
<1>1. \A S : <<>> \in Seq(S)
  OBVIOUS
<1>2. DOMAIN <<>> = {}
  OBVIOUS
<1>3. HandlerTyped(Idle)
  BY DEF HandlerTyped, Idle
<1>4. \A p \in Paths : disk[p] = 0
  BY DEF Init, Gone
<1>5. task = <<>> /\ Sends = {}
  BY <1>2 DEF Init, Sends
<1>6. /\ store \in Seq(Seq([id : Ids, path : Paths])) /\ count = 0
      /\ nextID = 0 /\ MaxIds \in Nat
  BY <1>1, FileTransferAssumption DEF Init
<1>7. disk \in [Paths -> 0..nextID] /\ content \in [Ids -> Nat]
  BY <1>6 DEF Init, Gone
<1>8. DOMAIN at = Goroutines /\ \A g \in Goroutines : HandlerTyped(at[g])
  BY <1>3 DEF Init
<1>9. /\ mode = "ts" /\ up = {"ts"} /\ active = {}
      /\ keys = TRUE /\ verified = TRUE
      /\ panicked = FALSE /\ misdeleted = FALSE
  BY DEF Init
<1>10. /\ mode \in {"ts", "p2p"} /\ up \subseteq {"ts", "p2p"}
       /\ {keys, verified, panicked, misdeleted} \subseteq BOOLEAN
  BY <1>9
<1>11. count \in Nat /\ nextID \in 0..MaxIds
  BY <1>6
<1> HIDE DEF Ids
<1> QED BY <1>5, <1>6, <1>7, <1>8, <1>9, <1>10, <1>11 DEF TypeOK

-----------------------------------------------------------------------------
(***************************************************************************)
(* The window and the pokes.                                               *)
(***************************************************************************)
\* The steps that are not sendFile's: the transfers they start are not sent
\* yet, and those they find are where they were.
LEMMA OthersStep ==
  ASSUME TypeOK,
         (\E g \in Goroutines : Handler(g)) \/ Environment \/ UNCHANGED vars
  PROVE  /\ AllTasks(Steady) /\ AllTasks(Grows)
         /\ \A id \in Sends' \ Sends :
              task'[id].pc = "open" /\ task'[id].idx = 0 /\ ~task'[id].win
<1> DEFINE Goal == /\ AllTasks(Steady) /\ AllTasks(Grows)
                   /\ \A id \in Sends' \ Sends : /\ task'[id].pc = "open"
                                                 /\ task'[id].idx = 0
                                                 /\ ~task'[id].win
<1>1. \A id \in Sends : Steady(task[id], task[id]) /\ Grows(task[id], task[id])
  BY TasksTyped
<1>2. ASSUME Sends' = Sends, AllTasks(Touched) PROVE Goal
  BY <1>1, <1>2 DEF AllTasks, Touched, Grows, Steady
<1> HIDE DEF Goal
<1>3. ASSUME NEW g \in Goroutines, Handler(g) PROVE Goal
  <2>1. CASE RequestStaging(g)
    BY <1>2, <2>1, StageFileFacts DEF RequestStaging
  <2>2. CASE StageDone(g) \/ StageFails(g) \/ ReadPath(g)
             \/ \E id \in Ids : HandleRequest(g, id) \/ DeleteStaged(g, id)
    BY <1>2, <2>2, StageDoneFacts, StageFailsFacts, ReadPathFacts,
       HandleRequestFacts, DeleteStagedFacts, SameTyped
  <2>3. CASE StartSend(g)
    <3>1. /\ Sends' = Sends \cup {nextID'}
          /\ \A id \in Sends : task'[id] = task[id]
      BY <2>3, StartSendFacts
    <3>2. /\ task'[nextID'].pc = "open" /\ task'[nextID'].idx = 0
          /\ ~task'[nextID'].win
      BY <2>3, StartFields
    <3> QED BY <1>1, <3>1, <3>2 DEF Goal, AllTasks
  <2>4. CASE \E id \in Ids : HandleAck(g, id)
    <3>1. PICK id \in Ids : HandleAck(g, id)
      BY <2>4
    <3>2. PICK received \in Nat : task'[id].used
                                    = Max({received, task[id].used})
      BY <3>1, HandleAckFacts
    <3>3. id \in Sends /\ task[id].used \in Nat
      BY <3>1, HandleAckFacts DEF TypeOK, TaskTyped
    <3>4. Grows(task[id], task'[id])
      BY <3>2, <3>3, MaxFacts DEF Grows
    <3> QED BY <1>1, <3>1, <3>4, HandleAckFacts DEF Goal, AllTasks
  <2>5. CASE StoreAck(g) \/ PokeSender(g)
    <3>1. PICK id : id = at[g].id
      OBVIOUS
    <3>2. /\ id \in Sends /\ Sends' = Sends /\ Steady(task[id], task'[id])
          /\ task'[id].used = task[id].used
          /\ \A j \in Sends \ {id} : task'[j] = task[j]
      BY <2>5, <3>1, StoreAckFacts, PokeFacts
    <3>3. Grows(task[id], task'[id])
      BY <1>1, <3>2 DEF Grows
    <3> QED BY <1>1, <3>2, <3>3 DEF Goal, AllTasks
  <2>6. CASE \E id \in Ids : CancelSend(g, id) \/ DeleteActive(g, id)
    BY <1>2, <2>6, CancelSendFacts, DeleteActiveFacts
  <2> QED
    BY <1>3, <2>1, <2>2, <2>3, <2>4, <2>5, <2>6 DEF Handler
<1>4. CASE Environment
  BY <1>2, <1>4, EnvironmentStep DEF Goal
<1>5. CASE UNCHANGED vars
  BY <1>1, <1>5 DEF vars, Goal, AllTasks, Sends
<1> QED BY <1>3, <1>4, <1>5 DEF Goal

LEMMA WindowStep == ASSUME TypeOK, WindowInv, [Next]_vars PROVE WindowInv'
<1> USE FileTransferAssumption
<1>1. ASSUME NEW id, SendFile(id) PROVE WindowInv'
  <2>1. /\ id \in Sends /\ Sends' = Sends
        /\ \A j \in Sends \ {id} : task'[j] = task[j]
        /\ Kept(task[id], task'[id]) /\ SenderMoves(task[id], task'[id])
    BY <1>1, SendStep
  <2>2. PICK t : t = task[id]
    OBVIOUS
  <2>3. PICK u : u = task'[id]
    OBVIOUS
  <2>4. /\ InWindow(t) /\ TaskTyped(t) /\ Kept(t, u) /\ SenderMoves(t, u)
    BY <2>1, <2>2, <2>3 DEF WindowInv, TypeOK
  <2>5. /\ t.idx \in Nat /\ t.used \in Nat /\ t.acked \in Nat
        /\ t.acked <= t.used /\ AckWindow \in Nat \ {0}
    BY <2>4 DEF TaskTyped
  <2>6. InWindow(u)
    BY <2>4, <2>5
    DEF InWindow, Kept, SenderMoves, SameCount, WindowOpen, NextRead
  <2> QED BY <2>1, <2>3, <2>6 DEF WindowInv, InWindow
<1>2. ASSUME AllTasks(Steady), AllTasks(Grows),
             \A id \in Sends' \ Sends :
               task'[id].pc = "open" /\ task'[id].idx = 0 /\ ~task'[id].win
      PROVE  WindowInv'
  <2>1. ASSUME NEW id \in Sends PROVE InWindow(task[id])'
    <3>1. PICK t : t = task[id]
      OBVIOUS
    <3>2. PICK u : u = task'[id]
      OBVIOUS
    <3>3. /\ InWindow(t) /\ TaskTyped(t) /\ Steady(t, u) /\ Grows(t, u)
      BY <1>2, <3>1, <3>2 DEF WindowInv, TypeOK, AllTasks
    <3>4. InWindow(u)
      BY <3>3 DEF InWindow, Steady, Grows, TaskTyped
    <3> QED BY <3>2, <3>4 DEF InWindow
  <2> QED BY <1>2, <2>1 DEF WindowInv, InWindow
<1> QED BY <1>1, <1>2, OthersStep DEF Next

LEMMA WindowHolds == ASSUME TypeOK, WindowInv PROVE WindowHeld
<1> SUFFICES ASSUME NEW id \in Sends, task[id].win
             PROVE  Cardinality(task[id].sent) <= task[id].used + AckWindow
  BY DEF WindowHeld
<1> DEFINE sent == task[id].sent
           idx == task[id].idx
<1>1. /\ idx \in Nat /\ sent \subseteq 0..(idx - 1) /\ AckWindow \in Nat
      /\ task[id].used \in Nat /\ idx <= task[id].used + AckWindow
  BY FileTransferAssumption DEF TypeOK, TaskTyped, WindowInv, InWindow
<1> HIDE DEF sent, idx
<1>2. IsFiniteSet(0..(idx - 1)) /\ Cardinality(0..(idx - 1)) = idx
  <2>1. idx - 1 \in Int /\ 0 \in Int
    BY <1>1
  <2>2. /\ IsFiniteSet(0..(idx - 1))
        /\ Cardinality(0..(idx - 1))
             = IF 0 > idx - 1 THEN 0 ELSE (idx - 1) - 0 + 1
    BY <2>1, FS_Interval
  <2> QED BY <1>1, <2>2
<1>3. Cardinality(sent) \in Nat /\ Cardinality(sent) <= idx
  BY ZenonT(60), <1>1, <1>2, FS_Subset, FS_CardinalityType
<1> QED BY <1>1, <1>3 DEF sent

\* A sender that stays where it is keeps its poke.
LEMMA WokenKept ==
  ASSUME TypeOK, NEW id \in Sends, Woken(id), Steady(task[id], task'[id]),
         task'[id].acked = task[id].acked, task'[id].notify = task[id].notify,
         \A h \in Goroutines : at[h].do = "poke" /\ at[h].id = id =>
                                 at'[h] = at[h]
  PROVE  Woken(id)'
BY DEF Woken, Steady, WindowOpen

LEMMA WakeStep == ASSUME TypeOK, WakeInv, [Next]_vars PROVE WakeInv'
<1>1. ASSUME NEW id, SendFile(id) PROVE WakeInv'
  <2>1. /\ id \in Sends /\ Sends' = Sends
        /\ \A j \in Sends \ {id} : task'[j] = task[j]
        /\ Kept(task[id], task'[id]) /\ SenderMoves(task[id], task'[id])
        /\ at' = at
    BY <1>1, SendStep
  <2>2. Woken(id)'
    BY <2>1 DEF WakeInv, Woken, Kept, SenderMoves, SameCount, WindowOpen,
       NextRead
  <2>3. \A j \in Sends \ {id} : Woken(j)'
    BY <2>1 DEF WakeInv, Woken, WindowOpen
  <2> QED BY <2>1, <2>2, <2>3 DEF WakeInv
<1>2. \A id \in Sends : Steady(task[id], task[id])
  BY DEF TypeOK, TaskTyped, Steady
\* The steps that leave the acks and the pokes alone.
<1>3. ASSUME AllTasks(Touched),
             \A id \in Sends' \ Sends : task'[id].pc = "open",
             \A h \in Goroutines : at[h].do = "poke" => at'[h] = at[h]
      PROVE  WakeInv'
  <2>1. \A id \in Sends : Woken(id)'
    BY <1>3, WokenKept DEF WakeInv, AllTasks, Touched
  <2> QED BY <1>3, <2>1 DEF WakeInv, Woken
<1>4. ASSUME NEW g \in Goroutines, Handler(g) PROVE WakeInv'
  <2>1. CASE RequestStaging(g)
    <3>1. /\ AllTasks(Touched) /\ Sends' = Sends /\ at[g].do # "poke"
          /\ \A h \in Goroutines \ {g} : at'[h] = at[h]
      BY <2>1, StageFileFacts, IdleIsIdle DEF RequestStaging, Moves
    <3> QED BY <1>3, <3>1
  <2>2. CASE StageDone(g) \/ StageFails(g) \/ ReadPath(g)
             \/ \E id \in Ids : HandleRequest(g, id)
    <3>1. /\ SameTasks /\ at[g].do # "poke"
          /\ \A h \in Goroutines \ {g} : at'[h] = at[h]
      BY <2>2, StageDoneFacts, StageFailsFacts, ReadPathFacts,
         HandleRequestFacts, IdleIsIdle DEF Moves
    <3> QED BY <1>3, <3>1, SameTyped
  <2>3. CASE StartSend(g)
    <3>1. /\ Sends' = Sends \cup {nextID'} /\ task'[nextID'].pc = "open"
          /\ \A id \in Sends : task'[id] = task[id]
          /\ at[g].do # "poke"
          /\ \A h \in Goroutines \ {g} : at'[h] = at[h]
      BY <2>3, StartSendFacts, StartFields DEF Moves
    <3>2. AllTasks(Touched)
      BY <1>2, <3>1 DEF AllTasks, Touched
    <3> QED BY <1>3, <3>1, <3>2
  <2>4. CASE \E id \in Ids : HandleAck(g, id)
    <3>1. PICK id \in Ids : HandleAck(g, id)
      BY <2>4
    <3>2. /\ id \in Sends /\ Sends' = Sends /\ at[g].do # "poke"
          /\ \A h \in Goroutines \ {g} : at'[h] = at[h]
          /\ \A j \in Sends : /\ Steady(task[j], task'[j])
                              /\ task'[j].acked = task[j].acked
                              /\ task'[j].notify = task[j].notify
      BY <1>2, <3>1, HandleAckFacts, IdleIsIdle DEF Moves
    <3> QED BY <3>2, WokenKept DEF WakeInv
  <2>5. CASE StoreAck(g)
    <3>1. PICK id : id = at[g].id
      OBVIOUS
    <3>2. /\ id \in Sends /\ Sends' = Sends /\ at[g].do = "ack"
          /\ at'[g] = [do |-> "poke", id |-> id]
          /\ \A h \in Goroutines \ {g} : at'[h] = at[h]
          /\ \A j \in Sends \ {id} : task'[j] = task[j]
      BY <2>5, <3>1, StoreAckFacts DEF Moves
    <3>3. Woken(id)'
      BY <3>2 DEF Woken
    <3>4. \A j \in Sends \ {id} : Woken(j)'
      BY <1>2, <3>2, WokenKept DEF WakeInv
    <3> QED BY <3>2, <3>3, <3>4 DEF WakeInv
  <2>6. CASE PokeSender(g)
    <3>1. PICK id : id = at[g].id
      OBVIOUS
    <3>2. /\ id \in Sends /\ Sends' = Sends /\ task'[id].notify
          /\ \A h \in Goroutines \ {g} : at'[h] = at[h]
          /\ \A j \in Sends \ {id} : task'[j] = task[j]
      BY <2>6, <3>1, PokeFacts DEF Moves
    <3>3. Woken(id)'
      BY <3>2 DEF Woken
    <3>4. \A j \in Sends \ {id} : Woken(j)'
      BY <1>2, <3>1, <3>2, WokenKept DEF WakeInv
    <3> QED BY <3>2, <3>3, <3>4 DEF WakeInv
  <2>7. CASE \E id \in Ids : CancelSend(g, id) \/ DeleteActive(g, id)
    BY <1>3, <2>7, CancelSendFacts, DeleteActiveFacts
  <2>8. CASE \E id \in Ids : DeleteStaged(g, id)
    BY <1>3, <2>8, DeleteStagedFacts, SameTyped
  <2> QED
    BY <1>4, <2>1, <2>2, <2>3, <2>4, <2>5, <2>6, <2>7, <2>8 DEF Handler
<1>5. CASE Environment
  BY <1>3, <1>5, EnvironmentStep
<1>6. CASE UNCHANGED vars
  BY <1>6 DEF vars, WakeInv, Woken, WindowOpen, Sends
<1> QED BY <1>1, <1>4, <1>5, <1>6 DEF Next

-----------------------------------------------------------------------------
(***************************************************************************)
(* Cancels.                                                                *)
(***************************************************************************)
LEMMA OpenStep == ASSUME TypeOK, OpenInv, [Next]_vars PROVE OpenInv'
<1>1. active \subseteq Sends
  BY DEF TypeOK
<1>2. ASSUME active' \subseteq active, panicked' = panicked,
             misdeleted' = misdeleted,
             \A id \in Sends : task'[id].closed = task[id].closed
      PROVE  OpenInv'
  BY <1>1, <1>2 DEF OpenInv
<1>3. ASSUME NEW id, SendFile(id) PROVE OpenInv'
  <2>1. \A j \in Sends : task'[j].closed = task[j].closed
    BY <1>3, SendStep DEF Kept
  <2> QED BY <1>2, <1>3, <2>1, SendStep
<1>4. ASSUME NEW g \in Goroutines, Handler(g) PROVE OpenInv'
  <2>1. CASE RequestStaging(g)
    BY <1>2, <2>1, StageFileFacts DEF RequestStaging, SameFate
  <2>2. CASE StageDone(g) \/ StageFails(g) \/ ReadPath(g)
             \/ \E id \in Ids : HandleRequest(g, id) \/ DeleteStaged(g, id)
    <3>1. SameTasks /\ SameFate
      BY <2>2, StageDoneFacts, StageFailsFacts, ReadPathFacts,
         HandleRequestFacts, DeleteStagedFacts
    <3> QED BY <1>2, <3>1 DEF SameTasks, SameFate
  <2>3. CASE StartSend(g)
    <3>1. /\ active' = active \cup {nextID'} /\ SameFate
          /\ \A id \in Sends : task'[id] = task[id]
          /\ task'[nextID'].closed = FALSE
      BY <2>3, StartSendFacts, StartFields
    <3> QED BY <1>1, <3>1 DEF OpenInv, SameFate
  <2>4. CASE \E id \in Ids : HandleAck(g, id)
    <3>1. /\ active' = active /\ SameFate
          /\ \A id \in Sends : task'[id].closed = task[id].closed
      BY <2>4, HandleAckFacts
    <3> QED BY <1>2, <3>1 DEF SameFate
  <2>5. CASE StoreAck(g) \/ PokeSender(g)
    <3>1. /\ active' = active /\ SameFate
          /\ \A id \in Sends : task'[id].closed = task[id].closed
      BY <2>5, StoreAckFacts, PokeFacts
    <3> QED BY <1>2, <3>1 DEF SameFate
  <2>6. CASE \E id \in Ids : CancelSend(g, id)
    BY <1>1, <2>6, CancelSendFacts DEF OpenInv, ClosedTwice
  <2>7. CASE \E id \in Ids : DeleteActive(g, id)
    BY <2>7, DeleteActiveFacts DEF OpenInv
  <2> QED
    BY <1>4, <2>1, <2>2, <2>3, <2>4, <2>5, <2>6, <2>7 DEF Handler
<1>5. CASE Environment
  <2>1. CASE active' = active /\ panicked' = panicked
               /\ \A id \in Sends : task'[id].closed = task[id].closed
    BY <1>2, <1>5, <2>1, EnvironmentStep
  <2>2. CASE active' = {} /\ panicked' = ClosedTwice(active)
    BY <1>5, <2>2, EnvironmentStep DEF OpenInv, ClosedTwice
  <2> QED BY <1>5, <2>1, <2>2, EnvironmentStep
<1>6. CASE UNCHANGED vars
  BY <1>2, <1>6 DEF vars, fateVars
<1> QED BY <1>3, <1>4, <1>5, <1>6 DEF Next

-----------------------------------------------------------------------------
(***************************************************************************)
(* The files.                                                              *)
(***************************************************************************)
\* The steps that create no file and give none a new holder.
LEMMA NamesKept ==
  ASSUME TypeOK, OneName, AllTasks(Steady),
         \A p \in Paths : disk'[p] = disk[p] \/ disk'[p] = Gone,
         \A h \in Goroutines : at'[h] = at[h] \/ at'[h].do # "copy",
         \A id \in Sends' \ Sends : task'[id].file = Gone
  PROVE  OneName'
<1>1. \A h \in Goroutines : at[h].do = "copy" => at[h].file # Gone
  BY DEF TypeOK, HandlerTyped, Gone
<1>2. \A id \in Sends : /\ task'[id].file = task[id].file
                        /\ task'[id].path = task[id].path
  BY DEF AllTasks, Steady
<1> QED BY <1>1, <1>2 DEF OneName

\* Only StageFile makes a goroutine copy.
LEMMA NobodyElseCopies ==
  ASSUME TypeOK, NEW g \in Goroutines,
         \/ \E id \in Ids : HandleRequest(g, id) \/ HandleAck(g, id)
         \/ ReadPath(g) \/ StoreAck(g) \/ PokeSender(g)
         \/ StageDone(g) \/ StageFails(g) \/ StartSend(g)
  PROVE  \A h \in Goroutines : at'[h] = at[h] \/ at'[h].do # "copy"
<1>1. CASE \E id \in Ids : HandleRequest(g, id)
  <2>1. PICK i : Moves(g, [do |-> "read", ptr |-> <<Len(store), i>>])
    BY <1>1, HandleRequestFacts
  <2>2. PICK a : a = [do |-> "read", ptr |-> <<Len(store), i>>]
    OBVIOUS
  <2>3. Moves(g, a) /\ a.do = "read"
    BY <2>1, <2>2
  <2> QED BY <2>3 DEF Moves
<1>2. CASE \E id \in Ids : HandleAck(g, id)
  <2>1. PICK id, received :
          Moves(g, [do |-> "ack", id |-> id, received |-> received])
    BY <1>2, HandleAckFacts
  <2>2. PICK a : a = [do |-> "ack", id |-> id, received |-> received]
    OBVIOUS
  <2>3. Moves(g, a) /\ a.do = "ack"
    BY <2>1, <2>2
  <2> QED BY <2>3 DEF Moves
<1>3. CASE ReadPath(g)
  <2>1. CASE Moves(g, Idle)
    BY <2>1, IdleIsIdle DEF Moves
  <2>2. CASE ~Moves(g, Idle)
    <3>1. PICK path, blocks, size :
            Moves(g, [do |-> "limit", path |-> path, blocks |-> blocks,
                      size |-> size])
      BY <1>3, <2>2, ReadPathFacts
    <3>2. PICK a : a = [do |-> "limit", path |-> path, blocks |-> blocks,
                        size |-> size]
      OBVIOUS
    <3>3. Moves(g, a) /\ a.do = "limit"
      BY <3>1, <3>2
    <3> QED BY <3>3 DEF Moves
  <2> QED BY <2>1, <2>2
<1>4. CASE StoreAck(g)
  <2>1. PICK a : a = [do |-> "poke", id |-> at[g].id]
    OBVIOUS
  <2>2. Moves(g, a) /\ a.do = "poke"
    BY <1>4, <2>1, StoreAckFacts
  <2> QED BY <2>2 DEF Moves
<1>5. CASE PokeSender(g) \/ StageDone(g) \/ StageFails(g) \/ StartSend(g)
  <2>1. Moves(g, Idle)
    BY <1>5, PokeFacts, StageDoneFacts, StageFailsFacts, StartSendFacts
  <2> QED BY <2>1, IdleIsIdle DEF Moves
<1> QED BY <1>1, <1>2, <1>3, <1>4, <1>5

LEMMA NameStep == ASSUME TypeOK, OneName, [Next]_vars PROVE OneName'
<1>1. \A id \in Sends : Steady(task[id], task[id])
  BY DEF TypeOK, TaskTyped, Steady
<1>2. ASSUME NEW id, SendFile(id) PROVE OneName'
  <2>1. /\ id \in Sends /\ Sends' = Sends /\ at' = at /\ disk' = disk
        /\ \A j \in Sends \ {id} : task'[j] = task[j]
        /\ Kept(task[id], task'[id]) /\ SenderMoves(task[id], task'[id])
    BY <1>2, SendStep
  <2>2. /\ task'[id].path = task[id].path /\ task[id].path \in Paths
        /\ task'[id].file \in {task[id].file, disk[task[id].path]}
    BY <2>1 DEF Kept, SenderMoves, TypeOK, TaskTyped
  <2> QED BY <2>1, <2>2 DEF OneName
<1>3. ASSUME NEW g \in Goroutines, Handler(g) PROVE OneName'
  <2>1. AllTasks(Steady)
    BY <1>3, OthersStep
  <2>2. CASE RequestStaging(g)
    <3>1. PICK p \in Paths : StageFile(g, p)
      BY <2>2 DEF RequestStaging
    <3>2. PICK file \in 1..nextID' :
            /\ file = IF disk[p] = Gone THEN nextID' ELSE disk[p]
            /\ disk' = [disk EXCEPT ![p] = file]
            /\ Moves(g, [do |-> "copy", id |-> nextID', path |-> p,
                         file |-> file])
      BY <3>1, StageFileFacts
    <3>3. nextID' = nextID + 1 /\ Sends' = Sends
      BY <3>1, StageFileFacts
    <3>4. /\ nextID \in Nat /\ disk \in [Paths -> 0..nextID]
          /\ \A h \in Goroutines :
               at[h].do = "copy" => at[h].file \in 1..nextID
          /\ \A id \in Sends : task[id].file \in 0..nextID
      BY FileTransferAssumption DEF TypeOK, HandlerTyped, TaskTyped
    <3>5. /\ at'[g].do = "copy" /\ at'[g].path = p /\ at'[g].file = file
          /\ \A h \in Goroutines \ {g} : at'[h] = at[h]
      BY <3>2 DEF Moves
    <3>6. \A id \in Sends : /\ task'[id].file = task[id].file
                            /\ task'[id].path = task[id].path
      BY <2>1 DEF AllTasks, Steady
    <3>7. /\ file # Gone
          /\ \A q \in Paths : disk[q] = file => q = p
          /\ \A h \in Goroutines : at[h].do = "copy" /\ at[h].file = file
                                     => at[h].path = p
          /\ \A id \in Sends : task[id].file = file => task[id].path = p
      <4>1. CASE disk[p] = Gone
        <5>1. file = nextID + 1
          BY <3>2, <3>3, <4>1
        <5> QED BY <3>4, <5>1 DEF Gone
      <4>2. CASE disk[p] # Gone
        BY <3>2, <4>2 DEF OneName
      <4> QED BY <4>1, <4>2
    <3>8. \A q \in Paths : disk'[q] = IF q = p THEN file ELSE disk[q]
      BY <3>2, <3>4
    <3> QED BY <3>3, <3>5, <3>6, <3>7, <3>8 DEF OneName
  <2>3. CASE StageDone(g) \/ ReadPath(g)
             \/ \E id \in Ids : HandleRequest(g, id)
    <3>1. /\ disk' = disk /\ SameTasks
          /\ \A h \in Goroutines : at'[h] = at[h] \/ at'[h].do # "copy"
      BY <2>3, StageDoneFacts, ReadPathFacts, HandleRequestFacts,
         NobodyElseCopies DEF SameFiles
    <3> QED BY <2>1, <3>1, NamesKept DEF SameTasks, Sends
  <2>4. CASE StageFails(g)
    <3>1. /\ at[g].path \in Paths
      BY <2>4, StageFailsFacts DEF TypeOK, HandlerTyped
    <3>2. /\ \A p \in Paths : disk'[p] = disk[p] \/ disk'[p] = Gone
          /\ \A h \in Goroutines : at'[h] = at[h] \/ at'[h].do # "copy"
          /\ SameTasks
      BY <2>4, <3>1, StageFailsFacts, NobodyElseCopies DEF TypeOK
    <3> QED BY <2>1, <3>2, NamesKept DEF SameTasks, Sends
  <2>5. CASE StartSend(g)
    <3>1. /\ disk' = disk /\ Sends' = Sends \cup {nextID'}
          /\ task'[nextID'].file = Gone
          /\ \A h \in Goroutines : at'[h] = at[h] \/ at'[h].do # "copy"
      BY <2>5, StartSendFacts, StartFields, NobodyElseCopies DEF SameFiles
    <3> QED BY <2>1, <3>1, NamesKept
  <2>6. CASE StoreAck(g) \/ PokeSender(g)
             \/ \E id \in Ids : HandleAck(g, id)
    <3>1. disk' = disk /\ Sends' = Sends
      BY <2>6, HandleAckFacts, StoreAckFacts, PokeFacts DEF SameFiles
    <3>2. \A h \in Goroutines : at'[h] = at[h] \/ at'[h].do # "copy"
      BY <2>6, NobodyElseCopies
    <3> QED BY <2>1, <3>1, <3>2, NamesKept
  <2>7. CASE \E id \in Ids : CancelSend(g, id) \/ DeleteActive(g, id)
    <3>1. disk' = disk /\ Sends' = Sends /\ at' = at
      BY <2>7, CancelSendFacts, DeleteActiveFacts DEF SameFiles
    <3> QED BY <2>1, <3>1, NamesKept
  <2>8. CASE \E id \in Ids : DeleteStaged(g, id)
    <3>1. PICK p \in Paths : disk' = [disk EXCEPT ![p] = Gone]
      BY <2>8, DeleteStagedFacts
    <3>2. SameTasks /\ at' = at
      BY <2>8, DeleteStagedFacts
    <3>3. \A q \in Paths : disk'[q] = disk[q] \/ disk'[q] = Gone
      BY <3>1 DEF TypeOK
    <3> QED BY <2>1, <3>2, <3>3, NamesKept DEF SameTasks, Sends
  <2> QED
    BY <1>3, <2>2, <2>3, <2>4, <2>5, <2>6, <2>7, <2>8 DEF Handler
<1>4. CASE Environment
  BY <1>4, EnvironmentStep, OthersStep, NamesKept
<1>5. CASE UNCHANGED vars
  BY <1>5 DEF vars, diskVars, OneName, Sends
<1> QED BY <1>2, <1>3, <1>4, <1>5 DEF Next

\* A transfer that is not sent further stays faithful if its file does.
LEMMA FaithfulKept ==
  ASSUME NEW t, NEW u, Faithful(t), Steady(t, u),
         ~t.hurt /\ ~u.hurt /\ t.pc # "done" =>
           /\ t.pc = "open" /\ disk'[t.path] # Gone =>
                content'[disk'[t.path]] = Blocks[t.path]
           /\ t.pc # "open" => content'[t.file] = Blocks[t.path]
  PROVE  Faithful(u)'
BY DEF Faithful, Steady

LEMMA FaithfulStep ==
  ASSUME TypeOK, OneName, FaithfulInv, [Next]_vars PROVE FaithfulInv'
<1> USE FileTransferAssumption
<1>1. ASSUME NEW id, SendFile(id) PROVE FaithfulInv'
  <2>1. /\ id \in Sends /\ Sends' = Sends
        /\ \A j \in Sends \ {id} : task'[j] = task[j]
        /\ Kept(task[id], task'[id]) /\ SenderMoves(task[id], task'[id])
        /\ disk' = disk /\ content' = content
    BY <1>1, SendStep
  <2>2. PICK t : t = task[id]
    OBVIOUS
  <2>3. PICK u : u = task'[id]
    OBVIOUS
  <2>4. /\ Faithful(t) /\ TaskTyped(t) /\ Kept(t, u) /\ SenderMoves(t, u)
    BY <2>1, <2>2, <2>3 DEF FaithfulInv, TypeOK
  <2>5. /\ t.idx \in Nat /\ t.total \in Nat \ {0} /\ t.path \in Paths
        /\ Blocks[t.path] \in Nat
        /\ t.pc \in {"window", "shut", "parked", "chunk"} => t.idx < t.total
    BY <2>4 DEF TaskTyped
  <2>6. Faithful(u)
    <3>1. CASE u.hurt
      BY <3>1 DEF Faithful
    <3>2. CASE ~u.hurt
      <4>1. ~t.hurt
        BY <2>4, <3>2 DEF SenderMoves, SameCount
      <4>2. CASE u.pc = "done" /\ SameCount(t, u)
        BY <2>4, <4>1, <4>2
        DEF Faithful, Kept, SenderMoves, SameCount, NextRead
      <4>3. CASE t.pc = "open" /\ u.pc = "window"
        BY <2>4, <2>5, <4>1, <4>3
        DEF Faithful, Kept, SenderMoves, SameCount, NextRead
      <4>4. CASE t.pc = "window" /\ u.pc = NextRead(t) /\ SameCount(t, u)
        <5>1. /\ t.total = TotalChunks(Blocks[t.path])
              /\ content[t.file] = Blocks[t.path]
          BY <2>4, <4>1, <4>4 DEF Faithful
        <5>2. u.pc = "end" => t.idx = Blocks[t.path]
          BY <2>5, <4>4, <5>1 DEF TotalChunks, NextRead
        <5>3. u.pc = "chunk" => t.idx < Blocks[t.path]
          BY <4>4, <5>1 DEF NextRead
        <5> QED
          BY <2>4, <4>1, <4>4, <5>2, <5>3
          DEF Faithful, Kept, SenderMoves, SameCount, NextRead
      <4>5. CASE t.pc = "chunk" /\ u.idx = t.idx + 1
        <5>1. /\ t.total = TotalChunks(Blocks[t.path])
              /\ t.idx < Blocks[t.path] /\ t.sent = 0..(t.idx - 1)
          BY <2>4, <4>1, <4>5 DEF Faithful
        <5>2. t.total = Blocks[t.path]
          BY <2>5, <5>1 DEF TotalChunks
        <5>3. /\ u.sent = t.sent \cup {t.idx}
              /\ u.pc = IF u.idx = t.total THEN "end" ELSE "window"
              /\ u.file = t.file /\ u.said = t.said
          BY <2>4, <2>5, <3>2, <4>5 DEF SenderMoves, SameCount
        <5>4. u.sent = 0..(u.idx - 1)
          BY <2>5, <4>5, <5>1, <5>3
        <5> QED
          BY <2>4, <2>5, <4>1, <4>5, <5>2, <5>3, <5>4 DEF Faithful, Kept
      <4>6. CASE /\ t.pc \notin {"open", "done"} /\ SameCount(t, u)
                 /\ u.pc \in {"shut", "parked", "window"} \/ u.pc = t.pc
                 /\ u.pc \notin {"open", "done"}
                 /\ u.file = t.file /\ u.said = t.said
        BY <2>4, <4>1, <4>6 DEF Faithful, Kept, SameCount
      <4> QED
        BY <2>4, <4>2, <4>3, <4>4, <4>5, <4>6 DEF SenderMoves
    <3> QED BY <3>1, <3>2
  <2> QED BY <2>1, <2>3, <2>6 DEF FaithfulInv, Faithful
\* The steps that leave the files alone and start nothing.
<1>2. ASSUME AllTasks(Steady), Sends' = Sends, content' = content,
             \A p \in Paths : disk'[p] = disk[p] \/ disk'[p] = Gone
      PROVE  FaithfulInv'
  <2>1. ASSUME NEW id \in Sends PROVE Faithful(task[id])'
    <3>1. PICK t : t = task[id]
      OBVIOUS
    <3>2. PICK u : u = task'[id]
      OBVIOUS
    <3>3. Faithful(t) /\ Steady(t, u) /\ t.path \in Paths
      BY <1>2, <3>1, <3>2 DEF FaithfulInv, AllTasks, TypeOK, TaskTyped
    <3>4. Faithful(u)'
      <4>1. ~t.hurt /\ t.pc # "done" =>
              /\ t.pc = "open" /\ disk'[t.path] # Gone =>
                   content'[disk'[t.path]] = Blocks[t.path]
              /\ t.pc # "open" => content'[t.file] = Blocks[t.path]
        BY <1>2, <3>3 DEF Faithful
      <4> QED BY <3>3, <4>1, FaithfulKept
    <3> QED BY <3>2, <3>4
  <2> QED BY <1>2, <2>1 DEF FaithfulInv
<1>3. ASSUME NEW g \in Goroutines, Handler(g) PROVE FaithfulInv'
  <2>1. AllTasks(Steady)
    BY <1>3, OthersStep
  <2>2. CASE RequestStaging(g)
    <3>1. PICK p \in Paths : StageFile(g, p)
      BY <2>2 DEF RequestStaging
    <3>2. PICK file \in 1..nextID' :
            /\ file = IF disk[p] = Gone THEN nextID' ELSE disk[p]
            /\ disk' = [disk EXCEPT ![p] = file]
            /\ content' = [content EXCEPT ![file] = 0]
            /\ Moves(g, [do |-> "copy", id |-> nextID', path |-> p,
                         file |-> file])
      BY <3>1, StageFileFacts
    <3>3. /\ nextID' = nextID + 1 /\ Sends' = Sends
          /\ \A id \in Sends : task[id].pc # "done" /\ task[id].path = p =>
                                 task'[id].hurt
      BY <3>1, StageFileFacts
    <3>4. nextID \in Nat /\ disk \in [Paths -> 0..nextID]
      BY DEF TypeOK
    <3>5. ASSUME NEW id \in Sends PROVE Faithful(task[id])'
      <4>1. PICK t : t = task[id]
        OBVIOUS
      <4>2. PICK u : u = task'[id]
        OBVIOUS
      <4>3. /\ Faithful(t) /\ Steady(t, u) /\ t.path \in Paths
            /\ t.file \in 0..nextID
            /\ t.pc # "done" /\ t.path = p => u.hurt
        BY <2>1, <3>3, <4>1, <4>2
        DEF FaithfulInv, AllTasks, TypeOK, TaskTyped
      <4>4. ASSUME t.path # p
            PROVE  /\ disk'[t.path] = disk[t.path]
                   /\ disk[t.path] # Gone => disk[t.path] # file
                   /\ t.file # Gone => t.file # file
        <5>1. disk'[t.path] = disk[t.path]
          BY <3>2, <3>4, <4>3, <4>4
        <5>2. CASE disk[p] = Gone
          <6>1. file = nextID + 1
            BY <3>2, <3>3, <5>2
          <6> QED BY <3>4, <4>3, <5>1, <6>1
        <5>3. CASE disk[p] # Gone
          BY <3>2, <4>1, <4>3, <4>4, <5>1, <5>3 DEF OneName
        <5> QED BY <5>2, <5>3
      <4>5. \A f \in Ids : f # file => content'[f] = content[f]
        BY <3>2 DEF TypeOK
      <4>6. \A f \in 0..nextID : f # Gone => f \in Ids
        BY DEF TypeOK, Ids, Gone
      <4>7. ~t.hurt /\ ~u.hurt /\ t.pc # "done" =>
              /\ t.pc = "open" /\ disk'[t.path] # Gone =>
                   content'[disk'[t.path]] = Blocks[t.path]
              /\ t.pc # "open" => content'[t.file] = Blocks[t.path]
        <5>1. disk[t.path] \in 0..nextID
          BY <3>4, <4>3
        <5> QED BY <4>3, <4>4, <4>5, <4>6, <5>1 DEF Faithful
      <4>8. Faithful(u)'
        BY <4>3, <4>7, FaithfulKept
      <4> QED BY <4>2, <4>8
    <3> QED BY <3>3, <3>5 DEF FaithfulInv
  <2>3. CASE StageDone(g)
    <3>1. /\ at[g].do = "copy" /\ disk' = disk /\ Sends' = Sends
          /\ content' = [content EXCEPT ![at[g].file] = Blocks[at[g].path]]
      BY <2>3, StageDoneFacts DEF SameTasks, Sends
    <3>2. /\ at[g].file \in Ids /\ at[g].path \in Paths
          /\ content \in [Ids -> Nat] /\ disk \in [Paths -> 0..nextID]
      BY <3>1 DEF TypeOK, HandlerTyped, Ids
    <3>3. ASSUME NEW id \in Sends PROVE Faithful(task[id])'
      <4>1. PICK t : t = task[id]
        OBVIOUS
      <4>2. PICK u : u = task'[id]
        OBVIOUS
      <4>3. Faithful(t) /\ Steady(t, u) /\ t.path \in Paths
        BY <2>1, <4>1, <4>2 DEF FaithfulInv, AllTasks, TypeOK, TaskTyped
      <4>4. /\ disk[t.path] = at[g].file => t.path = at[g].path
            /\ t.file # Gone /\ t.file = at[g].file => t.path = at[g].path
        BY <3>1, <4>1, <4>3 DEF OneName
      <4>5. \A f : content'[f] = IF f = at[g].file THEN Blocks[at[g].path]
                                                   ELSE content[f]
        BY <3>1, <3>2
      <4>6. ~t.hurt /\ ~u.hurt /\ t.pc # "done" =>
              /\ t.pc = "open" /\ disk'[t.path] # Gone =>
                   content'[disk'[t.path]] = Blocks[t.path]
              /\ t.pc # "open" => content'[t.file] = Blocks[t.path]
        BY <3>1, <4>3, <4>4, <4>5 DEF Faithful
      <4>7. Faithful(u)'
        BY <4>3, <4>6, FaithfulKept
      <4> QED BY <4>2, <4>7
    <3> QED BY <3>1, <3>3 DEF FaithfulInv
  <2>4. CASE StageFails(g)
    <3>1. /\ at[g].path \in Paths
      BY <2>4, StageFailsFacts DEF TypeOK, HandlerTyped
    <3>2. /\ \A p \in Paths : disk'[p] = disk[p] \/ disk'[p] = Gone
          /\ content' = content /\ Sends' = Sends
      BY <2>4, <3>1, StageFailsFacts DEF TypeOK, SameTasks, Sends
    <3> QED BY <1>2, <2>1, <3>2
  <2>5. CASE StartSend(g)
    <3>1. /\ SameFiles /\ Sends' = Sends \cup {nextID'}
          /\ \A id \in Sends : task'[id] = task[id]
      BY <2>5, StartSendFacts
    <3>2. PICK u : u = task'[nextID']
      OBVIOUS
    <3>3. PICK t : t = [path |-> at[g].path, blocks |-> at[g].blocks]
      OBVIOUS
    <3>4. /\ u.pc = "open" /\ u.idx = 0 /\ u.path = t.path /\ u.file = Gone
          /\ u.sent = {} /\ u.said = "begin"
          /\ u.total = TotalChunks(t.blocks)
          /\ u.hurt = ~Whole(t.path, t.blocks)
      BY <2>5, <3>2, <3>3, StartFields
    <3>5. Faithful(u)
      <4>1. 0..(0 - 1) = {}
        OBVIOUS
      <4> QED BY <3>4, <4>1 DEF Faithful, Whole
    <3>6. Faithful(u)'
      BY <3>1, <3>5 DEF Faithful, SameFiles
    <3>7. \A id \in Sends : Faithful(task[id])'
      BY <3>1 DEF Faithful, SameFiles, FaithfulInv
    <3> QED BY <3>1, <3>2, <3>6, <3>7 DEF FaithfulInv
  <2>6. CASE StoreAck(g) \/ PokeSender(g) \/ ReadPath(g)
             \/ \E id \in Ids : \/ HandleRequest(g, id) \/ HandleAck(g, id)
                                \/ CancelSend(g, id) \/ DeleteActive(g, id)
    <3>1. SameFiles /\ Sends' = Sends
      BY <2>6, HandleAckFacts, StoreAckFacts, PokeFacts, ReadPathFacts,
         HandleRequestFacts, CancelSendFacts, DeleteActiveFacts, SameTyped
    <3> QED BY <1>2, <2>1, <3>1 DEF SameFiles
  <2>7. CASE \E id \in Ids : DeleteStaged(g, id)
    <3>1. PICK p \in Paths : disk' = [disk EXCEPT ![p] = Gone]
      BY <2>7, DeleteStagedFacts
    <3>2. Sends' = Sends /\ content' = content
      BY <2>7, DeleteStagedFacts, SameTyped
    <3>3. \A q \in Paths : disk'[q] = disk[q] \/ disk'[q] = Gone
      BY <3>1 DEF TypeOK
    <3> QED BY <1>2, <2>1, <3>2, <3>3
  <2> QED
    BY <1>3, <2>2, <2>3, <2>4, <2>5, <2>6, <2>7 DEF Handler
<1>4. CASE Environment
  BY <1>2, <1>4, EnvironmentStep, OthersStep
<1>5. CASE UNCHANGED vars
  <2>1. disk' = disk /\ content' = content /\ task' = task
    BY <1>5 DEF vars, diskVars
  <2> QED BY <2>1 DEF FaithfulInv, Faithful, Sends
<1> QED BY <1>1, <1>3, <1>4, <1>5 DEF Next

LEMMA FaithfulEnds ==
  ASSUME TypeOK, FaithfulInv PROVE EndIsComplete
<1> SUFFICES ASSUME NEW id \in Sends, task[id].said = "end", ~task[id].hurt
             PROVE  task[id].sent = 0..(Blocks[task[id].path] - 1)
  BY DEF EndIsComplete
<1> QED BY DEF FaithfulInv, Faithful

-----------------------------------------------------------------------------
(***************************************************************************)
(* What every behaviour keeps.                                             *)
(***************************************************************************)
(* The transfers count their chunks up to their total, hold the chunks     *)
(* they sent among those they counted and never store an ack beyond those  *)
(* that were received; what a handler held on to while ftm.mu was released *)
(* (a task, an entry of an old backing array) is still of its kind.        *)
THEOREM TypeCorrect == Spec => []TypeOK
<1>1. Init => TypeOK
  BY TypeInit
<1>2. TypeOK /\ [Next]_vars => TypeOK'
  BY TypeStep
<1> QED BY <1>1, <1>2, PTL DEF Spec

(* A sender on the relay is never further ahead of the app than the window *)
(* allows, in whatever order the acks are handled by the read loops.       *)
THEOREM WindowIsHeld == Spec => []WindowHeld
<1>1. Init => WindowInv
  <2>1. DOMAIN <<>> = {}
    OBVIOUS
  <2> QED BY <2>1 DEF Init, WindowInv, Sends
<1>2. TypeOK /\ WindowInv /\ [Next]_vars => WindowInv'
  BY WindowStep
<1>3. TypeOK /\ WindowInv => WindowHeld
  BY WindowHolds
<1> QED BY <1>1, <1>2, <1>3, TypeCorrect, PTL DEF Spec

(* The ack that opens the window of a sender on its way to wait is not     *)
(* lost: no sender sits out ackStallTimeout in front of an open window.    *)
THEOREM WakeupIsKept == Spec => []NoLostWakeup
<1>1. Init => WakeInv
  <2>1. DOMAIN <<>> = {}
    OBVIOUS
  <2> QED BY <2>1 DEF Init, WakeInv, Sends
<1>2. TypeOK /\ WakeInv /\ [Next]_vars => WakeInv'
  BY WakeStep
<1>3. WakeInv => NoLostWakeup
  BY DEF WakeInv, Woken, NoLostWakeup
<1> QED BY <1>1, <1>2, <1>3, TypeCorrect, PTL DEF Spec

(* Cancel, CancelAll, peer changes and lost channels never close a cancel  *)
(* channel twice between them: only file_delete of a transfer can.         *)
THEOREM CancelClosesOnce == Spec => []DoubleCloseOnlyByDelete
<1>1. Init => OpenInv
  BY DEF Init, OpenInv
<1>2. TypeOK /\ OpenInv /\ [Next]_vars => OpenInv'
  BY OpenStep
<1>3. OpenInv => DoubleCloseOnlyByDelete
  BY DEF OpenInv, DoubleCloseOnlyByDelete
<1> QED BY <1>1, <1>2, <1>3, TypeCorrect, PTL DEF Spec

(* A file that is announced complete was handed over whole, unless frames  *)
(* were lost with a channel or refused, or the file was staged anew under  *)
(* the name while it was sent.                                             *)
THEOREM EndMeansComplete == Spec => []EndIsComplete
<1>1. Init => OneName /\ FaithfulInv
  <2>1. DOMAIN <<>> = {} /\ Idle.do # "copy"
    BY IdleIsIdle
  <2> QED BY <2>1 DEF Init, OneName, FaithfulInv, Sends
<1>2. TypeOK /\ OneName /\ [Next]_vars => OneName'
  BY NameStep
<1>3. TypeOK /\ OneName /\ FaithfulInv /\ [Next]_vars => FaithfulInv'
  BY FaithfulStep
<1>4. TypeOK /\ FaithfulInv => EndIsComplete
  BY FaithfulEnds
<1> QED BY <1>1, <1>2, <1>3, <1>4, TypeCorrect, PTL DEF Spec
=============================================================================
