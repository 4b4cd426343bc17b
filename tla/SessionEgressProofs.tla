------------------------- MODULE SessionEgressProofs -------------------------
(***************************************************************************)
(* Theorems about OutputBatcher, and about SessionEgress, which extends it *)
(* with its callers, for any sets of sessions and clients and any bounds.  *)
(* First the batcher by itself.  Then its callers: what they do to it is   *)
(* what BatcherSpec allows, so its theorems hold of the daemon's output    *)
(* path as a whole; a mute holds; no write is dropped of a session the app *)
(* is attached to; and session_exit and a history message keep their       *)
(* places among the outputs.                                               *)
(***************************************************************************)
EXTENDS SessionEgress, Integers, TLAPS

-----------------------------------------------------------------------------
(* The batcher.                                                            *)
\* What Split returns on consecutive numbers: the length of the covered prefix.
LEMMA SplitFacts ==
  ASSUME NEW b \in Seq(Nat), NEW h \in Nat,
         \A i \in 1..Len(b) : b[i] = b[1] + (i - 1)
  PROVE  /\ Split(b, h) \in 0..Len(b)
         /\ \A i \in 1..Split(b, h) : b[i] <= h
         /\ Split(b, h) < Len(b) => b[Split(b, h) + 1] > h
<1> DEFINE P(k) == /\ \A i \in 1..k : b[i] <= h
                   /\ k < Len(b) => b[k + 1] > h
<1>1. \E k \in 0..Len(b) : P(k)
  <2>1. CASE b = <<>> \/ h < b[1]
    <3>1. 0 \in 0..Len(b) /\ P(0)
      BY <2>1
    <3> QED BY <3>1
  <2>2. CASE b # <<>> /\ b[1] <= h /\ h < b[1] + (Len(b) - 1)
    <3>1. h - b[1] + 1 \in 0..Len(b)
      BY <2>2
    <3>2. b[1] \in Nat /\ h - b[1] + 2 \in 1..Len(b)
      BY <2>2
    <3>3. ASSUME NEW i \in 1..(h - b[1] + 1) PROVE b[i] <= h
      <4>1. i \in 1..Len(b)
        BY <3>1, <3>2
      <4>2. b[i] = b[1] + (i - 1)
        BY <4>1
      <4> QED BY <3>2, <4>2
    <3>4. b[h - b[1] + 2] > h
      BY <3>2
    <3>5. (h - b[1] + 1) + 1 = h - b[1] + 2
      BY <3>2
    <3>6. P(h - b[1] + 1)
      BY <3>3, <3>4, <3>5
    <3> HIDE DEF P
    <3> QED BY <3>1, <3>6
  <2>3. CASE b # <<>> /\ b[1] + (Len(b) - 1) <= h
    <3>1. Len(b) \in 0..Len(b) /\ P(Len(b))
      BY <2>3
    <3> HIDE DEF P
    <3> QED BY <3>1
  <2> QED BY <2>1, <2>2, <2>3
<1>2. Split(b, h) = CHOOSE k \in 0..Len(b) : P(k)
  BY DEF Split
<1> HIDE DEF P
<1>3. Split(b, h) \in 0..Len(b) /\ P(Split(b, h))
  BY <1>1, <1>2
<1> QED BY <1>3 DEF P

-----------------------------------------------------------------------------
(* Type correctness.                                                       *)

\* Detaching entries keeps the types, whoever detaches and whatever is chosen.
LEMMA TakeType ==
  ASSUME TypeOK, NEW g \in Goroutines, NEW Chosen, Take(g, Chosen)
  PROVE  /\ sendMu' \in Goroutines
         /\ jobs' \in [Sessions -> Seq(Nat)]
         /\ bufs' \in [Sessions -> Seq(Nat)]
         /\ age' \in [Sessions -> 0..2]
BY DEF TypeOK, Take

\* A packed message is a Message.
LEMMA PackedType ==
  ASSUME NEW job \in Seq(Nat), NEW k \in 1..Len(job), NEW p \in Nat
  PROVE  Packed(job, k, p) \in Message
<1>1. SubSeq(job, 1, k) \in Seq(Nat)
  OBVIOUS
<1>2. job[k] \in Nat /\ (IF p > 0 THEN k - 1 ELSE k) \in Nat
  OBVIOUS
<1> QED BY <1>1, <1>2 DEF Packed, Message

\* No step leaves the types; SealTake needs that buffers hold consecutive writes.
LEMMA TypeStep == TypeOK /\ OrderInv /\ [BatcherNext]_vars => TypeOK'
<1> SUFFICES ASSUME TypeOK, OrderInv, [BatcherNext]_vars PROVE TypeOK'
  OBVIOUS
<1> USE DEF entryVars, lockVars, ghosts
<1>1. ASSUME NEW s \in Sessions, Write(s) PROVE TypeOK'
  BY <1>1 DEF TypeOK, Write, Pcs
<1>2. ASSUME NEW s \in Sessions, Skip(s) PROVE TypeOK'
  BY <1>2 DEF TypeOK, Skip, Pcs
<1>3. ASSUME NEW s \in Sessions, AddContiguous(s) PROVE TypeOK'
  BY <1>3 DEF TypeOK, AddContiguous, Pcs
<1>4. ASSUME NEW s \in Sessions, AddAfterGap(s) PROVE TypeOK'
  BY <1>4 DEF TypeOK, AddAfterGap, Pcs
<1>5. ASSUME NEW s \in Sessions, FlushSession(s) PROVE TypeOK'
  BY <1>5, TakeType DEF TypeOK, FlushSession, Take, Goroutines
<1>6. ASSUME NEW s \in Sessions, Insert(s) PROVE TypeOK'
  BY <1>6 DEF TypeOK, Insert, Pcs
<1>7. ASSUME NEW s \in Sessions, Elapse(s) PROVE TypeOK'
  <2>a. age[s] \in 0..2 /\ age[s] < 2
    BY <1>7 DEF TypeOK, Elapse
  <2>1. age[s] + 1 \in 0..2
    BY <2>a
  <2>2. age' \in [Sessions -> 0..2]
    BY <1>7, <2>1 DEF TypeOK, Elapse
  <2> QED BY <1>7, <2>2 DEF TypeOK, Elapse
<1>8. ASSUME NEW s \in Sessions, Emit(s) PROVE TypeOK'
  <2>1. PICK k \in 1..Len(jobs[s]), cut \in BOOLEAN :
          LET before == IF k = 1 THEN pieces ELSE 0
              rest   == SubSeq(jobs[s], IF cut THEN k ELSE k + 1, Len(jobs[s]))
          IN /\ sent' = [sent EXCEPT ![s] = Append(@, Packed(jobs[s], k, pieces))]
             /\ jobs' = [jobs EXCEPT ![s] = rest]
             /\ pieces' = IF cut THEN before + 1 ELSE 0
             /\ cur' = IF rest = <<>> THEN NoOne ELSE s
    BY <1>8 DEF Emit
  <2>2. Packed(jobs[s], k, pieces) \in Message
    BY PackedType DEF TypeOK
  <2>3. sent' \in [Sessions -> Seq(Message)]
    BY <2>1, <2>2 DEF TypeOK
  <2>4. jobs' \in [Sessions -> Seq(Nat)]
    BY SMTT(120), <2>1 DEF TypeOK
  <2>5. pieces' \in Nat /\ cur' \in Sessions \cup {NoOne}
    BY <2>1 DEF TypeOK
  <2> QED BY <1>8, <2>3, <2>4, <2>5 DEF TypeOK, Emit
<1>9. ASSUME NEW c \in Clients, FlushAll(c) PROVE TypeOK'
  BY <1>9, TakeType DEF TypeOK, FlushAll, Take, Goroutines
<1>10. ASSUME NEW c \in Clients, NEW s \in Sessions, SealAt(c, s) PROVE TypeOK'
  BY <1>10 DEF TypeOK, SealAt, Goroutines
<1>11. ASSUME NEW c \in Clients, SealTake(c) PROVE TypeOK'
  <2>1. ASSUME NEW s \in Sessions
        PROVE  Split(bufs[s], snapshot) \in 0..Len(bufs[s])
    BY SplitFacts DEF TypeOK, OrderInv, Ordered, Segment
  <2>2. ASSUME NEW s \in Sessions
        PROVE  /\ SubSeq(bufs[s], 1, Split(bufs[s], snapshot)) \in Seq(Nat)
               /\ SubSeq(bufs[s], Split(bufs[s], snapshot) + 1, Len(bufs[s])) \in Seq(Nat)
    BY SMTT(120), <2>1 DEF TypeOK
  <2>3. jobs' \in [Sessions -> Seq(Nat)] /\ bufs' \in [Sessions -> Seq(Nat)]
    BY <1>11, <2>2 DEF SealTake, SealTakeBy, Covered, Rest
  <2> QED BY <1>11, <2>3 DEF TypeOK, SealTake, SealTakeBy, Covered, Rest
<1>12. ASSUME NEW c \in Clients, Reset(c) PROVE TypeOK'
  BY <1>12 DEF TypeOK, Reset, Entries
<1>13. ASSUME NEW c \in Clients, Stop(c) PROVE TypeOK'
  BY <1>13 DEF TypeOK, Stop
<1>14. ASSUME Tick PROVE TypeOK'
  BY <1>14, TakeType DEF TypeOK, Tick, Take, Goroutines
<1>15. ASSUME NEW g \in Goroutines, Return(g) PROVE TypeOK'
  BY <1>15 DEF TypeOK, Return, Pcs
<1>16. CASE UNCHANGED vars
  BY <1>16 DEF TypeOK, vars
<1> QED
  BY <1>1, <1>2, <1>3, <1>4, <1>5, <1>6, <1>7, <1>8, <1>9, <1>10, <1>11,
     <1>12, <1>13, <1>14, <1>15, <1>16
     DEF BatcherNext, ReaderStep, ClientStep


-----------------------------------------------------------------------------
(* What the two steps that cut segments do to them.                        *)

\* The end of a sequence.
LEMMA TailPart ==
  ASSUME NEW q \in Seq(Nat), NEW m \in 1..(Len(q) + 1)
  PROVE  /\ SubSeq(q, m, Len(q)) \in Seq(Nat)
         /\ Len(SubSeq(q, m, Len(q))) = Len(q) - m + 1
         /\ \A i \in 1..Len(SubSeq(q, m, Len(q))) :
              SubSeq(q, m, Len(q))[i] = q[i + (m - 1)]
OBVIOUS

\* The message Emit sends and what it leaves of the job.
LEMMA EmitFacts ==
  ASSUME TypeOK, NEW s \in Sessions, Emit(s)
  PROVE  \E k \in 1..Len(jobs[s]), cut \in BOOLEAN, rest \in Seq(Nat) :
           /\ Len(rest) = IF cut THEN Len(jobs[s]) - k + 1 ELSE Len(jobs[s]) - k
           /\ \A i \in 1..Len(rest) :
                rest[i] = jobs[s][i + (IF cut THEN k - 1 ELSE k)]
           /\ sent' = [sent EXCEPT ![s] = Append(@, Packed(jobs[s], k, pieces))]
           /\ jobs' = [jobs EXCEPT ![s] = rest]
           /\ pieces' \in Nat /\ (pieces' > 0 <=> cut)
           /\ cur' = IF rest = <<>> THEN NoOne ELSE s
<1>1. PICK k \in 1..Len(jobs[s]), cut \in BOOLEAN :
        LET before == IF k = 1 THEN pieces ELSE 0
            rest   == SubSeq(jobs[s], IF cut THEN k ELSE k + 1, Len(jobs[s]))
        IN /\ sent' = [sent EXCEPT ![s] = Append(@, Packed(jobs[s], k, pieces))]
           /\ jobs' = [jobs EXCEPT ![s] = rest]
           /\ pieces' = IF cut THEN before + 1 ELSE 0
           /\ cur' = IF rest = <<>> THEN NoOne ELSE s
  BY ZenonT(60) DEF Emit
<1> DEFINE rest == SubSeq(jobs[s], IF cut THEN k ELSE k + 1, Len(jobs[s]))
<1>2. rest \in Seq(Nat)
  BY DEF TypeOK
<1>3. Len(rest) = IF cut THEN Len(jobs[s]) - k + 1 ELSE Len(jobs[s]) - k
  BY DEF TypeOK
<1>4. \A i \in 1..Len(rest) : rest[i] = jobs[s][i + (IF cut THEN k - 1 ELSE k)]
  <2>1. PICK q \in Seq(Nat) : q = jobs[s]
    BY DEF TypeOK
  <2>2. CASE cut
    <3>1. rest = SubSeq(q, k, Len(q)) /\ k \in 1..(Len(q) + 1)
      BY <2>1, <2>2
    <3> HIDE DEF rest
    <3> QED BY <2>1, <2>2, <3>1, TailPart
  <2>3. CASE ~cut
    <3>1. rest = SubSeq(q, k + 1, Len(q)) /\ k + 1 \in 1..(Len(q) + 1)
          /\ (k + 1) - 1 = k
      BY <2>1, <2>3
    <3> HIDE DEF rest
    <3>2. \A i \in 1..Len(rest) : rest[i] = q[i + ((k + 1) - 1)]
      BY <3>1, TailPart
    <3> QED BY <2>1, <2>3, <3>1, <3>2
  <2> QED BY <2>2, <2>3
<1>5. pieces' \in Nat /\ (pieces' > 0 <=> cut)
  BY <1>1 DEF TypeOK
<1> HIDE DEF rest
<1>6. /\ sent' = [sent EXCEPT ![s] = Append(@, Packed(jobs[s], k, pieces))]
      /\ jobs' = [jobs EXCEPT ![s] = rest]
      /\ cur' = IF rest = <<>> THEN NoOne ELSE s
  BY <1>1 DEF rest
<1> QED BY <1>2, <1>3, <1>4, <1>5, <1>6

\* SealTake cuts every buffer at the snapshot.
LEMMA SealTakeFacts ==
  ASSUME TypeOK, OrderInv, NEW c \in Clients, SealTake(c), NEW s \in Sessions
  PROVE  \E k \in 0..Len(bufs[s]) :
           /\ jobs'[s] \in Seq(Nat) /\ Len(jobs'[s]) = k
           /\ \A i \in 1..k : jobs'[s][i] = bufs[s][i] /\ bufs[s][i] <= snapshot
           /\ bufs'[s] \in Seq(Nat) /\ Len(bufs'[s]) = Len(bufs[s]) - k
           /\ \A i \in 1..(Len(bufs[s]) - k) : bufs'[s][i] = bufs[s][k + i]
           /\ k < Len(bufs[s]) => bufs[s][k + 1] > snapshot
<1> DEFINE k == Split(bufs[s], snapshot)
<1>1. /\ k \in 0..Len(bufs[s])
      /\ \A i \in 1..k : bufs[s][i] <= snapshot
      /\ k < Len(bufs[s]) => bufs[s][k + 1] > snapshot
  BY SplitFacts DEF TypeOK, OrderInv, Ordered, Segment
<1>2. /\ jobs'[s] = SubSeq(bufs[s], 1, k)
      /\ bufs'[s] = SubSeq(bufs[s], k + 1, Len(bufs[s]))
  BY DEF SealTake, SealTakeBy, Covered, Rest
<1> HIDE DEF k
<1>3. bufs[s] \in Seq(Nat)
  BY DEF TypeOK
<1>4. /\ jobs'[s] \in Seq(Nat) /\ Len(jobs'[s]) = k
      /\ \A i \in 1..k : jobs'[s][i] = bufs[s][i]
  BY <1>1, <1>2, <1>3
<1>5. /\ bufs'[s] \in Seq(Nat) /\ Len(bufs'[s]) = Len(bufs[s]) - k
      /\ \A i \in 1..(Len(bufs[s]) - k) : bufs'[s][i] = bufs[s][k + i]
  BY <1>1, <1>2, <1>3
<1> QED BY <1>1, <1>4, <1>5

-----------------------------------------------------------------------------
(* The lock.                                                               *)

\* The holder of sendMu is the only one with detached entries.
LEMMA LockStep ==
  TypeOK /\ LockInv /\ OrderInv /\ [BatcherNext]_vars => LockInv'
<1> SUFFICES ASSUME TypeOK, LockInv, OrderInv, [BatcherNext]_vars PROVE LockInv'
  OBVIOUS
<1> USE BatcherAssumption DEF entryVars, lockVars, ghosts
<1>1. ASSUME NEW s \in Sessions, Write(s) PROVE LockInv'
  BY <1>1 DEF Write, TypeOK, LockInv, Goroutines, NoJobs
<1>2. ASSUME NEW s \in Sessions, Skip(s) PROVE LockInv'
  BY <1>2 DEF Skip, TypeOK, LockInv, Goroutines, NoJobs
<1>3. ASSUME NEW s \in Sessions, AddContiguous(s) PROVE LockInv'
  BY <1>3 DEF AddContiguous, TypeOK, LockInv, Goroutines, NoJobs
<1>4. ASSUME NEW s \in Sessions, AddAfterGap(s) PROVE LockInv'
  BY <1>4 DEF AddAfterGap, TypeOK, LockInv, Goroutines, NoJobs
<1>5. ASSUME NEW s \in Sessions, FlushSession(s) PROVE LockInv'
  BY <1>5 DEF FlushSession, Take, TypeOK, LockInv, Goroutines, NoJobs
<1>6. ASSUME NEW s \in Sessions, Insert(s) PROVE LockInv'
  BY <1>6 DEF Insert, TypeOK, LockInv, Goroutines, NoJobs
<1>7. ASSUME NEW s \in Sessions, Elapse(s) PROVE LockInv'
  BY <1>7 DEF Elapse, TypeOK, LockInv, Goroutines, NoJobs
<1>8. ASSUME NEW s \in Sessions, Emit(s) PROVE LockInv'
  <2>1. PICK k \in 1..Len(jobs[s]), cut \in BOOLEAN, rest \in Seq(Nat) :
          /\ Len(rest) = IF cut THEN Len(jobs[s]) - k + 1 ELSE Len(jobs[s]) - k
          /\ jobs' = [jobs EXCEPT ![s] = rest]
          /\ pieces' \in Nat /\ (pieces' > 0 <=> cut)
          /\ cur' = IF rest = <<>> THEN NoOne ELSE s
    BY <1>8, EmitFacts
  <2>2. cut => rest # <<>>
    BY <2>1 DEF TypeOK
  <2>3. sendMu # NoOne /\ UNCHANGED <<entryVars, client, sendMu>>
        /\ \A c \in Clients : client[c] # "sealed"
    BY <1>8 DEF Emit
  <2>4. \A t \in Sessions : cur' = t => jobs'[t] # <<>>
    BY <2>1 DEF TypeOK
  <2>5. cur' = NoOne => pieces' = 0
    BY <2>1, <2>2 DEF TypeOK
  <2> QED BY <2>3, <2>4, <2>5 DEF TypeOK, LockInv
<1>9. ASSUME NEW c \in Clients, FlushAll(c) PROVE LockInv'
  BY <1>9 DEF FlushAll, Take, TypeOK, LockInv, Goroutines, NoJobs
<1>10. ASSUME NEW c \in Clients, NEW s \in Sessions, SealAt(c, s) PROVE LockInv'
  BY <1>10 DEF SealAt, TypeOK, LockInv, Goroutines, NoJobs
<1>11. ASSUME NEW c \in Clients, SealTake(c) PROVE LockInv'
  <2>1. \A s \in Sessions : bufs[s] = <<>> => bufs'[s] = <<>>
    BY <1>11, SealTakeFacts DEF TypeOK
  <2>2. /\ client' = [client EXCEPT ![c] = "sending"] /\ client[c] = "sealed"
        /\ UNCHANGED <<reader, sendMu, cur, pieces>>
    BY <1>11 DEF SealTake, SealTakeBy, Covered, Rest
  <2>3. sendMu = c /\ jobs = NoJobs
    BY <2>2 DEF LockInv
  <2>4. \A t \in Sessions : cur # t
    BY <2>3 DEF LockInv, NoJobs
  <2>5. \A d \in Clients : client'[d] # "sealed"
    BY <2>2, <2>3 DEF LockInv, TypeOK
  <2> QED BY <2>1, <2>2, <2>3, <2>4, <2>5 DEF TypeOK, LockInv
<1>12. ASSUME NEW c \in Clients, Reset(c) PROVE LockInv'
  BY <1>12 DEF Reset, TypeOK, LockInv, Goroutines, NoJobs
<1>13. ASSUME NEW c \in Clients, Stop(c) PROVE LockInv'
  BY <1>13 DEF Stop, TypeOK, LockInv, Goroutines, NoJobs
<1>14. ASSUME Tick PROVE LockInv'
  <2>1. PICK interactive \in BOOLEAN :
          Take(Flusher, {s \in Sessions : Due(s, interactive)})
    BY <1>14 DEF Tick
  <2>2. UNCHANGED <<reader, client, cur, pieces>>
    BY <1>14, <2>1 DEF Tick, Take
  <2>3. /\ sendMu = NoOne /\ jobs = NoJobs /\ sendMu' = Flusher
        /\ \A s \in Sessions : bufs[s] = <<>> => bufs'[s] = <<>>
    BY <2>1 DEF Take, LockInv
  <2>4. \A s \in Sessions : cur # s
    BY <2>3 DEF LockInv, NoJobs
  <2>5. \A c \in Clients : client[c] = "idle"
    BY <2>3 DEF LockInv
  <2>6. Flusher # NoOne /\ Flusher \notin Sessions
    BY DEF Goroutines
  <2> QED BY <2>2, <2>3, <2>4, <2>5, <2>6 DEF LockInv
<1>15. ASSUME NEW g \in Goroutines, Return(g) PROVE LockInv'
  BY <1>15 DEF Return, TypeOK, LockInv, Goroutines, NoJobs
<1>16. CASE UNCHANGED vars
  BY <1>16 DEF vars, TypeOK, LockInv, Goroutines, NoJobs
<1> QED
  BY <1>1, <1>2, <1>3, <1>4, <1>5, <1>6, <1>7, <1>8, <1>9, <1>10, <1>11,
     <1>12, <1>13, <1>14, <1>15, <1>16
     DEF BatcherNext, ReaderStep, ClientStep

-----------------------------------------------------------------------------
(* The order: sent, detached, buffered, in the reader's hands.             *)

\* Whoever takes sendMu finds nothing detached and nothing partly sent.
LEMMA FreeLock ==
  ASSUME LockInv, sendMu = NoOne
  PROVE  jobs = NoJobs /\ cur \notin Sessions
BY DEF LockInv, NoJobs

\* Messages are numbered and carry numbers.
LEMMA SentFacts ==
  ASSUME TypeOK, NEW t \in Sessions
  PROVE  /\ sent[t] \in Seq(Message)
         /\ \A j \in 1..Len(sent[t]) :
              sent[t][j].seq \in Nat /\ sent[t][j].data \in Seq(Nat)
<1>1. sent[t] \in Seq(Message)
  BY DEF TypeOK
<1>2. ASSUME NEW j \in 1..Len(sent[t])
      PROVE  sent[t][j].seq \in Nat /\ sent[t][j].data \in Seq(Nat)
  <2>1. sent[t][j] \in Message
    BY <1>1
  <2> QED BY <2>1 DEF Message
<1> QED BY <1>1, <1>2

\* Session t stays ordered when its entries stay and no write is un-added.
LEMMA OrderFrame ==
  ASSUME TypeOK, NEW t \in Sessions, Ordered(t),
         UNCHANGED <<bufs[t], jobs[t], sent[t]>>,
         Added(t)' \in Int, Added(t)' >= Added(t),
         reader'[t] # "read" => seq'[t] >= 1,
         cur' = t /\ pieces' > 0 <=> cur = t /\ pieces > 0
  PROVE  Ordered(t)'
<1>1. Added(t) \in Int /\ seq[t] \in Nat /\ bufs[t] \in Seq(Nat) /\ jobs[t] \in Seq(Nat)
      /\ sent[t] \in Seq(Message)
  BY DEF TypeOK, Added
<1>2. \A j \in 1..Len(sent[t]) : sent[t][j].seq \in Nat
  BY SentFacts
<1>3. Segment(bufs[t], Added(t))' /\ Segment(jobs[t], Added(t))'
  BY SMTT(120), <1>1 DEF Ordered, Segment, Last
<1>4. \A j \in 1..Len(sent'[t]) :
         /\ sent'[t][j].seq <= Added(t)'
         /\ bufs'[t] # <<>> => sent'[t][j].seq < bufs'[t][1]
         /\ jobs'[t] # <<>> =>
              IF cur' = t /\ pieces' > 0 THEN sent'[t][j].seq <= jobs'[t][1]
                                       ELSE sent'[t][j].seq < jobs'[t][1]
  BY SMTT(120), <1>1, <1>2 DEF Ordered
<1> QED BY <1>3, <1>4 DEF Ordered, Last

\* An Added write becomes the last of its buffer.
LEMMA OrderAppend ==
  ASSUME TypeOK, NEW t \in Sessions, Ordered(t), reader[t] # "read",
         bufs[t] # <<>> => seq[t] = Last(bufs[t]) + 1,
         bufs'[t] = Append(bufs[t], seq[t]), reader'[t] = "read",
         UNCHANGED <<seq[t], jobs[t], sent[t], cur, pieces>>
  PROVE  Ordered(t)'
<1>1. /\ seq[t] \in Nat /\ bufs[t] \in Seq(Nat) /\ jobs[t] \in Seq(Nat)
      /\ sent[t] \in Seq(Message)
  BY DEF TypeOK
<1>2. \A j \in 1..Len(sent[t]) : sent[t][j].seq \in Nat
  BY SentFacts
<1>3. Added(t) = seq[t] - 1 /\ Added(t)' = seq[t] /\ seq[t] >= 1
  BY DEF Added, Ordered
<1>4. Segment(bufs[t], seq[t] - 1) /\ Segment(jobs[t], seq[t] - 1)
  BY <1>3 DEF Ordered
<1>5. /\ Len(bufs'[t]) = Len(bufs[t]) + 1 /\ bufs'[t] \in Seq(Nat)
      /\ \A i \in 1..Len(bufs[t]) : bufs'[t][i] = bufs[t][i]
      /\ bufs'[t][Len(bufs[t]) + 1] = seq[t]
  BY <1>1
<1>6. bufs[t] # <<>> => /\ seq[t] = bufs[t][1] + Len(bufs[t])
                        /\ bufs'[t][1] = bufs[t][1] /\ bufs[t][1] >= 1
  <2> SUFFICES ASSUME bufs[t] # <<>>
               PROVE  /\ seq[t] = bufs[t][1] + Len(bufs[t])
                      /\ bufs'[t][1] = bufs[t][1] /\ bufs[t][1] >= 1
    OBVIOUS
  <2>1. Len(bufs[t]) \in 1..Len(bufs[t]) /\ 1 \in 1..Len(bufs[t]) /\ bufs[t][1] \in Nat
    BY <1>1
  <2>2. bufs[t][Len(bufs[t])] = bufs[t][1] + (Len(bufs[t]) - 1) /\ bufs[t][1] >= 1
    BY <2>1, <1>4 DEF Segment
  <2>3. seq[t] = bufs[t][Len(bufs[t])] + 1
    BY DEF Last
  <2>4. bufs'[t][1] = bufs[t][1]
    BY <2>1, <1>5
  <2> QED BY <1>1, <2>1, <2>2, <2>3, <2>4
<1>7. bufs[t] = <<>> => bufs'[t][1] = seq[t]
  BY <1>5
<1>8. Segment(bufs'[t], seq[t])
  <2>1. ASSUME NEW i \in 1..Len(bufs'[t]) PROVE bufs'[t][i] = bufs'[t][1] + (i - 1)
    <3>1. CASE bufs[t] = <<>>
      BY <3>1, <1>5, <1>1
    <3>2. CASE bufs[t] # <<>> /\ i \in 1..Len(bufs[t])
      BY <3>2, <1>4, <1>5, <1>6 DEF Segment
    <3>3. CASE bufs[t] # <<>> /\ i = Len(bufs[t]) + 1
      <4>1. bufs[t][1] \in Nat /\ Len(bufs[t]) \in Nat
        BY <3>3, <1>1
      <4> QED BY <3>3, <4>1, <1>5, <1>6
    <3> QED BY <3>1, <3>2, <3>3, <1>5, <1>1
  <2>2. Last(bufs'[t]) = seq[t] /\ bufs'[t][1] >= 1
    BY <1>3, <1>5, <1>6, <1>7 DEF Last
  <2> QED BY <2>1, <2>2, <1>1 DEF Segment
<1>9. Segment(jobs[t], seq[t])
  BY <1>4, <1>1 DEF Segment, Last
<1>10. jobs[t] # <<>> => Last(jobs[t]) < bufs'[t][1]
  <2>1. jobs[t] # <<>> => Last(jobs[t]) \in Nat
    BY <1>1 DEF Last
  <2> QED BY <2>1, <1>1, <1>4, <1>6, <1>7 DEF Segment, Ordered
<1>11. \A j \in 1..Len(sent[t]) : sent[t][j].seq < bufs'[t][1]
  BY SMTT(120), <1>1, <1>2, <1>3, <1>6, <1>7 DEF Ordered
<1>12. \A j \in 1..Len(sent[t]) : sent[t][j].seq <= seq[t]
  BY SMTT(120), <1>1, <1>2, <1>3 DEF Ordered
<1> QED BY <1>3, <1>8, <1>9, <1>10, <1>11, <1>12 DEF Ordered

\* Detaching a whole buffer, or none of it, keeps the order.
LEMMA OrderTake ==
  ASSUME TypeOK, LockInv, NEW g, NEW Chosen, Take(g, Chosen), UNCHANGED reader,
         NEW t \in Sessions, Ordered(t)
  PROVE  Ordered(t)'
<1>1. jobs[t] = <<>> /\ cur # t /\ cur' # t
  BY FreeLock DEF Take, NoJobs
<1>2. UNCHANGED <<seq, reader, sent>> /\ Added(t)' = Added(t)
  BY DEF Take, Added
<1>3. \/ bufs'[t] = <<>> /\ jobs'[t] = bufs[t]
      \/ bufs'[t] = bufs[t] /\ jobs'[t] = <<>>
  BY DEF Take
<1>4. Segment(bufs'[t], Added(t)) /\ Segment(jobs'[t], Added(t))
  BY <1>3 DEF Ordered, Segment
<1> QED BY <1>1, <1>2, <1>3, <1>4 DEF Ordered

\* Session s stays ordered when Emit moves a run of its job to the wire.
LEMMA OrderEmit ==
  ASSUME TypeOK, LockInv, NEW s \in Sessions, Ordered(s), Emit(s)
  PROVE  Ordered(s)'
<1>1. PICK k \in 1..Len(jobs[s]), cut \in BOOLEAN, rest \in Seq(Nat) :
        /\ Len(rest) = IF cut THEN Len(jobs[s]) - k + 1 ELSE Len(jobs[s]) - k
        /\ \A i \in 1..Len(rest) :
             rest[i] = jobs[s][i + (IF cut THEN k - 1 ELSE k)]
        /\ sent' = [sent EXCEPT ![s] = Append(@, Packed(jobs[s], k, pieces))]
        /\ jobs' = [jobs EXCEPT ![s] = rest]
        /\ pieces' \in Nat /\ (pieces' > 0 <=> cut)
        /\ cur' = IF rest = <<>> THEN NoOne ELSE s
  BY EmitFacts
<1> DEFINE job == jobs[s]
           off == IF cut THEN k - 1 ELSE k
<1>2. /\ job \in Seq(Nat) /\ k \in 1..Len(job) /\ Len(job) \in Nat /\ k \in Nat
      /\ 1 \in 1..Len(job) /\ Len(job) \in 1..Len(job) /\ job[1] \in Nat
  BY DEF TypeOK
<1>a. /\ off \in Nat /\ off = IF cut THEN k - 1 ELSE k
      /\ Len(rest) + off = Len(job) /\ Len(rest) \in Nat
      /\ \A i \in 1..Len(rest) : rest[i] = job[i + off]
  BY <1>1, <1>2
<1>b. Segment(job, Added(s)) /\ (bufs[s] # <<>> => Last(job) < bufs[s][1])
  BY <1>2 DEF Ordered
<1>c. \A j \in 1..Len(sent[s]) : sent[s][j].seq \in Nat /\ sent[s][j].seq <= job[1]
  BY SentFacts, <1>2 DEF Ordered
<1>d. /\ jobs'[s] = rest /\ sent'[s] = Append(sent[s], Packed(job, k, pieces))
      /\ (rest # <<>> => cur' = s) /\ (rest = <<>> => cur' = NoOne)
      /\ pieces' \in Nat /\ (pieces' > 0 <=> cut)
  BY <1>1 DEF TypeOK
<1>e. /\ job[1] \in Nat /\ Len(job) \in Nat
      /\ k \in Nat /\ 1 <= k /\ k <= Len(job)
      /\ off \in Nat /\ (cut => off = k - 1) /\ (~cut => off = k)
      /\ Len(rest) \in Nat /\ Len(rest) + off = Len(job)
  BY <1>2, <1>a
<1> HIDE DEF job, off
<1>3. UNCHANGED <<reader, seq, bufs>> /\ Added(s)' = Added(s) /\ Added(s) \in Int
  BY DEF Emit, entryVars, Added, TypeOK
<1>4. /\ \A i \in 1..Len(job) : job[i] = job[1] + (i - 1)
      /\ job[1] >= 1 /\ job[1] + (Len(job) - 1) <= Added(s)
  <2>1. /\ \A i \in 1..Len(job) : job[i] = job[1] + (i - 1)
        /\ job[1] >= 1 /\ job[Len(job)] <= Added(s)
    BY <1>2, <1>b DEF Segment, Last
  <2> QED BY <2>1, <1>2
<1>6. /\ Len(sent'[s]) = Len(sent[s]) + 1 /\ Len(sent[s]) \in Nat
      /\ \A j \in 1..Len(sent[s]) : sent'[s][j] = sent[s][j]
      /\ sent'[s][Len(sent[s]) + 1] = Packed(job, k, pieces)
  BY SMTT(60), <1>d DEF TypeOK
<1>7. Packed(job, k, pieces).seq = job[1] + (k - 1)
  BY <1>2, <1>4 DEF Packed
<1>8. \A j \in 1..Len(sent'[s]) : sent'[s][j].seq \in Nat /\ sent'[s][j].seq <= job[1] + (k - 1)
  <2>2. ASSUME NEW j \in 1..Len(sent'[s])
        PROVE  sent'[s][j].seq \in Nat /\ sent'[s][j].seq <= job[1] + (k - 1)
    <3>1. CASE j \in 1..Len(sent[s])
      <4>1. sent'[s][j] = sent[s][j]
        BY <3>1, <1>6
      <4>2. sent[s][j].seq \in Nat /\ sent[s][j].seq <= job[1]
        BY <3>1, <1>c
      <4> QED BY SMTT(60), <4>1, <4>2, <1>e
    <3>2. CASE j = Len(sent[s]) + 1
      BY <3>2, <1>2, <1>6, <1>7
    <3> QED BY <3>1, <3>2, <1>6
  <2> QED BY <2>2
<1>9. \A i \in 1..Len(rest) : rest[i] = job[1] + (i + off - 1) /\ rest[i] \in Nat
  <2>1. ASSUME NEW i \in 1..Len(rest)
        PROVE  rest[i] = job[1] + (i + off - 1) /\ rest[i] \in Nat
    <3>1. i + off \in 1..Len(job) /\ i \in Nat
      BY <1>a, <1>2
    <3>2. rest[i] = job[i + off]
      BY <1>a
    <3>3. job[i + off] = job[1] + (i + off - 1)
      BY <1>4, <3>1, <1>e
    <3> QED BY <3>1, <3>2, <3>3, <1>e
  <2> QED BY <2>1
<1>10. rest # <<>> => /\ 1 \in 1..Len(rest) /\ Len(rest) \in 1..Len(rest)
                      /\ Len(rest) + off = Len(job)
  BY <1>a, <1>2
<1>11. rest # <<>> => /\ rest[1] = job[1] + off
                      /\ Last(rest) = job[1] + (Len(job) - 1)
  <2> SUFFICES ASSUME rest # <<>>
               PROVE  /\ rest[1] = job[1] + off
                      /\ Last(rest) = job[1] + (Len(job) - 1)
    OBVIOUS
  <2>1. rest[1] = job[1] + (1 + off - 1) /\ Last(rest) = job[1] + (Len(rest) + off - 1)
    BY <1>9, <1>10 DEF Last
  <2> QED BY <2>1, <1>e
<1>12. Segment(rest, Added(s))
  <2>1. ASSUME NEW i \in 1..Len(rest) PROVE rest[i] = rest[1] + (i - 1)
    <3>1. rest # <<>> /\ i \in Nat
      BY <1>a
    <3>2. rest[i] = job[1] + (i + off - 1) /\ rest[1] = job[1] + off
      BY <1>9, <1>11, <3>1
    <3> QED BY <3>1, <3>2, <1>e
  <2>2. rest # <<>> => rest[1] >= 1 /\ Last(rest) <= Added(s)
    BY <1>3, <1>4, <1>11, <1>e
  <2> QED BY <2>1, <2>2 DEF Segment
<1>13. bufs[s] # <<>> => /\ bufs[s][1] \in Nat
                         /\ job[1] + (Len(job) - 1) < bufs[s][1]
  <2>1. bufs[s] # <<>> => bufs[s][1] \in Nat /\ Last(job) < bufs[s][1]
    BY SMTT(120), <1>b DEF TypeOK
  <2>2. Last(job) = job[1] + (Len(job) - 1)
    BY <1>2, <1>4 DEF Last
  <2> QED BY <2>1, <2>2
<1>14. cur' = s /\ pieces' > 0 <=> cut
  <2>1. cut => rest # <<>>
    BY <1>a, <1>2
  <2> QED BY <2>1, <1>d, BatcherAssumption
<1>15. \A j \in 1..Len(sent'[s]) :
         /\ sent'[s][j].seq <= Added(s)
         /\ bufs[s] # <<>> => sent'[s][j].seq < bufs[s][1]
         /\ rest # <<>> => IF cut THEN sent'[s][j].seq <= rest[1]
                                  ELSE sent'[s][j].seq < rest[1]
  <2>1. ASSUME NEW j \in 1..Len(sent'[s])
        PROVE  /\ sent'[s][j].seq <= Added(s)
               /\ bufs[s] # <<>> => sent'[s][j].seq < bufs[s][1]
               /\ rest # <<>> => IF cut THEN sent'[s][j].seq <= rest[1]
                                        ELSE sent'[s][j].seq < rest[1]
    <3>1. sent'[s][j].seq \in Nat /\ sent'[s][j].seq <= job[1] + (k - 1)
      BY <1>8
    <3>2. rest # <<>> => rest[1] = IF cut THEN job[1] + (k - 1) ELSE job[1] + k
      BY <1>11, <1>e
    <3>3. sent'[s][j].seq <= Added(s)
      BY SMTT(120), <3>1, <1>e, <1>3, <1>4
    <3>4. bufs[s] # <<>> => sent'[s][j].seq < bufs[s][1]
      BY SMTT(120), <3>1, <1>e, <1>13
    <3>5. rest # <<>> => IF cut THEN sent'[s][j].seq <= rest[1]
                               ELSE sent'[s][j].seq < rest[1]
      BY SMTT(120), <3>1, <3>2, <1>e
    <3> QED BY <3>3, <3>4, <3>5
  <2> QED BY <2>1
<1>16. cut => sent'[s] # <<>> /\ Last(sent'[s]).seq = rest[1]
  <2>1. cut => rest # <<>>
    BY <1>a, <1>2
  <2>2. sent'[s] # <<>> /\ Last(sent'[s]).seq = job[1] + (k - 1)
    BY <1>6, <1>7 DEF Last
  <2> QED BY <2>1, <2>2, <1>11, <1>e
<1>17. Segment(bufs[s], Added(s)) /\ (reader[s] # "read" => seq[s] >= 1)
  BY DEF Ordered
<1>18. rest # <<>> /\ bufs[s] # <<>> => Last(rest) < bufs[s][1]
  BY <1>11, <1>13
<1> QED BY <1>3, <1>d, <1>12, <1>14, <1>15, <1>16, <1>17, <1>18 DEF Ordered

\* Every buffer stays ordered when SealTake cuts it at the snapshot.
LEMMA OrderSealTake ==
  ASSUME TypeOK, LockInv, OrderInv, NEW c \in Clients, SealTake(c),
         NEW t \in Sessions
  PROVE  Ordered(t)'
<1>1. PICK k \in 0..Len(bufs[t]) :
        /\ jobs'[t] \in Seq(Nat) /\ Len(jobs'[t]) = k
        /\ \A i \in 1..k : jobs'[t][i] = bufs[t][i]
        /\ bufs'[t] \in Seq(Nat) /\ Len(bufs'[t]) = Len(bufs[t]) - k
        /\ \A i \in 1..(Len(bufs[t]) - k) : bufs'[t][i] = bufs[t][k + i]
  BY SealTakeFacts
<1>2. /\ UNCHANGED <<reader, seq, sent, cur>> /\ jobs = NoJobs
      /\ Added(t)' = Added(t) /\ Added(t) \in Int
  BY DEF SealTake, SealTakeBy, Covered, Rest, LockInv, Added, TypeOK
<1>3. cur # t
  BY <1>2 DEF LockInv, NoJobs
<1> DEFINE b == bufs[t]
<1>4. /\ b \in Seq(Nat) /\ Len(b) \in Nat /\ k \in Nat /\ k <= Len(b)
      /\ (Len(b) > 0 => b[1] \in Nat)
  BY DEF TypeOK
<1>5. /\ \A i \in 1..Len(b) : b[i] = b[1] + (i - 1)
      /\ (Len(b) > 0 => b[1] >= 1 /\ b[1] + (Len(b) - 1) <= Added(t))
  <2>1. Segment(b, Added(t))
    BY DEF OrderInv, Ordered
  <2>2. \A i \in 1..Len(b) : b[i] = b[1] + (i - 1)
    BY <2>1 DEF Segment
  <2>3. Len(b) > 0 => Len(b) \in 1..Len(b) /\ b[1] >= 1 /\ b[Len(b)] <= Added(t)
    BY <2>1, <1>4 DEF Segment, Last
  <2> QED BY <2>2, <2>3
<1>6. \A j \in 1..Len(sent[t]) :
        /\ sent[t][j].seq \in Nat /\ sent[t][j].seq <= Added(t)
        /\ Len(b) > 0 => sent[t][j].seq < b[1]
  BY SentFacts, <1>4 DEF OrderInv, Ordered
<1>7. (reader[t] # "read" => seq[t] >= 1)
  BY DEF OrderInv, Ordered
<1> HIDE DEF b
<1>8. \A i \in 1..Len(jobs'[t]) : jobs'[t][i] = b[1] + (i - 1)
  <2>1. ASSUME NEW i \in 1..Len(jobs'[t]) PROVE jobs'[t][i] = b[1] + (i - 1)
    <3>0. i \in 1..k /\ jobs'[t][i] = b[i]
      BY <1>1 DEF b
    <3>1. i \in 1..Len(b) /\ jobs'[t][i] = b[i]
      BY <3>0, <1>4
    <3> QED BY <3>1, <1>5
  <2> QED BY <2>1
<1>9. \A i \in 1..Len(bufs'[t]) : bufs'[t][i] = b[1] + (k + i - 1)
  <2>1. ASSUME NEW i \in 1..Len(bufs'[t]) PROVE bufs'[t][i] = b[1] + (k + i - 1)
    <3>1. k + i \in 1..Len(b) /\ bufs'[t][i] = b[k + i] /\ i \in Nat
      BY SMTT(60), <1>1, <1>4 DEF b
    <3>2. b[k + i] = b[1] + (k + i - 1)
      BY <3>1, <1>5
    <3> QED BY <3>1, <3>2
  <2> QED BY <2>1
<1>10. jobs'[t] # <<>> => /\ Len(b) > 0 /\ 1 <= k
                          /\ jobs'[t][1] = b[1] /\ Last(jobs'[t]) = b[1] + (k - 1)
  <2> SUFFICES ASSUME jobs'[t] # <<>>
               PROVE  /\ Len(b) > 0 /\ 1 <= k
                      /\ jobs'[t][1] = b[1] /\ Last(jobs'[t]) = b[1] + (k - 1)
    OBVIOUS
  <2>1. 1 \in 1..Len(jobs'[t]) /\ Len(jobs'[t]) \in 1..Len(jobs'[t]) /\ Len(jobs'[t]) = k
    BY <1>1
  <2>2. 1 <= k /\ Len(b) > 0
    BY <2>1, <1>4
  <2>3. jobs'[t][1] = b[1] + (1 - 1) /\ Last(jobs'[t]) = b[1] + (k - 1)
    BY <2>1, <1>8 DEF Last
  <2> QED BY <2>2, <2>3, <1>4
<1>11. bufs'[t] # <<>> => /\ Len(b) > 0 /\ bufs'[t][1] = b[1] + k
                          /\ Last(bufs'[t]) = b[1] + (Len(b) - 1)
  <2> SUFFICES ASSUME bufs'[t] # <<>>
               PROVE  /\ Len(b) > 0 /\ bufs'[t][1] = b[1] + k
                      /\ Last(bufs'[t]) = b[1] + (Len(b) - 1)
    OBVIOUS
  <2>1. /\ 1 \in 1..Len(bufs'[t]) /\ Len(bufs'[t]) \in 1..Len(bufs'[t])
        /\ Len(bufs'[t]) = Len(b) - k
    BY <1>1 DEF b
  <2>2. /\ bufs'[t][1] = b[1] + (k + 1 - 1)
        /\ Last(bufs'[t]) = b[1] + (k + Len(bufs'[t]) - 1)
    BY <2>1, <1>9 DEF Last
  <2>3. Len(b) > 0
    BY <2>1, <1>4
  <2> QED BY <2>1, <2>2, <2>3, <1>4
<1>12. Segment(jobs'[t], Added(t))
  <2>1. ASSUME NEW i \in 1..Len(jobs'[t]) PROVE jobs'[t][i] = jobs'[t][1] + (i - 1)
    <3>1. jobs'[t] # <<>>
      BY <1>1
    <3> QED BY <3>1, <1>8, <1>10
  <2>2. jobs'[t] # <<>> => jobs'[t][1] >= 1 /\ Last(jobs'[t]) <= Added(t)
    BY <1>2, <1>4, <1>5, <1>10
  <2> QED BY <2>1, <2>2 DEF Segment
<1>13. Segment(bufs'[t], Added(t))
  <2>1. ASSUME NEW i \in 1..Len(bufs'[t]) PROVE bufs'[t][i] = bufs'[t][1] + (i - 1)
    <3>1. bufs'[t] # <<>> /\ i \in Nat
      BY <1>1
    <3>2. bufs'[t][i] = b[1] + (k + i - 1)
      BY <1>9
    <3>3. b[1] \in Nat /\ k \in Nat /\ bufs'[t][1] = b[1] + k
      BY <3>1, <1>4, <1>11
    <3>4. i \in Int
      BY <3>1
    <3> QED BY <3>2, <3>3, <3>4
  <2>2. bufs'[t] # <<>> => bufs'[t][1] >= 1 /\ Last(bufs'[t]) <= Added(t)
    BY <1>2, <1>4, <1>5, <1>11
  <2> QED BY <2>1, <2>2 DEF Segment
<1>14. jobs'[t] # <<>> /\ bufs'[t] # <<>> => Last(jobs'[t]) < bufs'[t][1]
  BY <1>4, <1>10, <1>11
<1>15. \A j \in 1..Len(sent[t]) :
         /\ bufs'[t] # <<>> => sent[t][j].seq < bufs'[t][1]
         /\ jobs'[t] # <<>> => sent[t][j].seq < jobs'[t][1]
  BY SMTT(120), <1>4, <1>6, <1>10, <1>11
<1> QED BY <1>2, <1>3, <1>6, <1>7, <1>12, <1>13, <1>14, <1>15 DEF Ordered

\* Every step keeps every session ordered.
LEMMA OrderStep ==
  TypeOK /\ LockInv /\ OrderInv /\ [BatcherNext]_vars => OrderInv'
<1> SUFFICES ASSUME TypeOK, LockInv, OrderInv, [BatcherNext]_vars,
                    NEW t \in Sessions
             PROVE  Ordered(t)'
  BY DEF OrderInv
<1> USE BatcherAssumption DEF entryVars, lockVars, ghosts
<1>0. /\ Ordered(t) /\ seq[t] \in Nat /\ bufs[t] \in Seq(Nat)
      /\ (reader[t] # "read" => seq[t] >= 1)
  BY DEF OrderInv, Ordered, TypeOK
<1>1. ASSUME NEW s \in Sessions, Write(s) PROVE Ordered(t)'
  <2>1. UNCHANGED <<bufs[t], jobs[t], sent[t], cur, pieces>>
    BY <1>1 DEF Write
  <2>2. /\ Added(t)' \in Int /\ Added(t)' >= Added(t)
        /\ (reader'[t] # "read" => seq'[t] >= 1)
    BY SMTT(60), <1>0, <1>1 DEF Write, Added, TypeOK
  <2> QED BY <1>0, <2>1, <2>2, OrderFrame
<1>2. ASSUME NEW s \in Sessions, Skip(s) PROVE Ordered(t)'
  <2>1. UNCHANGED <<bufs[t], jobs[t], sent[t], cur, pieces>>
    BY <1>2 DEF Skip
  <2>2. /\ Added(t)' \in Int /\ Added(t)' >= Added(t)
        /\ (reader'[t] # "read" => seq'[t] >= 1)
    BY SMTT(60), <1>0, <1>2 DEF Skip, Added, TypeOK
  <2> QED BY <1>0, <2>1, <2>2, OrderFrame
<1>3. ASSUME NEW s \in Sessions, AddContiguous(s) PROVE Ordered(t)'
  <2>1. CASE s = t
    <3>1. /\ reader[t] # "read" /\ (bufs[t] # <<>> => seq[t] = Last(bufs[t]) + 1)
          /\ bufs'[t] = Append(bufs[t], seq[t]) /\ reader'[t] = "read"
          /\ UNCHANGED <<seq[t], jobs[t], sent[t], cur, pieces>>
      BY <1>3, <2>1 DEF AddContiguous, TypeOK
    <3> QED BY <1>0, <3>1, OrderAppend
  <2>2. CASE s # t
    <3>1. /\ UNCHANGED <<bufs[t], jobs[t], sent[t], cur, pieces>>
          /\ UNCHANGED <<seq[t], reader[t]>>
      BY <1>3, <2>2 DEF AddContiguous, TypeOK
    <3>2. Added(t)' \in Int /\ Added(t)' >= Added(t)
      BY <1>0, <3>1 DEF Added
    <3> QED BY <1>0, <3>1, <3>2, OrderFrame
  <2> QED BY <2>1, <2>2
<1>4. ASSUME NEW s \in Sessions, AddAfterGap(s) PROVE Ordered(t)'
  <2>1. UNCHANGED <<bufs[t], jobs[t], sent[t], cur, pieces, seq>>
    BY <1>4 DEF AddAfterGap
  <2>2. reader'[t] # "read" <=> reader[t] # "read"
    BY <1>4 DEF AddAfterGap, TypeOK
  <2>3. Added(t)' \in Int /\ Added(t)' >= Added(t)
    BY <1>0, <2>1, <2>2 DEF Added
  <2> QED BY <1>0, <2>1, <2>2, <2>3, OrderFrame
<1>5. ASSUME NEW s \in Sessions, FlushSession(s) PROVE Ordered(t)'
  BY <1>0, <1>5, OrderTake DEF FlushSession
<1>6. ASSUME NEW s \in Sessions, Insert(s) PROVE Ordered(t)'
  <2>1. CASE s = t
    <3>1. /\ reader[t] = "insert" /\ bufs'[t] = <<seq[t]>> /\ reader'[t] = "read"
          /\ UNCHANGED <<seq[t], jobs[t], sent[t], cur, pieces>>
      BY <1>6, <2>1 DEF Insert, TypeOK
    <3>2. bufs[t] = <<>> /\ bufs'[t] = Append(bufs[t], seq[t])
      BY <3>1, <1>0 DEF LockInv
    <3> QED BY <1>0, <3>1, <3>2, OrderAppend
  <2>2. CASE s # t
    <3>1. /\ UNCHANGED <<bufs[t], jobs[t], sent[t], cur, pieces>>
          /\ UNCHANGED <<seq[t], reader[t]>>
      BY <1>6, <2>2 DEF Insert, TypeOK
    <3>2. Added(t)' \in Int /\ Added(t)' >= Added(t)
      BY <1>0, <3>1 DEF Added
    <3> QED BY <1>0, <3>1, <3>2, OrderFrame
  <2> QED BY <2>1, <2>2
<1>7. ASSUME UNCHANGED <<seq, reader, bufs, jobs, cur, pieces, sent>>
      PROVE  Ordered(t)'
  <2>1. Added(t)' \in Int /\ Added(t)' >= Added(t)
    BY <1>0, <1>7 DEF Added
  <2> QED BY <1>0, <1>7, <2>1, OrderFrame
<1>8. ASSUME NEW s \in Sessions, Emit(s) PROVE Ordered(t)'
  <2>1. CASE s = t
    BY <1>0, <1>8, <2>1, OrderEmit
  <2>2. CASE s # t
    <3>1. UNCHANGED <<bufs[t], jobs[t], sent[t], seq, reader>>
      BY <1>8, <2>2, EmitFacts DEF TypeOK, Emit
    <3>2. cur # t /\ cur' # t
      BY ZenonT(120), <1>8, <2>2, EmitFacts DEF Emit
    <3>3. Added(t)' \in Int /\ Added(t)' >= Added(t)
      BY <1>0, <3>1 DEF Added
    <3> QED BY <1>0, <3>1, <3>2, <3>3, OrderFrame
  <2> QED BY <2>1, <2>2
<1>9. ASSUME NEW c \in Clients, FlushAll(c) PROVE Ordered(t)'
  BY <1>0, <1>9, OrderTake DEF FlushAll
<1>10. ASSUME NEW c \in Clients, SealTake(c) PROVE Ordered(t)'
  BY <1>10, OrderSealTake
<1>11. ASSUME NEW c \in Clients, Reset(c) PROVE Ordered(t)'
  <2>1. /\ bufs'[t] = <<>> /\ Added(t)' = Added(t)
        /\ UNCHANGED <<reader, seq, jobs, sent, cur, pieces>>
    BY <1>11 DEF Reset, Added
  <2>2. Segment(bufs'[t], Added(t))
    BY <2>1 DEF Segment
  <2> QED BY <1>0, <2>1, <2>2 DEF Ordered
<1>12. ASSUME Tick PROVE Ordered(t)'
  BY <1>0, <1>12, OrderTake DEF Tick
<1>13. ASSUME NEW g \in Goroutines, Return(g) PROVE Ordered(t)'
  <2>1. UNCHANGED <<bufs[t], jobs[t], sent[t], cur, pieces, seq>>
    BY <1>13 DEF Return
  <2>2. reader'[t] # "read" <=> reader[t] # "read"
    <3>1. reader'[t] = IF t = g THEN "insert" ELSE reader[t]
      BY <1>13 DEF Return
    <3>2. t = g => reader[t] = "flush"
      BY <1>13 DEF Return, LockInv
    <3> QED BY <3>1, <3>2
  <2>3. Added(t)' \in Int /\ Added(t)' >= Added(t)
    BY <1>0, <2>1, <2>2 DEF Added
  <2> QED BY <1>0, <2>1, <2>2, <2>3, OrderFrame
<1>14. ASSUME NEW s \in Sessions, Elapse(s) PROVE Ordered(t)'
  BY <1>7, <1>14 DEF Elapse
<1>15. ASSUME NEW c \in Clients, NEW s \in Sessions, SealAt(c, s) PROVE Ordered(t)'
  BY <1>7, <1>15 DEF SealAt
<1>16. ASSUME NEW c \in Clients, Stop(c) PROVE Ordered(t)'
  BY <1>7, <1>16 DEF Stop
<1>17. CASE UNCHANGED vars
  BY <1>7, <1>17 DEF vars
<1> QED
  BY <1>1, <1>2, <1>3, <1>4, <1>5, <1>6, <1>8, <1>9, <1>10, <1>11,
     <1>12, <1>13, <1>14, <1>15, <1>16, <1>17
     DEF BatcherNext, ReaderStep, ClientStep

-----------------------------------------------------------------------------
(* The wire contract.                                                      *)

\* What Emit's message says, in terms of the job it is cut from.
LEMMA EmitMessage ==
  ASSUME TypeOK, LockInv, NEW s \in Sessions, Ordered(s), Emit(s)
  PROVE  \E k \in 1..Len(jobs[s]), m \in Message :
           /\ sent' = [sent EXCEPT ![s] = Append(@, m)]
           /\ Len(m.data) = k
           /\ \A i \in 1..k : m.data[i] = jobs[s][1] + (i - 1)
           /\ m.seq = jobs[s][1] + (k - 1)
           /\ m.n = IF pieces > 0 THEN k - 1 ELSE k
           /\ pieces > 0 => cur = s
           /\ jobs[s][1] \in Nat
           /\ Last(jobs[s]) = jobs[s][1] + (Len(jobs[s]) - 1)
<1>1. PICK k \in 1..Len(jobs[s]) :
        sent' = [sent EXCEPT ![s] = Append(@, Packed(jobs[s], k, pieces))]
  BY EmitFacts
<1>2. jobs[s] \in Seq(Nat) /\ pieces \in Nat
  BY DEF TypeOK
<1>3. Packed(jobs[s], k, pieces) \in Message
  BY <1>2, PackedType
<1>4. \A i \in 1..Len(jobs[s]) : jobs[s][i] = jobs[s][1] + (i - 1)
  BY DEF Ordered, Segment
<1>5. /\ k \in Nat /\ 1 <= k /\ Len(jobs[s]) \in Nat
      /\ Len(jobs[s]) \in 1..Len(jobs[s]) /\ 1 \in 1..Len(jobs[s]) /\ jobs[s][1] \in Nat
  BY <1>2
<1>6. /\ Len(SubSeq(jobs[s], 1, k)) = k
      /\ \A i \in 1..k : SubSeq(jobs[s], 1, k)[i] = jobs[s][i] /\ i \in 1..Len(jobs[s])
  BY <1>2, <1>5
<1>7. \A i \in 1..k : SubSeq(jobs[s], 1, k)[i] = jobs[s][1] + (i - 1)
  BY <1>4, <1>6
<1>8. pieces > 0 => cur = s
  BY <1>2 DEF Emit, LockInv
<1>9. Last(jobs[s]) = jobs[s][1] + (Len(jobs[s]) - 1) /\ jobs[s][k] = jobs[s][1] + (k - 1)
  BY <1>4, <1>5 DEF Last
<1> QED BY <1>1, <1>3, <1>5, <1>6, <1>7, <1>8, <1>9 DEF Packed

\* Only Emit sends, and what it sends is labelled with what it carries.
LEMMA ContractStep ==
  TypeOK /\ LockInv /\ OrderInv /\ WireContract /\ [BatcherNext]_vars
    => WireContract'
<1> SUFFICES ASSUME TypeOK, LockInv, OrderInv, WireContract, [BatcherNext]_vars
             PROVE  WireContract'
  OBVIOUS
<1> USE BatcherAssumption
<1>1. ASSUME NEW s \in Sessions, Emit(s) PROVE WireContract'
  <2>0. Ordered(s)
    BY DEF OrderInv
  <2>1. PICK k \in 1..Len(jobs[s]), m \in Message :
           /\ sent' = [sent EXCEPT ![s] = Append(@, m)]
           /\ Len(m.data) = k
           /\ \A i \in 1..k : m.data[i] = jobs[s][1] + (i - 1)
           /\ m.seq = jobs[s][1] + (k - 1)
           /\ m.n = IF pieces > 0 THEN k - 1 ELSE k
           /\ pieces > 0 => cur = s
           /\ jobs[s][1] \in Nat
           /\ Last(jobs[s]) = jobs[s][1] + (Len(jobs[s]) - 1)
    BY <1>1, <2>0, EmitMessage
  <2>a. Len(sent[s]) + 1 \in Nat
    BY DEF TypeOK
  <2>b. PICK last \in Nat : last = Len(sent[s]) + 1
    BY <2>a
  <2>2. /\ Len(sent'[s]) = last /\ last \in Nat /\ last - 1 = Len(sent[s])
        /\ sent'[s][last] = m
        /\ \A j \in 1..Len(sent[s]) : sent'[s][j] = sent[s][j]
    BY <2>1, <2>b, SentFacts DEF TypeOK
  <2>3. /\ m.data \in Seq(Nat) /\ m.seq \in Nat /\ m.n \in Nat
        /\ k \in Nat /\ 1 <= k /\ pieces \in Nat
    BY <2>1 DEF Message, TypeOK
  <2>4. \A j \in 1..Len(sent[s]) :
          /\ sent[s][j].seq \in Nat /\ sent[s][j].seq <= jobs[s][1]
          /\ pieces = 0 => sent[s][j].seq < jobs[s][1]
    <3>1. jobs[s] # <<>>
      BY <1>1 DEF Emit
    <3>2. \A j \in 1..Len(sent[s]) :
            IF cur = s /\ pieces > 0 THEN sent[s][j].seq <= jobs[s][1]
                                     ELSE sent[s][j].seq < jobs[s][1]
      BY <3>1, <2>0 DEF Ordered
    <3>3. \A j \in 1..Len(sent[s]) : sent[s][j].seq \in Nat
      BY SentFacts
    <3>4. /\ jobs[s][1] \in Nat /\ pieces \in Nat
          /\ pieces > 0 => cur = s
      BY <2>1, <2>3
    <3> QED BY <3>2, <3>3, <3>4
  <2>5. pieces > 0 => Len(sent[s]) > 0 /\ sent[s][Len(sent[s])].seq = jobs[s][1]
    <3>1. pieces > 0 => sent[s] # <<>> /\ Last(sent[s]).seq = jobs[s][1]
      BY <2>0, <2>1, <2>3 DEF Ordered
    <3> QED BY <3>1, SentFacts DEF Last
  <2>6. Labelled(s, last)'
    <3>1. m.data # <<>> /\ Last(m.data) = m.seq
      <4>1. Len(m.data) \in 1..k /\ m.data[k] = jobs[s][1] + (k - 1)
        BY <2>1, <2>3
      <4> QED BY <4>1, <2>1, <2>3 DEF Last
    <3>2. \A i \in 1..Len(m.data) : m.data[i] + (Len(m.data) - i) = m.seq
      BY SMTT(60), <2>1, <2>3
    <3>3. pieces = 0 => m.n = Len(m.data)
      BY <2>1, <2>3
    <3>4. pieces > 0 => /\ m.n + 1 = Len(m.data)
                        /\ last > 1 /\ sent'[s][last - 1].seq = m.data[1]
      <4>1. pieces > 0 => m.n + 1 = Len(m.data)
        BY <2>1, <2>3
      <4>2. m.data[1] = jobs[s][1]
        BY <2>1, <2>3
      <4>3. pieces > 0 => Len(sent[s]) \in 1..Len(sent[s]) /\ last > 1
        BY <2>2, <2>5
      <4> QED BY <4>1, <4>2, <4>3, <2>2, <2>5
    <3>5. sent'[s][last] = m /\ pieces \in Nat
      BY <2>2, <2>3
     <3>6. CASE pieces = 0
      BY <3>1, <3>2, <3>3, <3>5, <3>6 DEF Labelled
    <3>7. CASE pieces > 0
      BY <3>1, <3>2, <3>4, <3>5, <3>7 DEF Labelled
    <3> QED BY <3>5, <3>6, <3>7
  <2>7. last > 1 => sent'[s][last - 1].seq <= m.seq - m.n
    <3> SUFFICES ASSUME last > 1 PROVE sent'[s][last - 1].seq <= m.seq - m.n
      OBVIOUS
    <3>1. Len(sent[s]) \in 1..Len(sent[s])
      BY <2>2
    <3>2. sent'[s][last - 1] = sent[s][Len(sent[s])]
      BY <2>2, <3>1
    <3>3. m.seq - m.n = IF pieces > 0 THEN jobs[s][1] ELSE jobs[s][1] - 1
      BY <2>1, <2>3
    <3>4. /\ sent[s][Len(sent[s])].seq \in Nat
          /\ sent[s][Len(sent[s])].seq <= jobs[s][1]
          /\ pieces = 0 => sent[s][Len(sent[s])].seq < jobs[s][1]
      BY <2>4, <3>1
    <3>5. jobs[s][1] \in Nat /\ pieces \in Nat
      BY <2>1, <2>3
     <3> QED BY <3>2, <3>3, <3>4, <3>5
  <2>8. ASSUME NEW t \in Sessions, NEW j \in 1..Len(sent'[t])
        PROVE  /\ Labelled(t, j)'
               /\ j > 1 => sent'[t][j - 1].seq <= sent'[t][j].seq - sent'[t][j].n
    <3>1. CASE t = s /\ j = last
      <4>1. sent'[t][j] = m
        BY <3>1, <2>2
        <4> QED BY <3>1, <4>1, <2>6, <2>7
    <3>2. CASE ~(t = s /\ j = last)
      <4>1. j \in 1..Len(sent[t]) /\ sent'[t][j] = sent[t][j]
        BY <3>2, <2>1, <2>2
      <4>2. j > 1 => sent'[t][j - 1] = sent[t][j - 1]
        <5>1. CASE t = s
          <6>1. j > 1 => j - 1 \in 1..Len(sent[s])
            BY <4>1, <5>1, <2>2
          <6> QED BY <5>1, <6>1, <2>2
        <5>2. CASE t # s
          BY <5>2, <2>1
        <5> QED BY <5>1, <5>2
      <4>3. /\ Labelled(t, j)
            /\ j > 1 => sent[t][j - 1].seq <= sent[t][j].seq - sent[t][j].n
        BY <4>1 DEF WireContract
      <4>4. Labelled(t, j)'
        BY <4>1, <4>2, <4>3 DEF Labelled
      <4> QED BY <4>1, <4>2, <4>3, <4>4
    <3> QED BY <3>1, <3>2
  <2> QED BY <2>8 DEF WireContract
<1>2. ASSUME sent' = sent PROVE WireContract'
  <2>1. ASSUME NEW s \in Sessions, NEW j \in 1..Len(sent'[s])
        PROVE  Labelled(s, j)'
    <3>1. Labelled(s, j)
      BY <1>2 DEF WireContract
    <3> QED BY <1>2, <3>1 DEF Labelled
  <2> QED BY <1>2, <2>1 DEF WireContract
<1>3. sent' = sent \/ \E s \in Sessions : Emit(s)
  BY DEF BatcherNext, ReaderStep, ClientStep, Write, Skip, AddContiguous,
         AddAfterGap, FlushSession, Insert, Elapse, FlushAll, SealAt, SealTake,
         SealTakeBy, Reset, Stop, Tick, Take, Return, vars
<1> QED BY <1>1, <1>2, <1>3

-----------------------------------------------------------------------------
(* Snapshots.                                                              *)

\* A snapshot keeps its place when the session's entries keep theirs.
LEMMA SealFrame ==
  ASSUME NEW t \in Sessions, NEW h, h \in Nat, Sealed(t, h),
         UNCHANGED <<bufs[t], jobs[t], client, snapshot>>,
         seq[t] \in Nat, seq'[t] \in Nat, seq'[t] >= seq[t]
  PROVE  Sealed(t, h)'
<1>1. h <= seq'[t]
  BY DEF Sealed
<1> QED BY <1>1 DEF Sealed

\* Detaching a whole buffer leaves every snapshot at or before its first entry.
LEMMA SealTakeAll ==
  ASSUME TypeOK, LockInv, NEW g, NEW Chosen, Take(g, Chosen),
         NEW t \in Sessions, NEW h \in seals[t], Sealed(t, h)
  PROVE  Sealed(t, h)'
<1>1. jobs[t] = <<>> /\ \A c \in Clients : client[c] # "sealed"
  <2>1. sendMu = NoOne
    BY DEF Take
  <2>2. jobs[t] = <<>>
    BY <2>1 DEF LockInv, NoJobs
  <2> QED BY <2>1, <2>2, BatcherAssumption DEF LockInv
<1>2. seq' = seq /\ (bufs[t] # <<>> => h <= bufs[t][1])
  BY <1>1 DEF Take, Sealed
<1>3. \/ bufs'[t] = <<>> /\ jobs'[t] = bufs[t]
      \/ bufs'[t] = bufs[t] /\ jobs'[t] = <<>>
  BY DEF Take
<1> QED BY <1>2, <1>3 DEF Sealed

\* An Added write is no older than any snapshot.
LEMMA SealAppend ==
  ASSUME TypeOK, NEW t \in Sessions, NEW h \in seals[t], Sealed(t, h),
         bufs'[t] = Append(bufs[t], seq[t]),
         UNCHANGED <<seq[t], jobs[t], client, snapshot>>
  PROVE  Sealed(t, h)'
<1>1. bufs[t] # <<>> => bufs'[t][1] = bufs[t][1]
  BY DEF TypeOK
<1>2. bufs[t] = <<>> => bufs'[t][1] = seq[t]
  BY DEF TypeOK
<1>3. bufs'[t] # <<>> => \/ h <= bufs'[t][1]
                         \/ h = snapshot /\ \E c \in Clients : client[c] = "sealed"
  BY <1>1, <1>2 DEF Sealed
<1> QED BY <1>3 DEF Sealed

\* What Emit leaves of a job lies on the same side of every snapshot.
LEMMA SealEmit ==
  ASSUME TypeOK, LockInv, NEW s \in Sessions, Ordered(s), Emit(s),
         NEW h \in seals[s], Sealed(s, h)
  PROVE  Sealed(s, h)'
<1>1. PICK k \in 1..Len(jobs[s]), cut \in BOOLEAN, rest \in Seq(Nat) :
        /\ Len(rest) = IF cut THEN Len(jobs[s]) - k + 1 ELSE Len(jobs[s]) - k
        /\ \A i \in 1..Len(rest) :
             rest[i] = jobs[s][i + (IF cut THEN k - 1 ELSE k)]
        /\ sent' = [sent EXCEPT ![s] = Append(@, Packed(jobs[s], k, pieces))]
        /\ jobs' = [jobs EXCEPT ![s] = rest]
        /\ pieces' \in Nat /\ (pieces' > 0 <=> cut)
        /\ cur' = IF rest = <<>> THEN NoOne ELSE s
  BY EmitFacts
<1>2. UNCHANGED <<seq, bufs, client, snapshot>> /\ jobs[s] # <<>>
  BY DEF Emit, entryVars
<1>3. jobs'[s] = rest /\ jobs[s] \in Seq(Nat) /\ h \in Nat
  BY <1>1 DEF TypeOK
<1>4. PICK off \in Nat : off = IF cut THEN k - 1 ELSE k
  BY <1>3
<1>5. /\ \A i \in 1..Len(jobs[s]) : jobs[s][i] = jobs[s][1] + (i - 1)
      /\ 1 \in 1..Len(jobs[s]) /\ Len(jobs[s]) \in 1..Len(jobs[s])
      /\ jobs[s][1] \in Nat /\ Len(jobs[s]) \in Nat
  <2>1. Segment(jobs[s], Added(s))
    BY DEF Ordered
  <2>2. Len(jobs[s]) \in Nat /\ Len(jobs[s]) >= 1
    BY <1>2, <1>3
  <2>3. 1 \in 1..Len(jobs[s]) /\ Len(jobs[s]) \in 1..Len(jobs[s])
    BY <2>2
  <2>4. jobs[s][1] \in Nat
    BY <1>3, <2>3
  <2> QED BY <2>1, <2>2, <2>3, <2>4 DEF Segment
<1>6. Len(rest) + off = Len(jobs[s]) /\ Len(rest) \in Nat
  BY <1>1, <1>4, <1>5
<1>7. rest # <<>> => rest[1] = jobs[s][1 + off] /\ Last(rest) = jobs[s][Len(jobs[s])]
  <2>1. \A i \in 1..Len(rest) : rest[i] = jobs[s][i + off]
    BY <1>1, <1>4
  <2>2. rest # <<>> => 1 \in 1..Len(rest) /\ Len(rest) \in 1..Len(rest)
    OBVIOUS
  <2>3. rest # <<>> => rest[1] = jobs[s][1 + off]
                       /\ rest[Len(rest)] = jobs[s][Len(rest) + off]
    BY <2>1, <2>2
  <2> QED BY <2>3, <1>6 DEF Last
<1>8. rest # <<>> => 1 + off \in 1..Len(jobs[s])
  BY <1>6, <1>5
<1>9. rest # <<>> => rest[1] >= jobs[s][1] /\ rest[1] \in Nat
  <2> SUFFICES ASSUME rest # <<>> PROVE rest[1] >= jobs[s][1] /\ rest[1] \in Nat
    OBVIOUS
  <2>1. PICK i \in 1..Len(jobs[s]) : i = 1 + off
    BY <1>8
  <2>2. jobs[s][i] = jobs[s][1] + (i - 1) /\ rest[1] = jobs[s][i]
    BY <1>5, <1>7, <2>1
  <2>3. i \in Nat /\ i >= 1 /\ jobs[s][1] \in Nat
    BY <1>5
  <2> QED BY <2>2, <2>3
<1>10. h <= jobs[s][1] \/ jobs[s][Len(jobs[s])] <= h
  BY <1>2 DEF Sealed, Last
<1>11. rest # <<>> => h <= rest[1] \/ Last(rest) <= h
  <2>1. CASE h <= jobs[s][1]
    BY <2>1, <1>3, <1>5, <1>9
  <2>2. CASE jobs[s][Len(jobs[s])] <= h
    BY <2>2, <1>7
  <2> QED BY <1>10, <2>1, <2>2
<1> QED BY <1>2, <1>3, <1>11 DEF Sealed

\* SealTake puts its own snapshot between the job and the buffer.
LEMMA SealSealTake ==
  ASSUME TypeOK, LockInv, OrderInv, NEW c \in Clients, SealTake(c),
         NEW t \in Sessions, NEW h \in seals[t], Sealed(t, h)
  PROVE  Sealed(t, h)'
<1>1. PICK k \in 0..Len(bufs[t]) :
        /\ jobs'[t] \in Seq(Nat) /\ Len(jobs'[t]) = k
        /\ \A i \in 1..k : jobs'[t][i] = bufs[t][i] /\ bufs[t][i] <= snapshot
        /\ bufs'[t] \in Seq(Nat) /\ Len(bufs'[t]) = Len(bufs[t]) - k
        /\ \A i \in 1..(Len(bufs[t]) - k) : bufs'[t][i] = bufs[t][k + i]
        /\ k < Len(bufs[t]) => bufs[t][k + 1] > snapshot
  BY SealTakeFacts
<1>2. seq' = seq /\ h <= seq[t] /\ h \in Nat /\ snapshot \in Nat /\ bufs[t] \in Seq(Nat)
  BY DEF SealTake, SealTakeBy, Covered, Rest, Sealed, TypeOK
<1>3. /\ k \in Nat /\ Len(bufs[t]) \in Nat /\ k <= Len(bufs[t])
      /\ \A i \in 1..Len(bufs[t]) : bufs[t][i] \in Nat /\ bufs[t][i] = bufs[t][1] + (i - 1)
  BY <1>2 DEF OrderInv, Ordered, Segment
<1>4. bufs[t] # <<>> => h <= bufs[t][1] \/ h = snapshot
  BY DEF Sealed
<1>5. jobs'[t] # <<>> => h <= jobs'[t][1] \/ Last(jobs'[t]) <= h
  <2> SUFFICES ASSUME jobs'[t] # <<>> PROVE h <= jobs'[t][1] \/ Last(jobs'[t]) <= h
    OBVIOUS
  <2>1. 1 \in 1..k /\ k \in 1..k /\ bufs[t] # <<>>
    BY <1>1, <1>3
  <2>2. jobs'[t][1] = bufs[t][1] /\ Last(jobs'[t]) = bufs[t][k] /\ bufs[t][k] <= snapshot
    BY <1>1, <2>1 DEF Last
  <2> QED BY <1>4, <2>1, <2>2
<1>6. bufs'[t] # <<>> => h <= bufs'[t][1]
  <2> SUFFICES ASSUME bufs'[t] # <<>> PROVE h <= bufs'[t][1]
    OBVIOUS
  <2>1. 1 \in 1..(Len(bufs[t]) - k) /\ k + 1 \in 1..Len(bufs[t]) /\ k < Len(bufs[t])
    BY <1>1, <1>3
  <2>2. bufs'[t][1] = bufs[t][k + 1] /\ bufs[t][k + 1] > snapshot
    BY <1>1, <2>1
  <2>3. bufs[t][k + 1] = bufs[t][1] + (k + 1 - 1) /\ bufs[t][1] \in Nat
    BY <1>3, <2>1
  <2>4. bufs[t] # <<>>
    BY <1>3, <2>1
  <2> QED BY <1>2, <1>3, <1>4, <2>2, <2>3, <2>4
<1> QED BY <1>2, <1>5, <1>6 DEF Sealed

\* Every step keeps every snapshot between segments.
LEMMA SealStep ==
  TypeOK /\ LockInv /\ OrderInv /\ SealInv /\ [BatcherNext]_vars => SealInv'
<1> SUFFICES ASSUME TypeOK, LockInv, OrderInv, SealInv, [BatcherNext]_vars,
                    NEW t \in Sessions, NEW h \in seals'[t]
             PROVE  Sealed(t, h)'
  BY DEF SealInv
<1> USE BatcherAssumption DEF entryVars, lockVars, ghosts
<1>0. seq[t] \in Nat /\ (h \in seals[t] => h \in Nat /\ Sealed(t, h))
  BY DEF SealInv, TypeOK
<1>1. ASSUME NEW s \in Sessions, Write(s) PROVE Sealed(t, h)'
  <2>1. UNCHANGED <<bufs, jobs, client, snapshot, seals>>
    BY <1>1 DEF Write
  <2>2. seq'[t] \in Nat /\ seq'[t] >= seq[t]
    BY SMTT(120), <1>0, <1>1 DEF Write, TypeOK
  <2> QED BY <1>0, <2>1, <2>2, SealFrame
<1>2. ASSUME UNCHANGED <<seq, bufs, jobs, client, snapshot, seals>>
      PROVE  Sealed(t, h)'
  BY <1>0, <1>2, SealFrame
<1>3. ASSUME NEW s \in Sessions, AddContiguous(s) PROVE Sealed(t, h)'
  <2>1. UNCHANGED <<seq, jobs, client, snapshot, seals>>
    BY <1>3 DEF AddContiguous
  <2>2. CASE s = t
    <3>1. bufs'[t] = Append(bufs[t], seq[t])
      BY <1>3, <2>2 DEF AddContiguous, TypeOK
    <3> QED BY <1>0, <2>1, <3>1, SealAppend
  <2>3. CASE s # t
    <3>1. bufs'[t] = bufs[t]
      BY <1>3, <2>3 DEF AddContiguous, TypeOK
    <3> QED BY <1>0, <2>1, <3>1, SealFrame
  <2> QED BY <2>2, <2>3
<1>4. ASSUME NEW s \in Sessions, Insert(s) PROVE Sealed(t, h)'
  <2>1. UNCHANGED <<seq, jobs, client, snapshot, seals>>
    BY <1>4 DEF Insert
  <2>2. CASE s = t
    <3>1. bufs[t] = <<>> /\ bufs'[t] = <<seq[t]>>
      BY <1>4, <2>2 DEF Insert, TypeOK, LockInv
    <3>2. bufs'[t] = Append(bufs[t], seq[t])
      BY <3>1
    <3> QED BY <1>0, <2>1, <3>2, SealAppend
  <2>3. CASE s # t
    <3>1. bufs'[t] = bufs[t]
      BY <1>4, <2>3 DEF Insert, TypeOK
    <3> QED BY <1>0, <2>1, <3>1, SealFrame
  <2> QED BY <2>2, <2>3
<1>5. ASSUME NEW s \in Sessions, FlushSession(s) PROVE Sealed(t, h)'
  <2>1. seals' = seals
    BY <1>5 DEF FlushSession, Take
  <2> QED BY <1>0, <1>5, <2>1, SealTakeAll DEF FlushSession
<1>6. ASSUME NEW c \in Clients, FlushAll(c) PROVE Sealed(t, h)'
  <2>1. seals' = seals
    BY <1>6 DEF FlushAll, Take
  <2> QED BY <1>0, <1>6, <2>1, SealTakeAll DEF FlushAll
<1>7. ASSUME Tick PROVE Sealed(t, h)'
  <2>1. seals' = seals
    BY <1>7 DEF Tick, Take
  <2> QED BY <1>0, <1>7, <2>1, SealTakeAll DEF Tick
<1>8. ASSUME NEW s \in Sessions, Emit(s) PROVE Sealed(t, h)'
  <2>1. UNCHANGED <<seq, bufs, client, snapshot, seals>>
    BY <1>8 DEF Emit
  <2>2. CASE s = t
    BY <1>0, <1>8, <2>1, <2>2, SealEmit DEF OrderInv
  <2>3. CASE s # t
    <3>1. jobs'[t] = jobs[t]
      BY <1>8, <2>3 DEF Emit, TypeOK
    <3> QED BY <1>0, <2>1, <3>1, SealFrame
  <2> QED BY <2>2, <2>3
<1>9. ASSUME NEW c \in Clients, NEW s \in Sessions, SealAt(c, s) PROVE Sealed(t, h)'
  <2>1. /\ UNCHANGED <<seq, bufs, jobs>> /\ jobs[t] = <<>>
        /\ client'[c] = "sealed" /\ snapshot' \in {0, seq[s]}
        /\ \A d \in Clients : client[d] # "sealed"
    BY <1>9 DEF SealAt, TypeOK, LockInv, NoJobs
  <2>2. CASE h \in seals[t]
    BY <1>0, <2>1, <2>2 DEF Sealed
  <2>3. CASE h \notin seals[t]
    <3>1. t = s /\ snapshot' = h
      BY <1>9, <2>3 DEF SealAt, TypeOK
    <3> QED BY <1>0, <2>1, <3>1 DEF Sealed
  <2> QED BY <2>2, <2>3
<1>10. ASSUME NEW c \in Clients, SealTake(c) PROVE Sealed(t, h)'
  <2>1. seals' = seals
    BY <1>10 DEF SealTake, SealTakeBy, Covered, Rest
  <2> QED BY <1>0, <1>10, <2>1, SealSealTake
<1>11. ASSUME NEW c \in Clients, Reset(c) PROVE Sealed(t, h)'
  BY <1>0, <1>11 DEF Reset, Sealed
<1>12. ASSUME NEW g \in Goroutines, Return(g) PROVE Sealed(t, h)'
  <2>1. UNCHANGED <<seq, bufs, jobs, snapshot, seals>>
    BY <1>12 DEF Return
  <2>2. \A c \in Clients : client[c] # "sealed"
    BY <1>12 DEF Return
  <2> QED BY <1>0, <2>1, <2>2 DEF Sealed
<1>13. ASSUME NEW s \in Sessions, Skip(s) \/ AddAfterGap(s) \/ Elapse(s)
       PROVE  Sealed(t, h)'
  BY <1>2, <1>13 DEF Skip, AddAfterGap, Elapse
<1>14. ASSUME NEW c \in Clients, Stop(c) PROVE Sealed(t, h)'
  BY <1>2, <1>14 DEF Stop
<1>15. CASE UNCHANGED vars
  BY <1>2, <1>15 DEF vars
<1> QED
  BY <1>1, <1>3, <1>4, <1>5, <1>6, <1>7, <1>8, <1>9, <1>10, <1>11, <1>12,
     <1>13, <1>14, <1>15
     DEF BatcherNext, ReaderStep, ClientStep

\* A message reaches across a snapshot by no more than the snapshot's last write.
LEMMA StraddleStep ==
  TypeOK /\ LockInv /\ OrderInv /\ SealInv /\ WireContract
    /\ StraddleOnlyInFlight /\ [BatcherNext]_vars => StraddleOnlyInFlight'
<1> SUFFICES ASSUME TypeOK, LockInv, OrderInv, SealInv, WireContract,
                    StraddleOnlyInFlight, [BatcherNext]_vars
             PROVE  StraddleOnlyInFlight'
  OBVIOUS
<1> USE BatcherAssumption
<1>1. ASSUME NEW s \in Sessions, Emit(s) PROVE StraddleOnlyInFlight'
  <2>0. Ordered(s) /\ seals' = seals
    BY <1>1 DEF OrderInv, Emit, ghosts
  <2>1. PICK k \in 1..Len(jobs[s]), m \in Message :
           /\ sent' = [sent EXCEPT ![s] = Append(@, m)]
           /\ Len(m.data) = k
           /\ \A i \in 1..k : m.data[i] = jobs[s][1] + (i - 1)
           /\ m.seq = jobs[s][1] + (k - 1)
           /\ m.n = IF pieces > 0 THEN k - 1 ELSE k
           /\ pieces > 0 => cur = s
           /\ jobs[s][1] \in Nat
           /\ Last(jobs[s]) = jobs[s][1] + (Len(jobs[s]) - 1)
    BY <1>1, <2>0, EmitMessage
  <2>2. /\ k \in Nat /\ 1 <= k /\ k <= Len(jobs[s]) /\ Len(jobs[s]) \in Nat
        /\ jobs[s] # <<>> /\ m.data[1] = jobs[s][1]
    <3>1. jobs[s] \in Seq(Nat) /\ jobs[s] # <<>>
      BY <1>1 DEF TypeOK, Emit
    <3>2. k \in Nat /\ 1 <= k /\ k <= Len(jobs[s]) /\ Len(jobs[s]) \in Nat
      BY <3>1
    <3>3. 1 \in 1..k /\ m.data[1] = jobs[s][1] + (1 - 1)
      BY SMTT(60), <2>1, <3>2
    <3> QED BY <2>1, <3>1, <3>2, <3>3
  <2>3. ASSUME NEW h \in seals[s], Straddles(m, h) PROVE m.data[1] = h
    <3>1. h \in Nat /\ (h <= jobs[s][1] \/ Last(jobs[s]) <= h)
      BY <2>2 DEF SealInv, Sealed, TypeOK
    <3>2. jobs[s][1] <= h /\ h < jobs[s][1] + (k - 1)
      BY <2>1, <2>2, <2>3 DEF Straddles
    <3>3. Last(jobs[s]) = jobs[s][1] + (Len(jobs[s]) - 1) /\ jobs[s][1] \in Nat
      BY <2>1
    <3> QED BY <2>2, <3>1, <3>2, <3>3
  <2>4. ASSUME NEW t \in Sessions, NEW j \in 1..Len(sent'[t]), NEW h \in seals[t],
               Straddles(sent'[t][j], h)
        PROVE  sent'[t][j].data[1] = h
    <3>1. CASE t = s /\ j = Len(sent[s]) + 1
      <4>1. sent'[t][j] = m
        BY <3>1, <2>1 DEF TypeOK
      <4> QED BY <2>3, <2>4, <3>1, <4>1
    <3>2. CASE ~(t = s /\ j = Len(sent[s]) + 1)
      <4>1. j \in 1..Len(sent[t]) /\ sent'[t][j] = sent[t][j]
        <5>1. CASE t = s
          <6>1. /\ Len(sent'[s]) = Len(sent[s]) + 1 /\ Len(sent[s]) \in Nat
                /\ \A i \in 1..Len(sent[s]) : sent'[s][i] = sent[s][i]
            BY <2>1, SentFacts DEF TypeOK
          <6>2. j \in 1..Len(sent[s])
            BY <3>2, <5>1, <6>1
          <6> QED BY <5>1, <6>1, <6>2
        <5>2. CASE t # s
          BY <5>2, <2>1 DEF TypeOK
        <5> QED BY <5>1, <5>2
      <4> QED BY <2>4, <4>1 DEF StraddleOnlyInFlight
    <3> QED BY <3>1, <3>2
  <2> QED BY <2>0, <2>4 DEF StraddleOnlyInFlight, Straddles
<1>2. ASSUME NEW c \in Clients, NEW s \in Sessions, SealAt(c, s)
      PROVE  StraddleOnlyInFlight'
  <2>1. /\ sent' = sent /\ snapshot' \in {0, seq[s]}
        /\ seals' = [seals EXCEPT ![s] = @ \cup {snapshot'}]
    BY <1>2 DEF SealAt
  <2>2. ASSUME NEW j \in 1..Len(sent[s]) PROVE ~ Straddles(sent[s][j], seq[s])
    <3>1. sent[s][j].seq \in Nat /\ sent[s][j].seq <= Added(s)
      BY SentFacts DEF OrderInv, Ordered
    <3>2. seq[s] \in Nat /\ Added(s) \in Int /\ Added(s) <= seq[s]
      BY DEF TypeOK, Added
    <3> QED BY <3>1, <3>2 DEF Straddles
  <2>3. ASSUME NEW t \in Sessions, NEW j \in 1..Len(sent[t]), NEW h \in seals'[t],
               Straddles(sent[t][j], h)
        PROVE  sent[t][j].data[1] = h
    <3>1. h \in seals[t] \/ (t = s /\ h = seq[s]) \/ h = 0
      BY <2>1 DEF TypeOK
    <3>2. CASE h = 0
      <4>1. sent[t][j].data # <<>> /\ sent[t][j].data \in Seq(Nat)
        BY SentFacts DEF WireContract, Labelled
      <4>2. sent[t][j].data[1] \in Nat /\ sent[t][j].data[1] <= 0
        BY <2>3, <3>2, <4>1 DEF Straddles
      <4> QED BY <3>2, <4>2
    <3> QED BY <2>2, <2>3, <3>1, <3>2 DEF StraddleOnlyInFlight
  <2> QED BY <2>1, <2>3 DEF StraddleOnlyInFlight, Straddles
<1>3. ASSUME UNCHANGED <<sent, seals>> PROVE StraddleOnlyInFlight'
  BY <1>3 DEF StraddleOnlyInFlight, Straddles
<1>4. \/ UNCHANGED <<sent, seals>>
      \/ \E s \in Sessions : Emit(s)
      \/ \E c \in Clients, s \in Sessions : SealAt(c, s)
  BY DEF BatcherNext, ReaderStep, ClientStep, Write, Skip, AddContiguous,
         AddAfterGap, FlushSession, Insert, Elapse, FlushAll, SealTake,
         SealTakeBy, Reset, Stop, Tick, Take, Return, vars, ghosts
<1> QED BY <1>1, <1>2, <1>3, <1>4

-----------------------------------------------------------------------------
(* The theorems.                                                           *)

LEMMA InvInit == BatcherInit => IInv
<1> SUFFICES ASSUME BatcherInit PROVE IInv
  OBVIOUS
<1> USE BatcherAssumption DEF BatcherInit, NoJobs
<1>1. TypeOK
  BY DEF TypeOK, Pcs, Message
<1>2. LockInv
  BY DEF LockInv
<1>3. OrderInv
  <2>1. ASSUME NEW s \in Sessions PROVE Ordered(s)
    <3>1. /\ reader[s] = "read" /\ seq[s] = 0 /\ pieces = 0
          /\ bufs[s] = <<>> /\ jobs[s] = <<>> /\ sent[s] = <<>>
      OBVIOUS
    <3>2. Segment(<<>>, Added(s))
      BY DEF Segment
    <3> QED BY <3>1, <3>2 DEF Ordered
  <2> QED BY <2>1 DEF OrderInv
<1>4. SealInv /\ WireContract /\ StraddleOnlyInFlight
  BY DEF SealInv, WireContract, StraddleOnlyInFlight
<1> QED BY <1>1, <1>2, <1>3, <1>4 DEF IInv

LEMMA InvStep == IInv /\ [BatcherNext]_vars => IInv'
BY TypeStep, LockStep, OrderStep, ContractStep, SealStep, StraddleStep DEF IInv

\* The inductive invariant holds in every reachable state.
THEOREM InvHolds == BatcherSpec => []IInv
BY InvInit, InvStep, PTL DEF BatcherSpec

\* Every variable keeps its type (output_batcher.go, whole file).
THEOREM TypeCorrect == BatcherSpec => []TypeOK
<1>1. IInv => TypeOK
  BY DEF IInv
<1> QED BY <1>1, InvHolds, PTL

\* The ordering contract of output_batcher.go's header holds for any number of
\* sessions, clients and writes and any way of packing them: each message is
\* labelled with exactly the writes it carries, and ranges leave in order.
THEOREM WireContractHolds == BatcherSpec => []WireContract
<1>1. IInv => WireContract
  BY DEF IInv
<1> QED BY <1>1, InvHolds, PTL

\* SealAt keeps messages from reaching across a snapshot by more than the one
\* write that was numbered but not yet Added when the snapshot was taken.
THEOREM StraddleBound == BatcherSpec => []StraddleOnlyInFlight
<1>1. IInv => StraddleOnlyInFlight
  BY DEF IInv
<1> QED BY <1>1, InvHolds, PTL

-----------------------------------------------------------------------------
(* Where the writes are, and the abstract feed.                            *)

\* The writes of session s that the reader, the batcher or the wire has, or
\* that were dropped on purpose.
Accounted(s) ==
  Carried(s) \cup Entries(jobs[s]) \cup Entries(bufs[s]) \cup lost[s]
  \cup (IF reader[s] = "read" THEN {} ELSE {seq[s]})

\* The entries of a sequence given by its elements.
LEMMA EntriesRange ==
  ASSUME NEW b \in Seq(Nat)
  PROVE  Entries(b) = {b[i] : i \in 1..Len(b)}
BY DEF Entries

\* Appending an entry adds it, and nothing else, to the entries.
LEMMA EntriesAppend ==
  ASSUME NEW b \in Seq(Nat), NEW e \in Nat
  PROVE  Entries(Append(b, e)) = Entries(b) \cup {e}
<1> DEFINE a == Append(b, e)
<1>1. /\ a \in Seq(Nat) /\ Len(a) = Len(b) + 1 /\ Len(b) \in Nat
      /\ a[Len(b) + 1] = e /\ \A i \in 1..Len(b) : a[i] = b[i]
  OBVIOUS
<1>2. Entries(a) = {a[i] : i \in 1..Len(a)} /\ Entries(b) = {b[i] : i \in 1..Len(b)}
  BY <1>1, EntriesRange
<1> HIDE DEF a
<1>3. 1..Len(a) = 1..Len(b) \cup {Len(b) + 1}
  BY <1>1
<1> QED BY <1>1, <1>2, <1>3 DEF a

\* A sequence cut in two pieces that may share entries keeps all its entries.
LEMMA EntriesCut ==
  ASSUME NEW b \in Seq(Nat), NEW p \in Seq(Nat), NEW r \in Seq(Nat),
         NEW d \in Nat, d <= Len(p), Len(p) <= Len(b),
         Len(r) = Len(b) - d,
         \A i \in 1..Len(p) : p[i] = b[i],
         \A i \in 1..Len(r) : r[i] = b[i + d]
  PROVE  Entries(b) = Entries(p) \cup Entries(r)
<1>1. /\ Entries(b) = {b[i] : i \in 1..Len(b)}
      /\ Entries(p) = {p[i] : i \in 1..Len(p)}
      /\ Entries(r) = {r[i] : i \in 1..Len(r)}
  BY EntriesRange
<1>2. Len(b) \in Nat /\ Len(p) \in Nat /\ Len(r) \in Nat
  OBVIOUS
<1>3. ASSUME NEW i \in 1..Len(b) PROVE b[i] \in Entries(p) \cup Entries(r)
  <2>1. CASE i <= Len(p)
    <3>1. i \in 1..Len(p)
      BY <1>2, <2>1
    <3>2. p[i] = b[i]
      BY <3>1
    <3> QED BY <1>1, <3>1, <3>2
  <2>2. CASE i > Len(p)
    <3>1. i - d \in 1..Len(r) /\ (i - d) + d = i
      BY <1>2, <2>2
    <3>2. r[i - d] = b[i]
      BY <3>1
    <3> QED BY <1>1, <3>1, <3>2
  <2> QED BY <1>2, <2>1, <2>2
<1>4. ASSUME NEW i \in 1..Len(p) PROVE p[i] \in Entries(b)
  <2>1. i \in 1..Len(b) /\ p[i] = b[i]
    BY <1>2
  <2> QED BY <1>1, <2>1
<1>5. ASSUME NEW i \in 1..Len(r) PROVE r[i] \in Entries(b)
  <2>1. i + d \in 1..Len(b)
    BY <1>2
  <2> QED BY <1>1, <2>1
<1>6. Entries(p) \subseteq Entries(b) /\ Entries(r) \subseteq Entries(b)
  BY <1>1, <1>4, <1>5
<1>7. Entries(b) \subseteq Entries(p) \cup Entries(r)
  BY <1>1, <1>3
<1> QED BY <1>6, <1>7

\* What Emit hands over joins what was carried.
LEMMA EmitCarries ==
  ASSUME TypeOK, NEW s \in Sessions, NEW m \in Message,
         sent' = [sent EXCEPT ![s] = Append(@, m)]
  PROVE  /\ Carried(s)' = Carried(s) \cup Entries(m.data)
         /\ \A t \in Sessions \ {s} : Carried(t)' = Carried(t)
<1>1. sent[s] \in Seq(Message) /\ sent'[s] = Append(sent[s], m)
  BY DEF TypeOK
<1> DEFINE n == Len(sent[s])
<1>2. /\ n \in Nat /\ DOMAIN sent[s] = 1..n /\ DOMAIN sent'[s] = 1..(n + 1)
      /\ sent'[s][n + 1] = m /\ \A j \in 1..n : sent'[s][j] = sent[s][j]
  BY <1>1
<1> HIDE DEF n
<1>3. 1..(n + 1) = 1..n \cup {n + 1}
  BY <1>2
<1>4. Carried(s) = UNION {Entries(sent[s][j].data) : j \in 1..n}
  BY <1>2 DEF Carried
<1>5. Carried(s)' = UNION {Entries(sent'[s][j].data) : j \in 1..n \cup {n + 1}}
  BY <1>2, <1>3 DEF Carried, Entries
<1>6. {Entries(sent'[s][j].data) : j \in 1..n \cup {n + 1}}
        = {Entries(sent[s][j].data) : j \in 1..n} \cup {Entries(m.data)}
  BY <1>2
<1>7. ASSUME NEW t \in Sessions \ {s} PROVE Carried(t)' = Carried(t)
  <2>1. sent'[t] = sent[t]
    BY <1>7 DEF TypeOK
  <2> QED BY <2>1 DEF Carried, Entries
<1>8. \A A, E : UNION (A \cup {E}) = (UNION A) \cup E
  OBVIOUS
<1>9. Carried(s)' = UNION ({Entries(sent[s][j].data) : j \in 1..n}
                           \cup {Entries(m.data)})
  BY <1>5, <1>6
<1>10. Carried(s)' = Carried(s) \cup Entries(m.data)
  BY <1>4, <1>8, <1>9
<1> QED BY <1>7, <1>10

\* A step that moves session t's entries between buffer and job loses none.
LEMMA VanishFrame ==
  ASSUME NEW t \in Sessions, 1..seq[t] = Accounted(t),
         seq'[t] = seq[t], lost'[t] = lost[t], UNCHANGED sent,
         (reader'[t] = "read") <=> (reader[t] = "read"),
         Entries(jobs'[t]) \cup Entries(bufs'[t])
           = Entries(jobs[t]) \cup Entries(bufs[t])
  PROVE  (1..seq[t] = Accounted(t))'
<1>1. Carried(t)' = Carried(t) /\ seq'[t] = seq[t] /\ lost'[t] = lost[t]
  BY DEF Carried, Entries
<1>2. Entries(jobs[t])' = Entries(jobs'[t]) /\ Entries(bufs[t])' = Entries(bufs'[t])
  BY DEF Entries
<1> QED BY <1>1, <1>2 DEF Accounted

\* Entries change hands in every step, and none is left out.
LEMMA VanishStep ==
  ASSUME IInv, [BatcherNext]_vars, NEW t \in Sessions, 1..seq[t] = Accounted(t)
  PROVE  (1..seq[t] = Accounted(t))'
<1> USE BatcherAssumption DEF entryVars, lockVars, ghosts
<1>a. TypeOK /\ LockInv /\ OrderInv
  BY DEF IInv
<1>b. /\ seq[t] \in Nat /\ bufs[t] \in Seq(Nat) /\ jobs[t] \in Seq(Nat)
      /\ Entries(<<>>) = {}
  BY <1>a DEF TypeOK, Entries
<1>c. /\ Entries(jobs[t])' = Entries(jobs'[t])
      /\ Entries(bufs[t])' = Entries(bufs'[t])
  BY DEF Entries
<1>d. UNCHANGED sent => Carried(t)' = Carried(t)
  BY DEF Carried, Entries
<1>1. ASSUME NEW s \in Sessions, Write(s) PROVE (1..seq[t] = Accounted(t))'
  <2>1. /\ UNCHANGED <<bufs, jobs, sent, lost>>
        /\ reader[s] = "read"
        /\ seq' = [seq EXCEPT ![s] = @ + 1]
        /\ reader' = [reader EXCEPT ![s] = "decide"]
    BY <1>1 DEF Write
  <2>2. CASE s = t
    <3>1. seq'[t] = seq[t] + 1 /\ reader'[t] = "decide" /\ reader[t] = "read"
      BY <1>a, <2>1, <2>2 DEF TypeOK
    <3>2. 1..(seq[t] + 1) = 1..seq[t] \cup {seq[t] + 1}
      BY <1>b
    <3>3. Accounted(t)' = Accounted(t) \cup {seq[t] + 1}
      BY <1>c, <1>d, <2>1, <3>1 DEF Accounted
    <3> QED BY <3>1, <3>2, <3>3
  <2>3. CASE s # t
    BY <1>a, <2>1, <2>3, VanishFrame DEF TypeOK
  <2> QED BY <2>2, <2>3
<1>2. ASSUME NEW s \in Sessions, Skip(s) PROVE (1..seq[t] = Accounted(t))'
  <2>1. /\ UNCHANGED <<seq, bufs, jobs, sent>>
        /\ reader[s] = "decide"
        /\ lost' = [lost EXCEPT ![s] = @ \cup {seq[s]}]
        /\ reader' = [reader EXCEPT ![s] = "read"]
    BY <1>2 DEF Skip
  <2>2. \/ /\ s = t /\ reader'[t] = "read" /\ reader[t] = "decide"
           /\ lost'[t] = lost[t] \cup {seq[t]}
        \/ reader'[t] = reader[t] /\ lost'[t] = lost[t]
    BY <1>a, <2>1 DEF TypeOK
  <2> QED BY <1>c, <1>d, <2>1, <2>2 DEF Accounted
<1>3. ASSUME NEW s \in Sessions, AddContiguous(s)
      PROVE  (1..seq[t] = Accounted(t))'
  <2>1. /\ UNCHANGED <<seq, jobs, sent, lost>>
        /\ reader[s] = "decide"
        /\ bufs' = [bufs EXCEPT ![s] = Append(@, seq[s])]
        /\ reader' = [reader EXCEPT ![s] = "read"]
    BY <1>3 DEF AddContiguous
  <2>2. CASE s = t
    <3>1. /\ reader'[t] = "read" /\ reader[t] = "decide"
          /\ bufs'[t] = Append(bufs[t], seq[t])
      BY <1>a, <2>1, <2>2 DEF TypeOK
    <3>2. Entries(bufs'[t]) = Entries(bufs[t]) \cup {seq[t]}
      BY <1>b, <3>1, EntriesAppend
    <3> QED BY <1>c, <1>d, <2>1, <3>1, <3>2 DEF Accounted
  <2>3. CASE s # t
    BY <1>a, <2>1, <2>3, VanishFrame DEF TypeOK
  <2> QED BY <2>2, <2>3
<1>4. ASSUME NEW s \in Sessions, AddAfterGap(s)
      PROVE  (1..seq[t] = Accounted(t))'
  BY <1>a, <1>4, VanishFrame DEF AddAfterGap, TypeOK
<1>5. ASSUME NEW g \in Goroutines, NEW Chosen, Take(g, Chosen), UNCHANGED reader
      PROVE  (1..seq[t] = Accounted(t))'
  <2>1. jobs[t] = <<>>
    BY <1>5, <1>a, FreeLock DEF Take, NoJobs
  <2>2. /\ UNCHANGED <<seq, sent, lost>>
        /\ \/ jobs'[t] = bufs[t] /\ bufs'[t] = <<>>
           \/ jobs'[t] = <<>> /\ bufs'[t] = bufs[t]
    BY <1>5 DEF Take
  <2> QED BY <1>5, <1>b, <2>1, <2>2, VanishFrame
<1>6. ASSUME NEW s \in Sessions, Insert(s) PROVE (1..seq[t] = Accounted(t))'
  <2>1. /\ UNCHANGED <<seq, jobs, sent, lost>>
        /\ reader[s] = "insert"
        /\ bufs' = [bufs EXCEPT ![s] = <<seq[s]>>]
        /\ reader' = [reader EXCEPT ![s] = "read"]
    BY <1>6 DEF Insert
  <2>2. CASE s = t
    <3>1. /\ reader'[t] = "read" /\ reader[t] = "insert"
          /\ bufs'[t] = <<seq[t]>>
      BY <1>a, <2>1, <2>2 DEF TypeOK
    <3>2. bufs[t] = <<>>
      BY <1>a, <3>1 DEF LockInv
    <3>3. Entries(bufs'[t]) = {seq[t]}
      BY <3>1 DEF Entries
    <3> QED BY <1>b, <1>c, <1>d, <2>1, <3>1, <3>2, <3>3 DEF Accounted
  <2>3. CASE s # t
    BY <1>a, <2>1, <2>3, VanishFrame DEF TypeOK
  <2> QED BY <2>2, <2>3
<1>7. ASSUME NEW s \in Sessions, Emit(s) PROVE (1..seq[t] = Accounted(t))'
  <2>1. PICK k \in 1..Len(jobs[s]), cut \in BOOLEAN, rest \in Seq(Nat) :
          /\ Len(rest) = IF cut THEN Len(jobs[s]) - k + 1 ELSE Len(jobs[s]) - k
          /\ \A i \in 1..Len(rest) :
               rest[i] = jobs[s][i + (IF cut THEN k - 1 ELSE k)]
          /\ sent' = [sent EXCEPT ![s] = Append(@, Packed(jobs[s], k, pieces))]
          /\ jobs' = [jobs EXCEPT ![s] = rest]
          /\ pieces' \in Nat /\ (pieces' > 0 <=> cut)
          /\ cur' = IF rest = <<>> THEN NoOne ELSE s
    BY <1>7, <1>a, EmitFacts
  <2> DEFINE m == Packed(jobs[s], k, pieces)
             part == SubSeq(jobs[s], 1, k)
  <2>2. m \in Message /\ m.data = part
    BY <1>a, PackedType DEF TypeOK, Packed
  <2>3. UNCHANGED <<seq, reader, bufs, lost>>
    BY <1>7 DEF Emit
  <2>4. CASE s = t
    <3>1. jobs'[t] = rest
      BY <1>a, <2>1, <2>4 DEF TypeOK
    <3>2. PICK d \in Nat : d = IF cut THEN k - 1 ELSE k
      OBVIOUS
    <3>c. part \in Seq(Nat)
      BY <1>b, <2>4
    <3>3. PICK b \in Seq(Nat), p \in Seq(Nat) : b = jobs[t] /\ p = part
      BY <1>b, <3>c
    <3>4. /\ Len(p) = k /\ Len(b) \in Nat /\ k \in 1..Len(b)
          /\ \A i \in 1..k : p[i] = b[i]
      BY <2>4, <3>3
    <3>5. /\ d <= Len(p) /\ Len(p) <= Len(b) /\ Len(rest) = Len(b) - d
          /\ \A i \in 1..Len(p) : p[i] = b[i]
          /\ \A i \in 1..Len(rest) : rest[i] = b[i + d]
      BY <2>1, <2>4, <3>2, <3>3, <3>4
    <3>a. Entries(b) = Entries(p) \cup Entries(rest)
      BY <3>5, EntriesCut
    <3>b. Entries(jobs[t]) = Entries(part) \cup Entries(rest)
      BY <3>3, <3>a
    <3>6. Carried(t)' = Carried(t) \cup Entries(part)
      BY <1>a, <2>1, <2>2, <2>4, EmitCarries
    <3> QED BY <1>c, <2>3, <3>1, <3>b, <3>6 DEF Accounted
  <2>5. CASE s # t
    <3>1. Carried(t)' = Carried(t)
      BY <1>a, <2>1, <2>2, <2>5, EmitCarries
    <3>2. jobs'[t] = jobs[t]
      BY <1>a, <2>1, <2>5 DEF TypeOK
    <3> QED BY <1>c, <2>3, <3>1, <3>2 DEF Accounted
  <2> QED BY <2>4, <2>5
<1>8. ASSUME NEW c \in Clients, SealTake(c) PROVE (1..seq[t] = Accounted(t))'
  <2>1. jobs[t] = <<>>
    BY <1>8, <1>a DEF SealTake, SealTakeBy, LockInv, NoJobs
  <2>2. PICK k \in 0..Len(bufs[t]) :
          /\ jobs'[t] \in Seq(Nat) /\ Len(jobs'[t]) = k
          /\ \A i \in 1..k : jobs'[t][i] = bufs[t][i]
          /\ bufs'[t] \in Seq(Nat) /\ Len(bufs'[t]) = Len(bufs[t]) - k
          /\ \A i \in 1..(Len(bufs[t]) - k) : bufs'[t][i] = bufs[t][k + i]
    BY <1>8, <1>a, SealTakeFacts
  <2>3. PICK b \in Seq(Nat), p \in Seq(Nat), r \in Seq(Nat), d \in Nat :
          b = bufs[t] /\ p = jobs'[t] /\ r = bufs'[t] /\ d = k
    BY <1>b, <2>2
  <2>a. Len(b) \in Nat /\ Len(p) = d /\ d <= Len(b) /\ Len(r) = Len(b) - d
    BY <2>2, <2>3
  <2>b. /\ d <= Len(p) /\ Len(p) <= Len(b) /\ Len(r) = Len(b) - d
        /\ \A i \in 1..Len(p) : p[i] = b[i]
        /\ \A i \in 1..Len(r) : r[i] = b[i + d]
    BY <2>2, <2>3, <2>a
  <2>c. Entries(b) = Entries(p) \cup Entries(r)
    BY <2>b, EntriesCut
  <2>4. Entries(bufs[t]) = Entries(jobs'[t]) \cup Entries(bufs'[t])
    BY <2>3, <2>c
  <2>5. UNCHANGED <<seq, reader, sent, lost>>
    BY <1>8 DEF SealTake, SealTakeBy
  <2> QED BY <1>b, <2>1, <2>4, <2>5, VanishFrame
<1>9. ASSUME NEW c \in Clients, Reset(c) PROVE (1..seq[t] = Accounted(t))'
  <2>1. /\ UNCHANGED <<seq, reader, jobs, sent>>
        /\ bufs'[t] = <<>> /\ lost'[t] = lost[t] \cup Entries(bufs[t])
    BY <1>9 DEF Reset
  <2> QED BY <1>b, <1>c, <1>d, <2>1 DEF Accounted
<1>10. ASSUME NEW g \in Goroutines, Return(g) PROVE (1..seq[t] = Accounted(t))'
  <2>1. /\ UNCHANGED <<seq, bufs, jobs, sent, lost>> /\ sendMu = g
        /\ reader'[t] = IF t = g THEN "insert" ELSE reader[t]
    BY <1>10 DEF Return
  <2>2. t = g => reader[t] = "flush"
    BY <1>a, <2>1 DEF LockInv
  <2> QED BY <2>1, <2>2, VanishFrame
<1>11. ASSUME UNCHANGED <<seq, reader, bufs, jobs, sent, lost>>
       PROVE  (1..seq[t] = Accounted(t))'
  BY <1>11, VanishFrame
<1>12. \/ \E s \in Sessions : \/ Write(s) \/ Skip(s) \/ AddContiguous(s)
                              \/ AddAfterGap(s) \/ Insert(s) \/ Emit(s)
       \/ \E g \in Goroutines : Return(g)
       \/ \E g \in Goroutines : \E Chosen \in SUBSET Sessions :
            Take(g, Chosen) /\ UNCHANGED reader
       \/ \E c \in Clients : SealTake(c) \/ Reset(c)
       \/ UNCHANGED <<seq, reader, bufs, jobs, sent, lost>>
  <2>1. ASSUME NEW s \in Sessions, FlushSession(s)
        PROVE  s \in Goroutines /\ {s} \in SUBSET Sessions /\ Take(s, {s})
               /\ UNCHANGED reader
    BY <2>1 DEF FlushSession, Goroutines
  <2>2. ASSUME Tick
        PROVE  \E Chosen \in SUBSET Sessions :
                 Take(Flusher, Chosen) /\ UNCHANGED reader
    BY <2>2 DEF Tick
  <2>3. Flusher \in Goroutines
    BY DEF Goroutines
  <2>4. ASSUME NEW c \in Clients, FlushAll(c)
        PROVE  c \in Goroutines /\ Sessions \in SUBSET Sessions
               /\ Take(c, Sessions) /\ UNCHANGED reader
    BY <2>4 DEF FlushAll, Goroutines
  <2>5. ASSUME \/ \E s \in Sessions : Elapse(s)
               \/ \E c \in Clients : Stop(c) \/ \E s \in Sessions : SealAt(c, s)
               \/ UNCHANGED vars
        PROVE  UNCHANGED <<seq, reader, bufs, jobs, sent, lost>>
    BY <2>5 DEF Elapse, Stop, SealAt, vars
  <2> QED BY <2>1, <2>2, <2>3, <2>4, <2>5 DEF BatcherNext, ReaderStep, ClientStep
<1> QED BY <1>1, <1>2, <1>3, <1>4, <1>5, <1>6, <1>7, <1>8, <1>9, <1>10, <1>11,
          <1>12

\* Flushes, seals and Adds lose no write between them, however they interleave:
\* each is sent, detached, buffered, with the reader, or was dropped on purpose
\* (Add, FlushAll, SealAt, Reset and sendBatch of output_batcher.go).
THEOREM NoWriteIsLost == BatcherSpec => []NothingVanishes
<1>1. NothingVanishes <=> \A t \in Sessions : 1..seq[t] = Accounted(t)
  BY DEF NothingVanishes, Accounted
<1>2. BatcherInit => NothingVanishes
  <2>1. ASSUME BatcherInit, NEW t \in Sessions
        PROVE  1..seq[t] = Accounted(t)
    BY <2>1 DEF BatcherInit, Accounted, Carried, Entries, NoJobs
  <2> QED BY <1>1, <2>1
<1>3. IInv /\ NothingVanishes /\ [BatcherNext]_vars => NothingVanishes'
  <2>1. NothingVanishes' <=> \A t \in Sessions : (1..seq[t] = Accounted(t))'
    BY DEF NothingVanishes, Accounted
  <2> QED BY <1>1, <2>1, VanishStep
<1> QED BY <1>2, <1>3, InvHolds, PTL DEF BatcherSpec

\* Consecutive entries are the range they span.
LEMMA EntriesRun ==
  ASSUME NEW b \in Seq(Nat), NEW lo \in Nat, b # <<>>,
         \A i \in 1..Len(b) : b[i] = lo + (i - 1)
  PROVE  Entries(b) = lo..(lo + (Len(b) - 1))
<1>1. Entries(b) = {b[i] : i \in 1..Len(b)} /\ Len(b) \in Nat
  BY EntriesRange
<1>2. ASSUME NEW w \in lo..(lo + (Len(b) - 1)) PROVE w \in Entries(b)
  <2>1. (w - lo) + 1 \in 1..Len(b)
    BY <1>1
  <2>2. b[(w - lo) + 1] = w
    BY <2>1
  <2> QED BY <1>1, <2>1, <2>2
<1>3. ASSUME NEW i \in 1..Len(b) PROVE b[i] \in lo..(lo + (Len(b) - 1))
  BY <1>1
<1> QED BY <1>1, <1>2, <1>3

\* A labelled message carries nothing beyond its seq, and its seq.
LEMMA LabelBounds ==
  ASSUME TypeOK, WireContract, NEW s \in Sessions, NEW j \in 1..Len(sent[s])
  PROVE  /\ \A w \in Entries(sent[s][j].data) : w \in Nat /\ w <= sent[s][j].seq
         /\ sent[s][j].seq \in Entries(sent[s][j].data)
<1>1. PICK d \in Seq(Nat), q \in Nat : d = sent[s][j].data /\ q = sent[s][j].seq
  BY SentFacts
<1>2. d # <<>> /\ q = Last(d) /\ \A i \in 1..Len(d) : d[i] + (Len(d) - i) = q
  BY <1>1 DEF WireContract, Labelled
<1>3. Entries(d) = {d[i] : i \in 1..Len(d)}
  BY EntriesRange
<1>4. ASSUME NEW i \in 1..Len(d) PROVE d[i] \in Nat /\ d[i] <= q
  BY <1>2
<1>5. Len(d) \in 1..Len(d) /\ q = d[Len(d)]
  BY <1>2 DEF Last
<1>6. (\A w \in Entries(d) : w \in Nat /\ w <= q) /\ q \in Entries(d)
  BY <1>3, <1>4, <1>5
<1> QED BY <1>1, <1>6

\* Everything sent before is older than the run about to be sent; only when a
\* split write is continued has the first of the run been sent, in part.
LEMMA CarriedBelow ==
  ASSUME IInv, NEW s \in Sessions, jobs[s] # <<>>, cur \in {NoOne, s}
  PROVE  /\ pieces = 0 => \A w \in Carried(s) : w \in Nat /\ w < jobs[s][1]
         /\ pieces > 0 => /\ \A w \in Carried(s) : w \in Nat /\ w <= jobs[s][1]
                          /\ jobs[s][1] \in Carried(s)
<1>1. TypeOK /\ LockInv /\ Ordered(s) /\ WireContract
  BY DEF IInv, OrderInv
<1>2. /\ pieces \in Nat /\ sent[s] \in Seq(Message) /\ jobs[s] \in Seq(Nat)
      /\ DOMAIN sent[s] = 1..Len(sent[s]) /\ Len(sent[s]) \in Nat
  BY <1>1 DEF TypeOK
<1>3. jobs[s][1] \in Nat
  BY <1>2
<1>4. pieces > 0 => cur = s
  BY <1>1 DEF LockInv
<1>5. ASSUME NEW w \in Carried(s)
      PROVE  /\ w \in Nat
             /\ pieces = 0 => w < jobs[s][1]
             /\ pieces > 0 => w <= jobs[s][1]
  <2>1. PICK j \in 1..Len(sent[s]) : w \in Entries(sent[s][j].data)
    BY <1>2 DEF Carried
  <2>2. w \in Nat /\ w <= sent[s][j].seq /\ sent[s][j].seq \in Nat
    BY <1>1, <2>1, LabelBounds, SentFacts
  <2>3. /\ pieces > 0 => sent[s][j].seq <= jobs[s][1]
        /\ pieces = 0 => sent[s][j].seq < jobs[s][1]
    BY <1>1, <1>2, <1>4 DEF Ordered
  <2> QED BY <1>2, <1>3, <2>2, <2>3
<1>6. ASSUME pieces > 0 PROVE jobs[s][1] \in Carried(s)
  <2>1. sent[s] # <<>> /\ Last(sent[s]).seq = jobs[s][1]
    BY <1>1, <1>4, <1>6 DEF Ordered
  <2>2. Len(sent[s]) \in 1..Len(sent[s])
    BY <1>2, <2>1
  <2>3. jobs[s][1] \in Entries(sent[s][Len(sent[s])].data)
    BY <1>1, <2>1, <2>2, LabelBounds DEF Last
  <2> QED BY <1>2, <2>2, <2>3 DEF Carried
<1> QED BY <1>5, <1>6

\* A message delivers the run of writes that begin in it; the tail of a split
\* write on its own delivers nothing new.
LEMMA EmitDelivers ==
  ASSUME IInv, NEW s \in Sessions, Emit(s)
  PROVE  [Feed!Next]_(Feed!vars)
<1>1. TypeOK /\ LockInv /\ Ordered(s)
  BY DEF IInv, OrderInv
<1>2. jobs[s] # <<>> /\ cur \in {NoOne, s} /\ UNCHANGED <<seq, reader>>
  BY DEF Emit, entryVars
<1>3. PICK k \in 1..Len(jobs[s]), m \in Message :
        /\ sent' = [sent EXCEPT ![s] = Append(@, m)]
        /\ Len(m.data) = k
        /\ \A i \in 1..k : m.data[i] = jobs[s][1] + (i - 1)
        /\ m.seq = jobs[s][1] + (k - 1)
        /\ jobs[s][1] \in Nat
        /\ Last(jobs[s]) = jobs[s][1] + (Len(jobs[s]) - 1)
  BY <1>1, EmitMessage
<1>4. PICK lo \in Nat, n \in Nat : lo = jobs[s][1] /\ n = Len(jobs[s])
  BY <1>1, <1>3 DEF TypeOK
<1>5. k \in Nat /\ 1 <= k /\ k <= n
  BY <1>4
<1>6. Carried(s)' = Carried(s) \cup lo..(lo + (k - 1))
  <2>1. m.data \in Seq(Nat)
    BY DEF Message
  <2>2. PICK b \in Seq(Nat) : b = m.data
    BY <2>1
  <2>3. Len(b) = k /\ b # <<>> /\ \A i \in 1..Len(b) : b[i] = lo + (i - 1)
    BY <1>3, <1>4, <1>5, <2>2
  <2>4. Entries(b) = lo..(lo + (Len(b) - 1))
    BY <2>3, EntriesRun
  <2> QED BY <1>1, <1>3, <2>2, <2>3, <2>4, EmitCarries
<1>7. \A t \in Sessions \ {s} : Carried(t)' = Carried(t)
  BY <1>1, <1>3, EmitCarries
<1>8. /\ lo >= 1 /\ lo + (n - 1) <= seq[s] /\ seq[s] \in Nat /\ pieces \in Nat
  <2>1. lo >= 1 /\ lo + (n - 1) <= Added(s) /\ seq[s] \in Nat /\ pieces \in Nat
    BY <1>1, <1>2, <1>3, <1>4 DEF TypeOK, Ordered, Segment
  <2> QED BY <1>4, <2>1 DEF Added
<1> DEFINE delivered == [t \in Sessions |-> Carried(t)]
<1>9. ASSUME NEW first \in Nat, 1 <= first, first <= lo + (k - 1),
             \A w \in Carried(s) : w < first,
             Carried(s)' = Carried(s) \cup first..(lo + (k - 1))
      PROVE  Feed!Deliver(s)
  <2>1. PICK last \in Nat : last = lo + (k - 1)
    BY <1>5
  <2>2. first \in 1..seq[s] /\ last \in 1..seq[s] /\ first <= last
    BY <1>4, <1>5, <1>8, <1>9, <2>1
  <2>3. delivered' = [delivered EXCEPT ![s] = @ \cup first..last]
    BY <1>7, <1>9, <2>1
  <2>4. \A w \in delivered[s] : w < first
    BY <1>9
  <2> QED BY <1>2, <2>2, <2>3, <2>4 DEF Feed!Deliver
<1>10. CASE pieces = 0
  <2>1. \A w \in Carried(s) : w < lo
    BY <1>2, <1>4, <1>10, CarriedBelow
  <2>2. Feed!Deliver(s)
    BY SMTT(60), <1>4, <1>5, <1>6, <1>8, <1>9, <2>1
  <2> QED BY <2>2 DEF Feed!Next
<1>11. CASE pieces > 0
  <2>1. lo \in Carried(s) /\ \A w \in Carried(s) : w < lo + 1
    <3>1. \A w \in Carried(s) : w \in Nat /\ w <= lo
      BY <1>2, <1>4, <1>11, CarriedBelow
    <3>2. lo \in Carried(s)
      BY <1>2, <1>4, <1>11, CarriedBelow
    <3> QED BY <3>1, <3>2
  <2>2. lo..(lo + (k - 1)) = {lo} \cup (lo + 1)..(lo + (k - 1))
    BY <1>5
  <2>3. Carried(s)' = Carried(s) \cup (lo + 1)..(lo + (k - 1))
    BY <1>6, <2>1, <2>2
  <2>4. CASE k = 1
    <3>1. (lo + 1)..(lo + (k - 1)) = {}
      BY <2>4
    <3>2. \A t \in Sessions : Carried(t)' = Carried(t)
      BY <1>7, <2>3, <3>1
    <3> QED BY <1>2, <3>2 DEF Feed!vars
  <2>5. CASE k # 1
    <3>1. lo + 1 \in Nat /\ 1 <= lo + 1 /\ lo + 1 <= lo + (k - 1)
      BY <1>5, <2>5
    <3>2. Feed!Deliver(s)
      BY <1>9, <2>1, <2>3, <3>1
    <3> QED BY <3>2 DEF Feed!Next
  <2> QED BY <2>4, <2>5
<1> QED BY <1>8, <1>10, <1>11

\* Every step of the batcher is a step of the feed or leaves it as it is.
LEMMA FeedStep == IInv /\ [BatcherNext]_vars => [Feed!Next]_(Feed!vars)
<1> SUFFICES ASSUME IInv, [BatcherNext]_vars PROVE [Feed!Next]_(Feed!vars)
  OBVIOUS
<1>1. ASSUME NEW s \in Sessions, Write(s) PROVE [Feed!Next]_(Feed!vars)
  <2>1. seq' = [seq EXCEPT ![s] = @ + 1] /\ UNCHANGED sent
    BY <1>1 DEF Write
  <2>2. \A t \in Sessions : Carried(t)' = Carried(t)
    BY <2>1 DEF Carried, Entries
  <2>3. Feed!Write(s)
    BY <2>1, <2>2 DEF Feed!Write
  <2> QED BY <2>3 DEF Feed!Next
<1>2. ASSUME UNCHANGED <<seq, sent>> PROVE [Feed!Next]_(Feed!vars)
  <2>1. \A t \in Sessions : Carried(t)' = Carried(t)
    BY <1>2 DEF Carried, Entries
  <2> QED BY <1>2, <2>1 DEF Feed!vars
<1>3. \/ UNCHANGED <<seq, sent>>
      \/ \E s \in Sessions : Write(s) \/ Emit(s)
  BY DEF BatcherNext, ReaderStep, ClientStep, Skip, AddContiguous,
         AddAfterGap, FlushSession, Insert, Elapse, FlushAll, SealTake, SealAt,
         SealTakeBy, Reset, Stop, Tick, Take, Return, vars, entryVars
<1> QED BY <1>1, <1>2, <1>3, EmitDelivers

\* The batcher implements the abstract feed: whatever the locks, buffers and
\* split writes do, the app is handed increasing runs of the writes, none of
\* them twice, out of order or from nowhere (output_batcher.go, whole file).
THEOREM BatcherFeeds == BatcherSpec => FeedSpec
<1>1. BatcherInit => Feed!Init
  BY DEF BatcherInit, Feed!Init, Carried
<1> QED BY <1>1, FeedStep, InvHolds, PTL DEF BatcherSpec, FeedSpec, Feed!Spec

-----------------------------------------------------------------------------
(* Its callers.                                                            *)
Kinds == {"history_data", "history_start", "history_end", "session_created",
          "error", "session_exit", "kicked"}

\* The types of the variables this module adds.
HandlersTyped ==
  /\ pty \in [Sessions -> {"none", "running", "last", "dead"}]
  /\ op \in [Clients -> [at : Places, s : Sessions \cup {NoOne}, h : Nat]]
  /\ ops \in 0..MaxOps /\ faults \in 0..MaxFaults

\* A handler that is about a session names one.
Named == \A c \in Clients :
  op[c].at \notin {"idle", "kick_flush", "kicked"} => op[c].s \in Sessions

FlagsTyped ==
  /\ subscribed \in [Sessions -> BOOLEAN]
  /\ muted \in [Sessions -> BOOLEAN]
  /\ verified \in BOOLEAN
  /\ relay \in {"up", "closed", "dead"}
  /\ tsLoop \in {"waits", "cleans", "sleeps"}
  /\ gate \in [Sessions -> {"checks", "subscribed", "open", "shut"}]
  /\ mutedAt \in [Sessions -> Nat]

\* A control message: h as the history has it, and the outputs sent before it.
Notice == [kind : Kinds, h : Nat, after : Nat]

\* No control message counts outputs that have not been sent.
ControlsTyped ==
  /\ controls \in [Sessions -> Seq(Notice)]
  /\ \A s \in Sessions : \A i \in 1..Len(controls[s]) :
       controls[s][i].after <= Len(sent[s])

-----------------------------------------------------------------------------
(* Every step is a step of the batcher or leaves it alone.                 *)

LEMMA BatcherSimulated ==
  ASSUME HandlersTyped, Named, [EgressNext]_allVars
  PROVE  [BatcherNext]_vars
<1> USE EgressAssumption DEF BatcherNext, ReaderStep, ClientStep
<1>1. ASSUME NEW s \in Sessions, ReadPTY(s) PROVE [BatcherNext]_vars
  BY <1>1 DEF ReadPTY
<1>2. ASSUME NEW s \in Sessions,
             \/ CheckSubscribed(s) \/ CheckLink(s) \/ HistoryUnmute(s)
             \/ CreateSubscribe(s) \/ Destroy(s) \/ WaitExit(s) \/ OnExit(s)
             \/ ExitReply(s) \/ RefuseRequest(s)
      PROVE  [BatcherNext]_vars
  BY <1>2 DEF CheckSubscribed, CheckLink, HistoryUnmute, CreateSubscribe,
              Destroy, WaitExit, OnExit, ExitReply, RefuseRequest
<1>3. ASSUME NEW s \in Sessions, DropOutput(s) \/ AddOutput(s)
      PROVE  [BatcherNext]_vars
  BY <1>3 DEF DropOutput, AddOutput
<1>4. ASSUME NEW s \in Sessions, PauseFlush(s) PROVE [BatcherNext]_vars
  BY <1>4 DEF PauseFlush
<1>5. ASSUME NEW s \in Sessions, ExitFlush(s) PROVE [BatcherNext]_vars
  <2>1. Waiter[s] \in Clients
    OBVIOUS
  <2> QED BY <1>5, <2>1 DEF ExitFlush, FlushBefore
<1>6. CASE BatcherStep
  BY <1>6 DEF BatcherStep
<1>7. CASE HistorySeal
  <2>1. op[Remote].s \in Sessions
    BY <1>7 DEF HistorySeal, Ready, At, Named
  <2> QED BY <1>7, <2>1 DEF HistorySeal
<1>8. CASE HistoryFlush \/ HistoryEndFlush \/ CreateReplyFlush \/ TakeoverFlush
  BY <1>8 DEF HistoryFlush, HistoryEndFlush, CreateReplyFlush, TakeoverFlush,
              FlushBefore
<1>9. CASE \/ HistoryReply \/ HistoryEnd \/ HistorySubscribe \/ PauseMute
           \/ CreateStart \/ CreateFail \/ CreateReply \/ DestroyUnsubscribe
           \/ Takeover \/ TakeoverReply \/ Verify \/ SetSecCode
           \/ RelayClosed \/ ReadLoopEnds \/ RelayCleanup \/ RelayUnset
           \/ RelayUp
  BY <1>9 DEF HistoryReply, HistoryEnd, HistorySubscribe, PauseMute,
              CreateStart, CreateFail, CreateReply, FinalReply,
              DestroyUnsubscribe, Takeover, TakeoverReply, Verify,
              RelayClosed, ReadLoopEnds, SetSecCode, RelayUnset,
              RelayCleanup, RelayUp
<1>10. CASE PeerOnline \/ PeerOffline \/ Kicked
  BY <1>10 DEF PeerOnline, PeerOffline, Kicked, PeerStep
<1>11. CASE UNCHANGED allVars
  BY <1>11 DEF allVars
<1> QED BY <1>1, <1>2, <1>3, <1>4, <1>5, <1>6, <1>7, <1>8, <1>9, <1>10, <1>11
        DEF EgressNext
-----------------------------------------------------------------------------
(* The handlers.                                                           *)

\* c goes to a place of its handler, keeping the session it is about.
LEMMA MoveTyped ==
  ASSUME HandlersTyped, Named, NEW c \in Clients, NEW where \in Places,
         op[c].s \in Sessions \/ where \in {"idle", "kick_flush", "kicked"},
         Move(c, where)
  PROVE  /\ op' \in
              [Clients -> [at : Places, s : Sessions \cup {NoOne}, h : Nat]]
         /\ Named'
<1>1. op[c] \in [at : Places, s : Sessions \cup {NoOne}, h : Nat]
  BY DEF HandlersTyped
<1>2. [op[c] EXCEPT !.at = where]
        \in [at : Places, s : Sessions \cup {NoOne}, h : Nat]
  BY <1>1
<1>3. op' = [op EXCEPT ![c] = [op[c] EXCEPT !.at = where]]
  BY DEF Move
<1>4. op' \in [Clients -> [at : Places, s : Sessions \cup {NoOne}, h : Nat]]
  BY <1>2, <1>3 DEF HandlersTyped
<1>5. op'[c].at = where /\ op'[c].s = op[c].s
  BY <1>1, <1>3 DEF HandlersTyped
<1>6. \A d \in Clients : d # c => op'[d] = op[d]
  BY <1>3 DEF HandlersTyped
<1> QED BY <1>4, <1>5, <1>6 DEF Named

\* c starts on, or ends, a handler.
LEMMA SetTyped ==
  ASSUME HandlersTyped, Named, NEW c \in Clients,
         NEW o \in [at : Places, s : Sessions \cup {NoOne}, h : Nat],
         o.s \in Sessions \/ o.at \in {"idle", "kick_flush", "kicked"},
         op' = [op EXCEPT ![c] = o]
  PROVE  /\ op' \in
              [Clients -> [at : Places, s : Sessions \cup {NoOne}, h : Nat]]
         /\ Named'
<1>1. op' \in [Clients -> [at : Places, s : Sessions \cup {NoOne}, h : Nat]]
  BY DEF HandlersTyped
<1>2. \A d \in Clients : op'[d] = IF d = c THEN o ELSE op[d]
  BY DEF HandlersTyped
<1> QED BY <1>1, <1>2 DEF Named

\* Which steps change what.
LEMMA PtyFrame ==
  [EgressNext]_allVars =>
    \/ UNCHANGED pty
    \/ CreateStart
    \/ \E s \in Sessions : ReadPTY(s) \/ Destroy(s) \/ WaitExit(s)
BY DEF EgressNext, allVars, egressVars,
       CheckSubscribed, CheckLink, DropOutput, AddOutput, HistoryUnmute,
       PauseFlush, RefuseRequest, CreateSubscribe, OnExit, ExitFlush, ExitReply,
       BatcherStep, HistorySeal, HistoryFlush, HistoryReply,
       HistoryEndFlush, HistoryEnd, HistorySubscribe, PauseMute,
       CreateFail, CreateReplyFlush, CreateReply, FinalReply,
       DestroyUnsubscribe, Takeover, TakeoverFlush, TakeoverReply,
       PeerOnline, PeerOffline, Kicked, PeerStep, Verify, RelayClosed,
       ReadLoopEnds, SetSecCode, RelayUnset,
       RelayCleanup, RelayUp

LEMMA BudgetFrame ==
  [EgressNext]_allVars =>
    \/ UNCHANGED budget
    \/ Fault
    \/ ops < MaxOps /\ ops' = ops + 1 /\ UNCHANGED faults
BY DEF EgressNext, allVars, egressVars, budget, ReadPTY,
       CheckSubscribed, CheckLink, DropOutput, AddOutput, HistoryUnmute,
       PauseFlush, RefuseRequest, CreateSubscribe, Destroy, WaitExit, OnExit, ExitFlush,
       ExitReply, BatcherStep, HistorySeal, HistoryFlush, HistoryReply,
       HistoryEndFlush, HistoryEnd, HistorySubscribe, PauseMute, CreateStart,
       CreateFail, CreateReplyFlush, CreateReply, FinalReply,
       DestroyUnsubscribe, Takeover, TakeoverFlush, TakeoverReply,
       PeerOnline, PeerOffline, Kicked, PeerStep, Verify, RelayClosed,
       ReadLoopEnds, SetSecCode, RelayUnset,
       RelayCleanup, RelayUp, Begin
\* A handler on its way from one place to the next.
Proceeds(c, where) ==
  /\ Move(c, where)
  /\ op[c].at # "idle" /\ op[c].at # "kicked"
  /\ op[c].at = "kick_flush" => where = "kicked"

LEMMA OpFrame ==
  ASSUME [EgressNext]_allVars
  PROVE  \/ UNCHANGED op
         \/ \E s \in Sessions : WaitExit(s)
         \/ \E s \in Sessions,
               where \in {"seal", "mute", "create", "destroyed",
                         "error_flush"} :
              Begin(where, s)
         \/ HistorySeal \/ Takeover
         \/ \E c \in Clients : Done(c)
         \/ \E c \in Clients, where \in Places : Proceeds(c, where)
<1> USE EgressAssumption
<1>1. CASE \/ \E s \in Sessions : \/ ReadPTY(s) \/ CheckSubscribed(s)
                                 \/ CheckLink(s) \/ DropOutput(s)
                                 \/ AddOutput(s)
           \/ BatcherStep \/ PeerOnline \/ PeerOffline \/ Kicked \/ Verify
           \/ RelayClosed \/ ReadLoopEnds \/ RelayCleanup \/ RelayUnset
           \/ RelayUp \/ SetSecCode \/ UNCHANGED allVars
  BY <1>1 DEF allVars, egressVars, ReadPTY, CheckSubscribed, CheckLink,
     DropOutput, AddOutput, BatcherStep, PeerOnline, PeerOffline, Kicked,
     PeerStep, Verify, RelayClosed, ReadLoopEnds, SetSecCode, RelayUnset,
     RelayCleanup, RelayUp
<1>2. ASSUME NEW s \in Sessions,
             \/ HistoryUnmute(s) \/ PauseFlush(s) \/ CreateSubscribe(s)
             \/ Destroy(s) \/ RefuseRequest(s)
      PROVE  \E where \in {"seal", "mute", "create", "destroyed",
                            "error_flush"} :
               Begin(where, s)
  BY <1>2 DEF HistoryUnmute, PauseFlush, RefuseRequest, CreateSubscribe, Destroy
<1>3. CASE HistorySubscribe \/ PauseMute \/ CreateReply \/ DestroyUnsubscribe
  BY <1>3 DEF HistorySubscribe, PauseMute, CreateReply, FinalReply,
              DestroyUnsubscribe
<1>4. CASE TakeoverReply
  BY <1>4 DEF TakeoverReply
<1>5. ASSUME NEW s \in Sessions, OnExit(s) \/ ExitFlush(s) \/ ExitReply(s)
      PROVE  \E c \in Clients, where \in Places : Proceeds(c, where)
  <2>1. \E where \in Places : Proceeds(Waiter[s], where)
    BY <1>5 DEF OnExit, ExitFlush, ExitReply, FlushBefore, Ready, At,
                Proceeds, Places
  <2>2. Waiter[s] \in Clients
    OBVIOUS
  <2> QED BY <2>1, <2>2
<1>6. CASE \/ HistoryFlush \/ HistoryReply \/ HistoryEndFlush \/ HistoryEnd
           \/ CreateStart \/ CreateFail \/ CreateReplyFlush
  <2>1. \E where \in Places : Proceeds(Remote, where)
    BY <1>6 DEF HistoryFlush, HistoryReply, HistoryEndFlush, HistoryEnd,
                CreateStart, CreateFail, CreateReplyFlush, FlushBefore, Ready,
                At, Proceeds, Places
  <2> QED BY <2>1
<1>7. CASE TakeoverFlush
  <2>1. Proceeds(Local, "kicked")
    BY <1>7 DEF TakeoverFlush, FlushBefore, Ready, At, Proceeds
  <2> QED BY <2>1 DEF Places
<1> QED BY <1>1, <1>2, <1>3, <1>4, <1>5, <1>6, <1>7 DEF EgressNext
LEMMA HandlersStep ==
  ASSUME TypeOK, HandlersTyped, Named, [EgressNext]_allVars
  PROVE  HandlersTyped' /\ Named'
<1> DEFINE Handler == [at : Places, s : Sessions \cup {NoOne}, h : Nat]
           Fine == op' \in [Clients -> Handler] /\ Named'
<1> USE EgressAssumption
<1>1. pty' \in [Sessions -> {"none", "running", "last", "dead"}]
  <2>1. ASSUME NEW s \in Sessions, ClosePTY(s)
        PROVE  pty' \in [Sessions -> {"none", "running", "last", "dead"}]
    BY <2>1 DEF ClosePTY, HandlersTyped
  <2>2. ASSUME NEW s \in Sessions, Destroy(s) \/ WaitExit(s)
        PROVE  ClosePTY(s) \/ UNCHANGED pty
    BY <2>2 DEF Destroy, WaitExit
  <2>3. ASSUME NEW s \in Sessions, ReadPTY(s)
        PROVE  pty' \in [Sessions -> {"none", "running", "last", "dead"}]
    BY <2>3 DEF ReadPTY, HandlersTyped
  <2>4. CASE CreateStart
    BY <2>4 DEF CreateStart, HandlersTyped
  <2>5. CASE UNCHANGED pty
    BY <2>5 DEF HandlersTyped
  <2> QED BY <2>1, <2>2, <2>3, <2>4, <2>5, PtyFrame DEF HandlersTyped
<1>2. ops' \in 0..MaxOps /\ faults' \in 0..MaxFaults
  BY BudgetFrame DEF HandlersTyped, budget, Fault
<1>3. CASE UNCHANGED op
  BY <1>3, <1>1, <1>2 DEF HandlersTyped, Named
<1>4. ASSUME NEW s \in Sessions, WaitExit(s) PROVE Fine
  <2>1. [at |-> "on_exit", s |-> s, h |-> 0] \in Handler
    BY DEF Places
  <2>2. Waiter[s] \in Clients
    OBVIOUS
  <2> QED BY <1>4, <2>1, <2>2, SetTyped DEF WaitExit
<1>5. ASSUME NEW s \in Sessions,
             NEW where \in {"seal", "mute", "create", "destroyed",
                            "error_flush"},
             Begin(where, s)
      PROVE  Fine
  <2>1. [at |-> where, s |-> s, h |-> 0] \in Handler
    BY DEF Places
  <2> QED BY <1>5, <2>1, SetTyped DEF Begin
<1>6. CASE HistorySeal
  <2> DEFINE s == op[Remote].s
             o == [op[Remote] EXCEPT !.at = "sealed", !.h = HistorySeq(s)]
  <2>1. s \in Sessions /\ op[Remote] \in Handler
    BY <1>6 DEF HistorySeal, Ready, At, Named, HandlersTyped
  <2>2. HistorySeq(s) \in Nat
    BY <2>1 DEF HistorySeq, TypeOK
  <2>3. o \in Handler /\ o.s = s
    BY <2>1, <2>2 DEF Places
  <2>4. op' = [op EXCEPT ![Remote] = o]
    BY <1>6, <2>1 DEF HistorySeal, HandlersTyped
  <2>5. Fine
    BY <2>1, <2>3, <2>4, SetTyped
  <2> QED BY <1>1, <1>2, <2>5 DEF HandlersTyped
<1>7. CASE Takeover
  <2>1. Fine
    BY <1>7, MoveTyped DEF Takeover, Places
  <2> QED BY <1>1, <1>2, <2>1 DEF HandlersTyped
<1>8. ASSUME NEW c \in Clients, Done(c) PROVE Fine
  <2>1. Idle \in Handler /\ Idle.at = "idle"
    BY DEF Idle, Places
  <2> QED BY <1>8, <2>1, SetTyped DEF Done
<1>9. ASSUME NEW c \in Clients, NEW where \in Places, Proceeds(c, where)
      PROVE  Fine
  <2>1. op[c].s \in Sessions \/ where \in {"idle", "kick_flush", "kicked"}
    BY <1>9 DEF Proceeds, Named
  <2> QED BY <1>9, <2>1, MoveTyped DEF Proceeds
<1> QED BY <1>1, <1>2, <1>3, <1>4, <1>5, <1>6, <1>7, <1>8, <1>9, OpFrame
        DEF HandlersTyped

-----------------------------------------------------------------------------
(* The output path implements the batcher.                                 *)

\* What BatcherSimulated and HandlersStep rest on, and nothing else does.
LinkInv == IInv /\ HandlersTyped /\ Named

LEMMA LinkInit == EgressInit => LinkInv
<1> SUFFICES ASSUME EgressInit PROVE LinkInv
  OBVIOUS
<1>1. IInv
  BY InvInit DEF EgressInit
<1>2. HandlersTyped
  BY EgressAssumption DEF EgressInit, HandlersTyped, Idle, Places
<1>3. Named
  BY DEF EgressInit, Named, Idle
<1> QED BY <1>1, <1>2, <1>3 DEF LinkInv

LEMMA LinkStep ==
  LinkInv /\ [EgressNext]_allVars => LinkInv' /\ [BatcherNext]_vars
<1> SUFFICES ASSUME LinkInv, [EgressNext]_allVars
             PROVE  LinkInv' /\ [BatcherNext]_vars
  OBVIOUS
<1>1. [BatcherNext]_vars
  BY BatcherSimulated DEF LinkInv
<1>2. IInv'
  BY <1>1, InvStep DEF LinkInv
<1>3. HandlersTyped' /\ Named'
  BY HandlersStep DEF LinkInv, IInv
<1> QED BY <1>1, <1>2, <1>3 DEF LinkInv

THEOREM LinkHolds == EgressSpec => []LinkInv
<1>1. LinkInv /\ [EgressNext]_allVars => LinkInv'
  BY LinkStep
<1> QED BY <1>1, LinkInit, PTL DEF EgressSpec

\* Whatever the reader's checks, the handlers of the app's requests, exits,
\* takeovers and relay losses do, in any order, is a run of the batcher.
THEOREM EgressImplementsBatcher == EgressSpec => BatcherSpec
<1>1. EgressInit => BatcherInit
  BY DEF EgressInit
<1>2. LinkInv /\ [EgressNext]_allVars => [BatcherNext]_vars
  BY LinkStep
<1> QED BY <1>1, <1>2, LinkHolds, PTL DEF EgressSpec, BatcherSpec
\* The wire contract, with all the callers of the batcher in the picture.
THEOREM EgressWireContract == EgressSpec => []WireContract
BY EgressImplementsBatcher, WireContractHolds, PTL

-----------------------------------------------------------------------------
(* Type correctness.                                                       *)

LEMMA SubscribedFrame ==
  [EgressNext]_allVars =>
    \/ UNCHANGED subscribed
    \/ subscribed' = [s \in Sessions |-> FALSE]
    \/ \E s \in Sessions : CreateSubscribe(s) \/ OnExit(s)
    \/ HistorySubscribe \/ CreateFail \/ DestroyUnsubscribe
BY DEF EgressNext, allVars, egressVars, subs, ReadPTY, CheckSubscribed,
       CheckLink, DropOutput, AddOutput, HistoryUnmute, PauseFlush, RefuseRequest, Destroy,
       WaitExit, ExitFlush, ExitReply, BatcherStep, HistorySeal, HistoryFlush,
       HistoryReply, HistoryEndFlush, HistoryEnd, PauseMute, CreateStart,
       CreateReplyFlush, CreateReply, FinalReply, Takeover, TakeoverFlush,
       TakeoverReply, PeerOnline, PeerOffline, Kicked, PeerStep, Verify,
       RelayClosed, ReadLoopEnds, SetSecCode, RelayUnset, RelayCleanup, RelayUp

LEMMA MutedFrame ==
  [EgressNext]_allVars =>
    \/ UNCHANGED <<muted, mutedAt>>
    \/ PauseMute
    \/ UNCHANGED mutedAt /\ muted' = [s \in Sessions |-> FALSE]
    \/ /\ UNCHANGED mutedAt
       /\ \E s \in Sessions : muted' = [muted EXCEPT ![s] = FALSE]
BY DEF EgressNext, allVars, egressVars, subs, told, ReadPTY, CheckSubscribed,
       CheckLink, DropOutput, AddOutput, HistoryUnmute, UnmutePush, PauseFlush, RefuseRequest,
       CreateSubscribe, Destroy, WaitExit, OnExit, ExitFlush, ExitReply,
       BatcherStep, HistorySeal, HistoryFlush, HistoryReply, HistoryEndFlush,
       HistoryEnd, HistorySubscribe, CreateStart, CreateFail,
       CreateReplyFlush, CreateReply, FinalReply, DestroyUnsubscribe, Takeover,
       TakeoverFlush, TakeoverReply, PeerOnline, PeerOffline, Kicked, PeerStep,
       Verify, RelayClosed, ReadLoopEnds, SetSecCode, RelayUnset,
       RelayCleanup, RelayUp

LEMMA LinkFrame ==
  [EgressNext]_allVars =>
    /\ UNCHANGED verified \/ verified' \in BOOLEAN
    /\ UNCHANGED relay \/ relay' \in {"up", "closed", "dead"}
    /\ UNCHANGED tsLoop \/ tsLoop' \in {"waits", "cleans", "sleeps"}
BY DEF EgressNext, allVars, egressVars, link, ReadPTY, CheckSubscribed,
       CheckLink, DropOutput, AddOutput, HistoryUnmute, PauseFlush, RefuseRequest,
       CreateSubscribe, Destroy, WaitExit, OnExit, ExitFlush, ExitReply,
       BatcherStep, HistorySeal, HistoryFlush, HistoryReply, HistoryEndFlush,
       HistoryEnd, HistorySubscribe, PauseMute, CreateStart, CreateFail,
       CreateReplyFlush, CreateReply, FinalReply, DestroyUnsubscribe, Takeover,
       TakeoverFlush, TakeoverReply, PeerOnline, PeerOffline, Kicked, PeerStep,
       Verify, RelayClosed, ReadLoopEnds, SetSecCode, RelayUnset,
       RelayCleanup, RelayUp

LEMMA GateFrame ==
  [EgressNext]_allVars =>
    \/ UNCHANGED gate
    \/ \E s \in Sessions : ReadPTY(s) \/ CheckSubscribed(s) \/ CheckLink(s)
BY DEF EgressNext, allVars, egressVars, DropOutput, AddOutput, HistoryUnmute,
       PauseFlush, RefuseRequest, CreateSubscribe, Destroy, WaitExit, OnExit, ExitFlush,
       ExitReply, BatcherStep, HistorySeal, HistoryFlush, HistoryReply,
       HistoryEndFlush, HistoryEnd, HistorySubscribe, PauseMute, CreateStart,
       CreateFail, CreateReplyFlush, CreateReply, FinalReply,
       DestroyUnsubscribe, Takeover, TakeoverFlush, TakeoverReply, PeerOnline,
       PeerOffline, Kicked, PeerStep, Verify, RelayClosed, ReadLoopEnds,
       SetSecCode, RelayUnset, RelayCleanup, RelayUp

LEMMA FlagsTypedStep ==
  ASSUME TypeOK, FlagsTyped, [EgressNext]_allVars
  PROVE  FlagsTyped'
<1>1. subscribed' \in [Sessions -> BOOLEAN]
  <2>1. ASSUME NEW s \in Sessions, CreateSubscribe(s) \/ OnExit(s)
        PROVE  subscribed' \in [Sessions -> BOOLEAN]
    BY <2>1 DEF CreateSubscribe, OnExit, FlagsTyped
  <2>2. CASE HistorySubscribe \/ CreateFail \/ DestroyUnsubscribe
    BY <2>2 DEF HistorySubscribe, CreateFail, DestroyUnsubscribe, FlagsTyped
  <2> QED BY <2>1, <2>2, SubscribedFrame DEF FlagsTyped
<1>2. muted' \in [Sessions -> BOOLEAN] /\ mutedAt' \in [Sessions -> Nat]
  <2>1. CASE PauseMute
    BY <2>1 DEF PauseMute, FlagsTyped, TypeOK
  <2> QED BY <2>1, MutedFrame DEF FlagsTyped
<1>3. /\ verified' \in BOOLEAN /\ relay' \in {"up", "closed", "dead"}
      /\ tsLoop' \in {"waits", "cleans", "sleeps"}
  BY LinkFrame DEF FlagsTyped
<1>4. gate' \in [Sessions -> {"checks", "subscribed", "open", "shut"}]
  BY GateFrame DEF FlagsTyped, ReadPTY, CheckSubscribed, CheckLink
<1> QED BY <1>1, <1>2, <1>3, <1>4 DEF FlagsTyped
LEMMA SentFrame ==
  [BatcherNext]_vars => UNCHANGED sent \/ \E s \in Sessions : Emit(s)
BY DEF BatcherNext, ReaderStep, ClientStep, vars, lockVars, Write, Skip,
       AddContiguous, AddAfterGap, FlushSession, Insert, FlushAll, SealTake,
       SealTakeBy, Reset, Stop, SealAt, Tick, Take, Return, Elapse

\* The channel only ever gets longer.
LEMMA SentGrows ==
  ASSUME IInv, [BatcherNext]_vars, NEW s \in Sessions
  PROVE  /\ Len(sent[s]) \in Nat /\ Len(sent'[s]) \in Nat
         /\ Len(sent[s]) <= Len(sent'[s])
<1>1. sent[s] \in Seq(Message)
  BY DEF IInv, TypeOK
<1>2. CASE UNCHANGED sent
  BY <1>1, <1>2
<1>3. ASSUME NEW t \in Sessions, Emit(t)
      PROVE  \E m \in Message : sent' = [sent EXCEPT ![t] = Append(@, m)]
  BY <1>3, EmitMessage DEF IInv, OrderInv
<1>4. ASSUME NEW t \in Sessions, NEW m \in Message,
             sent' = [sent EXCEPT ![t] = Append(@, m)]
      PROVE  sent'[s] = sent[s] \/ sent'[s] = Append(sent[s], m)
  BY <1>4 DEF IInv, TypeOK
<1>5. ASSUME NEW m \in Message
      PROVE  Len(Append(sent[s], m)) = Len(sent[s]) + 1 /\ Len(sent[s]) \in Nat
  BY <1>1
<1>6. \/ sent'[s] = sent[s]
      \/ \E m \in Message : sent'[s] = Append(sent[s], m)
  BY <1>2, <1>3, <1>4, SentFrame
<1> QED BY <1>1, <1>5, <1>6

\* A control message about t is added to those there are.
LEMMA AppendTyped ==
  ASSUME IInv, ControlsTyped, NEW t \in Sessions, NEW kind \in Kinds,
         NEW h \in Nat, UNCHANGED sent,
         controls'[t] = Append(controls[t],
                          [kind |-> kind, h |-> h, after |-> Len(sent[t])])
  PROVE  /\ controls'[t] \in Seq(Notice)
         /\ \A i \in 1..Len(controls'[t]) :
              controls'[t][i].after <= Len(sent'[t])
<1> DEFINE c == [kind |-> kind, h |-> h, after |-> Len(sent[t])]
<1>1. Len(sent[t]) \in Nat
  BY DEF IInv, TypeOK
<1>2. c \in Notice /\ c.after <= Len(sent[t])
  BY <1>1 DEF Notice
<1>3. controls[t] \in Seq(Notice)
  BY DEF ControlsTyped
<1>4. controls'[t] = Append(controls[t], c)
  OBVIOUS
<1> HIDE DEF c
<1>5. controls'[t] \in Seq(Notice)
  BY <1>2, <1>3, <1>4
<1>6. ASSUME NEW i \in 1..Len(controls'[t])
      PROVE  controls'[t][i].after <= Len(sent'[t])
  <2>1. CASE i \in 1..Len(controls[t])
    <3>1. controls'[t][i] = controls[t][i]
      BY <2>1, <1>3, <1>4
    <3> QED BY <2>1, <3>1 DEF ControlsTyped
  <2>2. CASE i = Len(controls[t]) + 1
    <3>1. controls'[t][i] = c
      BY <2>2, <1>3, <1>4
    <3> QED BY <3>1, <1>2
  <2> QED BY <2>1, <2>2, <1>3, <1>4
<1> QED BY <1>5, <1>6

\* Which steps send a control message; none of them is a step of the batcher.
LEMMA ControlsFrame ==
  [EgressNext]_allVars =>
    \/ UNCHANGED controls
    \/ TakeoverReply
    \/ HistoryReply \/ HistoryEnd \/ CreateReply
    \/ \E s \in Sessions : ExitReply(s)
BY DEF EgressNext, allVars, egressVars, told, ReadPTY, CheckSubscribed,
       CheckLink, DropOutput, AddOutput, HistoryUnmute, PauseFlush, RefuseRequest,
       CreateSubscribe, Destroy, WaitExit, OnExit, ExitFlush, BatcherStep,
       HistorySeal, HistoryFlush, HistoryEndFlush, HistorySubscribe, PauseMute,
       CreateStart, CreateFail, CreateReplyFlush, DestroyUnsubscribe, Takeover,
       TakeoverFlush, PeerOnline, PeerOffline, Kicked, PeerStep, Verify,
       RelayClosed, ReadLoopEnds, SetSecCode, RelayUnset, RelayCleanup, RelayUp

LEMMA ControlsStep ==
  ASSUME LinkInv, ControlsTyped, [EgressNext]_allVars
  PROVE  ControlsTyped'
<1> USE EgressAssumption
<1>0. /\ IInv /\ HandlersTyped /\ Named /\ [BatcherNext]_vars
      /\ op[Remote].h \in Nat
  BY LinkStep DEF LinkInv, HandlersTyped
<1>1. CASE UNCHANGED controls
  <2>1. ASSUME NEW s \in Sessions, NEW i \in 1..Len(controls[s])
        PROVE  controls[s][i].after <= Len(sent'[s])
    <3>1. controls[s] \in Seq(Notice)
      BY DEF ControlsTyped
    <3>2. controls[s][i].after \in Nat
      <4>1. controls[s][i] \in Notice
        BY <3>1
      <4> QED BY <4>1 DEF Notice
    <3>3. controls[s][i].after <= Len(sent[s])
      BY DEF ControlsTyped
    <3>4. /\ Len(sent[s]) \in Nat /\ Len(sent'[s]) \in Nat
          /\ Len(sent[s]) <= Len(sent'[s])
      BY <1>0, SentGrows
    <3> QED BY <3>2, <3>3, <3>4
  <2> QED BY <1>1, <2>1 DEF ControlsTyped
<1>2. ASSUME NEW s \in Sessions, NEW kind \in Kinds, NEW h \in Nat,
             Control(s, kind, h), UNCHANGED sent
      PROVE  ControlsTyped'
  <2>1. /\ controls' \in [Sessions -> Seq(Notice)]
        /\ \A t \in Sessions : t # s => controls'[t] = controls[t]
        /\ controls'[s] = Append(controls[s],
                             [kind |-> kind, h |-> h, after |-> Len(sent[s])])
    <3> DEFINE c == [kind |-> kind, h |-> h, after |-> Len(sent[s])]
    <3>1. Len(sent[s]) \in Nat
      BY <1>0 DEF IInv, TypeOK
    <3>2. c \in Notice
      BY <3>1 DEF Notice
    <3>3. controls' = [controls EXCEPT ![s] = Append(controls[s], c)]
      BY <1>2 DEF Control
    <3> HIDE DEF c
    <3>4. controls \in [Sessions -> Seq(Notice)]
      BY DEF ControlsTyped
    <3>5. Append(controls[s], c) \in Seq(Notice)
      BY <3>2, <3>4
    <3>6. /\ controls' \in [Sessions -> Seq(Notice)]
          /\ \A t \in Sessions : t # s => controls'[t] = controls[t]
          /\ controls'[s] = Append(controls[s], c)
      BY <3>3, <3>4, <3>5
    <3> QED BY <3>6 DEF c
  <2>2. \A i \in 1..Len(controls'[s]) : controls'[s][i].after <= Len(sent'[s])
    BY <1>0, <1>2, <2>1, AppendTyped
  <2> QED BY <1>2, <2>1, <2>2 DEF ControlsTyped
<1>3. CASE HistoryReply \/ HistoryEnd
  <2>1. op[Remote].s \in Sessions
    BY <1>0, <1>3 DEF HistoryReply, HistoryEnd, Ready, At, Named
  <2>2. UNCHANGED sent
    BY <1>3 DEF HistoryReply, HistoryEnd, vars
  <2>3. \E kind \in Kinds : Control(op[Remote].s, kind, op[Remote].h)
    BY <1>3 DEF HistoryReply, HistoryEnd, Kinds
  <2> QED BY <1>0, <1>2, <2>1, <2>2, <2>3
<1>4. CASE CreateReply
  <2>1. op[Remote].s \in Sessions
    BY <1>0, <1>4 DEF CreateReply, FinalReply, Ready, At, Named
  <2>2. UNCHANGED sent
    BY <1>4 DEF CreateReply, FinalReply, vars
  <2>3. \E kind \in Kinds : Control(op[Remote].s, kind, op[Remote].h)
    BY <1>4 DEF CreateReply, FinalReply, Kinds
  <2> QED BY <1>0, <1>2, <2>1, <2>2, <2>3
<1>5. ASSUME NEW s \in Sessions, ExitReply(s) PROVE ControlsTyped'
  <2>1. Control(s, "session_exit", 0) /\ UNCHANGED sent
    BY <1>5 DEF ExitReply, vars
  <2> QED BY <1>2, <2>1 DEF Kinds
<1>6. CASE TakeoverReply
  <2>1. UNCHANGED sent
    BY <1>6 DEF TakeoverReply, vars
  <2>2. controls' = [s \in Sessions |-> Append(controls[s],
                       [kind |-> "kicked", h |-> 0, after |-> Len(sent[s])])]
    BY <1>6 DEF TakeoverReply
  <2>3. ASSUME NEW s \in Sessions
        PROVE  /\ controls'[s] \in Seq(Notice)
               /\ \A i \in 1..Len(controls'[s]) :
                    controls'[s][i].after <= Len(sent'[s])
    <3>1. "kicked" \in Kinds
      BY DEF Kinds
    <3> QED BY <1>0, <2>1, <2>2, <3>1, AppendTyped
  <2> QED BY <2>2, <2>3 DEF ControlsTyped
<1> QED BY <1>1, <1>3, <1>4, <1>5, <1>6, ControlsFrame
\* LinkInv with the types that the batcher does not depend on.
TypesInv == LinkInv /\ FlagsTyped /\ ControlsTyped

LEMMA TypesInit == EgressInit => TypesInv
<1> SUFFICES ASSUME EgressInit PROVE TypesInv
  OBVIOUS
<1>1. FlagsTyped
  BY DEF EgressInit, FlagsTyped
<1>2. ControlsTyped
  BY DEF EgressInit, ControlsTyped
<1> QED BY <1>1, <1>2, LinkInit DEF TypesInv

LEMMA TypesStep == TypesInv /\ [EgressNext]_allVars => TypesInv'
BY LinkStep, FlagsTypedStep, ControlsStep DEF TypesInv, LinkInv, IInv

\* Every variable of SessionEgress keeps its type, and no control message is
\* recorded after outputs that have not been sent (daemon.go, pty.go).
THEOREM EgressTypeCorrect == EgressSpec => []EgressTypeOK
<1>1. TypesInv => EgressTypeOK
  <2> SUFFICES ASSUME TypesInv PROVE EgressTypeOK
    OBVIOUS
  <2>1. ASSUME NEW s \in Sessions, NEW i \in 1..Len(controls[s])
        PROVE  controls[s][i].after \in 0..Len(sent[s])
    <3>1. controls[s] \in Seq(Notice) /\ sent[s] \in Seq(Message)
      BY DEF TypesInv, LinkInv, IInv, TypeOK, ControlsTyped
    <3>2. controls[s][i] \in Notice
      BY <3>1
    <3>3. controls[s][i].after \in Nat /\ Len(sent[s]) \in Nat
      BY <3>1, <3>2 DEF Notice
    <3>4. controls[s][i].after <= Len(sent[s])
      BY DEF TypesInv, ControlsTyped
    <3> QED BY <3>3, <3>4
  <2> QED BY <2>1 DEF TypesInv, LinkInv, IInv, HandlersTyped, FlagsTyped,
                      EgressTypeOK
<1> QED BY <1>1, TypesInit, TypesStep, PTL DEF EgressSpec

-----------------------------------------------------------------------------
(* A mute holds.                                                           *)

\* What the batcher has of s: on the wire, detached, or buffered.
Held(s) == Carried(s) \cup Entries(jobs[s]) \cup Entries(bufs[s])

\* The reader holds a write for which sendOutput has seen s subscribed and not
\* muted: it may still go to the batcher.
InHand(s) == \/ reader[s] = "decide" /\ gate[s] \in {"subscribed", "open"}
             \/ reader[s] \in {"flush", "insert"}

MuteInv ==
  \A s \in Sessions : muted[s] =>
    /\ \A w \in Held(s) : w <= mutedAt[s]
    /\ InHand(s) => seq[s] <= mutedAt[s]

\* Nothing with the batcher is newer than the history.
LEMMA HeldBounded ==
  ASSUME IInv, NEW s \in Sessions, NEW w \in Held(s)
  PROVE  w \in Nat /\ w <= seq[s]
<1>0. /\ seq[s] \in Nat /\ bufs[s] \in Seq(Nat) /\ jobs[s] \in Seq(Nat)
      /\ Ordered(s)
  BY DEF IInv, TypeOK, OrderInv
<1>1. Added(s) \in Int /\ Added(s) <= seq[s]
  BY <1>0 DEF Added
<1>2. ASSUME NEW b \in Seq(Nat), Segment(b, Added(s)), NEW i \in DOMAIN b
      PROVE  b[i] \in Nat /\ b[i] <= seq[s]
  <2>1. i \in 1..Len(b) /\ Len(b) \in Nat /\ b[i] \in Nat /\ b[1] \in Nat
    BY <1>2
  <2>2. b[i] = b[1] + (i - 1) /\ b[Len(b)] = b[1] + (Len(b) - 1)
    BY <1>2, <2>1 DEF Segment
  <2>3. b[Len(b)] <= Added(s)
    BY <1>2, <2>1 DEF Segment, Last
  <2> QED BY SMTT(120), <1>0, <1>1, <2>1, <2>2, <2>3
<1>3. CASE w \in Entries(bufs[s]) \cup Entries(jobs[s])
  BY <1>0, <1>2, <1>3 DEF Entries, Ordered
<1>4. CASE w \in Carried(s)
  <2>1. PICK j \in DOMAIN sent[s] : w \in Entries(sent[s][j].data)
    BY <1>4 DEF Carried
  <2>2. sent[s] \in Seq(Message) /\ j \in 1..Len(sent[s])
    BY DEF IInv, TypeOK
  <2>3. sent[s][j].seq \in Nat /\ sent[s][j].data \in Seq(Nat)
    BY <2>2, SentFacts DEF IInv
  <2>4. PICK i \in 1..Len(sent[s][j].data) : w = sent[s][j].data[i]
    BY <2>1, <2>3 DEF Entries
  <2>5. sent[s][j].data[i] + (Len(sent[s][j].data) - i) = sent[s][j].seq
    BY <2>2 DEF IInv, WireContract, Labelled
  <2>6. sent[s][j].seq <= Added(s)
    BY <1>0, <2>2 DEF Ordered
  <2>7. w \in Nat /\ Len(sent[s][j].data) \in Nat
    BY <2>3, <2>4
  <2>8. PICK n \in Nat : n = Len(sent[s][j].data)
    BY <2>7
  <2>9. PICK q \in Nat : q = sent[s][j].seq
    BY <2>3
  <2>10. i \in 1..n /\ w + (n - i) = q /\ q <= Added(s)
    BY <2>4, <2>5, <2>6, <2>8, <2>9
  <2>11. w <= q
    BY <2>7, <2>10
  <2> QED BY <1>0, <1>1, <2>7, <2>10, <2>11
<1> QED BY <1>3, <1>4 DEF Held

LEMMA BufsFrame ==
  [BatcherNext]_vars =>
    \/ UNCHANGED <<bufs, jobs>>
    \/ \E s \in Sessions :
         AddContiguous(s) \/ Insert(s) \/ FlushSession(s) \/ Emit(s)
    \/ \E c \in Clients : FlushAll(c) \/ SealTake(c) \/ Reset(c)
    \/ Tick
BY DEF BatcherNext, ReaderStep, ClientStep, vars, lockVars, entryVars, Write,
       Skip, AddAfterGap, Stop, SealAt, Return, Elapse

LEMMA TakeEntries ==
  ASSUME NEW g, NEW Chosen, Take(g, Chosen), NEW s \in Sessions
  PROVE  bufs'[s] \in {<<>>, bufs[s]} /\ jobs'[s] \in {<<>>, bufs[s]}
BY DEF Take

\* What is buffered or detached after a step was so before it, unless it is the
\* write in the reader's hands, just Added.
LEMMA EntriesGrow ==
  ASSUME IInv, [BatcherNext]_vars, NEW s \in Sessions,
         NEW w \in Entries(bufs'[s]) \cup Entries(jobs'[s])
  PROVE  \/ w \in Entries(bufs[s]) \cup Entries(jobs[s])
         \/ w = seq[s] /\ (AddContiguous(s) \/ Insert(s))
<1>0. bufs[s] \in Seq(Nat) /\ jobs[s] \in Seq(Nat) /\ seq[s] \in Nat
  BY DEF IInv, TypeOK
<1>1. Entries(<<>>) = {}
  BY DEF Entries
<1>2. CASE UNCHANGED <<bufs, jobs>>
  BY <1>2
<1>3. ASSUME NEW g, NEW Chosen, Take(g, Chosen)
      PROVE  w \in Entries(bufs[s])
  BY <1>1, <1>3, TakeEntries
<1>4. ASSUME NEW t \in Sessions, AddContiguous(t) \/ Insert(t)
      PROVE  \/ w \in Entries(bufs[s]) \cup Entries(jobs[s])
             \/ w = seq[s] /\ (AddContiguous(s) \/ Insert(s))
  <2>1. CASE s # t
    <3>1. bufs'[s] = bufs[s] /\ jobs'[s] = jobs[s]
      BY <1>4, <2>1 DEF AddContiguous, Insert, IInv, TypeOK, lockVars
    <3> QED BY <3>1
  <2>2. CASE s = t
    <3>1. /\ jobs'[s] = jobs[s]
          /\ bufs'[s] \in {Append(bufs[s], seq[s]), <<seq[s]>>}
      BY <1>4, <2>2 DEF AddContiguous, Insert, IInv, TypeOK, lockVars
    <3>2. Entries(Append(bufs[s], seq[s]))
            \subseteq Entries(bufs[s]) \cup {seq[s]}
      <4> DEFINE b == Append(bufs[s], seq[s])
      <4>1. ASSUME NEW i \in DOMAIN b
            PROVE  b[i] = seq[s] \/ (i \in DOMAIN bufs[s] /\ b[i] = bufs[s][i])
        <5>1. /\ b \in Seq(Nat) /\ Len(bufs[s]) \in Nat
              /\ Len(b) = Len(bufs[s]) + 1
          BY <1>0
        <5>2. i \in 1..(Len(bufs[s]) + 1)
          BY <5>1
        <5>3. CASE i = Len(bufs[s]) + 1
          <6>1. b[Len(bufs[s]) + 1] = seq[s]
            BY <1>0
          <6> HIDE DEF b
          <6> QED BY <5>3, <6>1
        <5>4. CASE i \in 1..Len(bufs[s])
          <6>1. b[i] = bufs[s][i]
            BY <1>0, <5>4
          <6>2. i \in DOMAIN bufs[s]
            BY <1>0, <5>4
          <6> QED BY <6>1, <6>2
        <5> QED BY <5>1, <5>2, <5>3, <5>4
      <4> QED BY <4>1 DEF Entries
    <3>3. Entries(<<seq[s]>>) = {seq[s]}
      BY <1>0 DEF Entries
    <3> QED BY <1>4, <2>2, <3>1, <3>2, <3>3
  <2> QED BY <2>1, <2>2
<1>5. ASSUME NEW t \in Sessions, Emit(t)
      PROVE  w \in Entries(bufs[s]) \cup Entries(jobs[s])
  <2>1. PICK k \in 1..Len(jobs[t]), cut \in BOOLEAN, rest \in Seq(Nat) :
          /\ Len(rest) = IF cut THEN Len(jobs[t]) - k + 1 ELSE Len(jobs[t]) - k
          /\ \A i \in 1..Len(rest) :
               rest[i] = jobs[t][i + (IF cut THEN k - 1 ELSE k)]
          /\ sent' = [sent EXCEPT ![t] = Append(@, Packed(jobs[t], k, pieces))]
          /\ jobs' = [jobs EXCEPT ![t] = rest]
          /\ pieces' \in Nat /\ (pieces' > 0 <=> cut)
          /\ cur' = IF rest = <<>> THEN NoOne ELSE t
    <3>1. TypeOK
      BY DEF IInv
    <3> QED BY <1>5, <3>1, EmitFacts
  <2>2. UNCHANGED bufs
    BY <1>5 DEF Emit, entryVars
  <2>3. /\ jobs[t] \in Seq(Nat) /\ jobs'[t] = rest
        /\ s # t => jobs'[s] = jobs[s]
    BY <2>1 DEF IInv, TypeOK
  <2>4. ASSUME NEW i \in 1..Len(rest) PROVE rest[i] \in Entries(jobs[t])
    <3> DEFINE j == i + (IF cut THEN k - 1 ELSE k)
    <3>1. rest[i] = jobs[t][j]
      BY <2>1
    <3>2. j \in 1..Len(jobs[t])
      <4>1. Len(jobs[t]) \in Nat /\ k \in 1..Len(jobs[t])
        BY <2>3
      <4>2. i \in 1..(IF cut THEN Len(jobs[t]) - k + 1 ELSE Len(jobs[t]) - k)
        BY <2>1
      <4> QED BY <4>1, <4>2
    <3>3. j \in DOMAIN jobs[t]
      BY <2>3, <3>2
    <3> HIDE DEF j
    <3> QED BY <3>1, <3>3 DEF Entries
  <2>5. Entries(rest) \subseteq Entries(jobs[t])
    BY <2>4 DEF Entries
  <2> QED BY <2>2, <2>3, <2>5
<1>6. ASSUME NEW c \in Clients, SealTake(c) PROVE w \in Entries(bufs[s])
  <2>1. PICK k \in 0..Len(bufs[s]) :
          /\ jobs'[s] \in Seq(Nat) /\ Len(jobs'[s]) = k
          /\ \A i \in 1..k : jobs'[s][i] = bufs[s][i]
          /\ bufs'[s] \in Seq(Nat) /\ Len(bufs'[s]) = Len(bufs[s]) - k
          /\ \A i \in 1..(Len(bufs[s]) - k) : bufs'[s][i] = bufs[s][k + i]
    BY <1>6, SealTakeFacts DEF IInv
  <2>2. ASSUME NEW i \in DOMAIN jobs'[s] PROVE jobs'[s][i] \in Entries(bufs[s])
    <3>1. i \in 1..k /\ i \in DOMAIN bufs[s]
      BY SMTT(60), <1>0, <2>1
    <3> QED BY <2>1, <3>1 DEF Entries
  <2>3. ASSUME NEW i \in DOMAIN bufs'[s] PROVE bufs'[s][i] \in Entries(bufs[s])
    <3>1. i \in 1..(Len(bufs[s]) - k)
      BY <2>1
    <3>2. k + i \in 1..Len(bufs[s])
      <4>1. Len(bufs[s]) \in Nat /\ k \in 0..Len(bufs[s])
        BY <1>0
      <4> QED BY <3>1, <4>1
    <3>3. bufs'[s][i] = bufs[s][k + i]
      BY <2>1, <3>1
    <3>4. k + i \in DOMAIN bufs[s]
      BY <1>0, <3>2
    <3> QED BY <3>3, <3>4 DEF Entries
  <2>4. (\E i \in DOMAIN bufs'[s] : w = bufs'[s][i])
        \/ \E i \in DOMAIN jobs'[s] : w = jobs'[s][i]
    BY DEF Entries
  <2> QED BY <2>2, <2>3, <2>4
<1>7. ASSUME NEW c \in Clients, Reset(c) PROVE w \in Entries(jobs[s])
  <2>1. bufs'[s] = <<>> /\ jobs'[s] = jobs[s]
    BY <1>7 DEF Reset, lockVars
  <2> QED BY <1>1, <2>1
<1> QED BY <1>2, <1>3, <1>4, <1>5, <1>6, <1>7, BufsFrame
        DEF FlushSession, FlushAll, Tick

\* What is on the wire after a step was there or detached before it.
LEMMA CarriedGrows ==
  ASSUME IInv, [BatcherNext]_vars, NEW s \in Sessions, NEW w \in Carried(s)'
  PROVE  w \in Carried(s) \cup Entries(jobs[s])
<1>1. CASE UNCHANGED sent
  BY <1>1 DEF Carried
<1>2. ASSUME NEW t \in Sessions, Emit(t)
      PROVE  w \in Carried(s) \cup Entries(jobs[s])
  <2>1. PICK k \in 1..Len(jobs[t]) :
          sent' = [sent EXCEPT ![t] = Append(@, Packed(jobs[t], k, pieces))]
    BY <1>2, EmitFacts DEF IInv
  <2> DEFINE m == Packed(jobs[t], k, pieces)
  <2>2. jobs[t] \in Seq(Nat) /\ sent[t] \in Seq(Message)
    BY DEF IInv, TypeOK
  <2>3. m.data = SubSeq(jobs[t], 1, k)
    BY DEF Packed
  <2>4. Entries(m.data) \subseteq Entries(jobs[t])
    <3>1. ASSUME NEW i \in DOMAIN SubSeq(jobs[t], 1, k)
          PROVE  i \in DOMAIN jobs[t] /\ SubSeq(jobs[t], 1, k)[i] = jobs[t][i]
      BY <2>2
    <3> QED BY <2>3, <3>1 DEF Entries
  <2> HIDE DEF m
  <2>5. sent'[t] = Append(sent[t], m) /\ (s # t => sent'[s] = sent[s])
    BY <2>1 DEF m, IInv, TypeOK
  <2>6. CASE s # t
    BY <2>5, <2>6 DEF Carried
  <2>7. CASE s = t
    <3>1. PICK j \in DOMAIN sent'[t] : w \in Entries(sent'[t][j].data)
      BY <2>7 DEF Carried
    <3>2. CASE j \in DOMAIN sent[t]
      <4>1. sent'[t][j] = sent[t][j]
        BY <2>2, <2>5, <3>2
      <4> QED BY <2>7, <3>1, <3>2, <4>1 DEF Carried
    <3>3. CASE j = Len(sent[t]) + 1
      <4>1. sent'[t][j] = m
        BY <2>2, <2>5, <3>3
      <4> QED BY <2>4, <2>7, <3>1, <4>1
    <3> QED BY <2>2, <2>5, <3>1, <3>2, <3>3
  <2> QED BY <2>6, <2>7
<1> QED BY <1>1, <1>2, SentFrame
LEMMA HeldGrows ==
  ASSUME IInv, [BatcherNext]_vars, NEW s \in Sessions, NEW w \in Held(s)'
  PROVE  w \in Held(s) \/ (w = seq[s] /\ (AddContiguous(s) \/ Insert(s)))
<1>1. w \in Carried(s)' \/ w \in Entries(bufs'[s]) \cup Entries(jobs'[s])
  BY DEF Held, Entries
<1> QED BY <1>1, EntriesGrow, CarriedGrows DEF Held

\* Which steps move a reader.
LEMMA ReaderFrame ==
  [EgressNext]_allVars =>
    \/ UNCHANGED <<reader, seq>>
    \/ \E s \in Sessions :
         \/ ReadPTY(s) \/ DropOutput(s) \/ AddOutput(s)
         \/ Insert(s) /\ UNCHANGED egressVars
    \/ \E g \in Goroutines : Return(g) /\ UNCHANGED egressVars
BY DEF EgressNext, allVars, vars, lockVars, entryVars, CheckSubscribed,
       CheckLink, HistoryUnmute, PauseFlush, RefuseRequest, CreateSubscribe, Destroy,
       WaitExit, OnExit, ExitFlush, ExitReply, BatcherStep, HistorySeal,
       HistoryFlush, HistoryReply, HistoryEndFlush, HistoryEnd,
       HistorySubscribe, PauseMute, CreateStart, CreateFail, CreateReplyFlush,
       CreateReply, FinalReply, DestroyUnsubscribe, Takeover, TakeoverFlush,
       TakeoverReply, PeerOnline, PeerOffline, Kicked, PeerStep, Verify,
       RelayClosed, ReadLoopEnds, SetSecCode, RelayUnset, RelayCleanup,
       RelayUp, FlushBefore, FlushAll, Take, SealAt,
       Reset, FlushSession, Emit, Elapse, Tick, SealTake, SealTakeBy

\* A write is in hand after a step only if it was before, or sendOutput has
\* just found the session subscribed and not muted.
LEMMA HandStep ==
  ASSUME LinkInv, FlagsTyped, [EgressNext]_allVars,
         NEW s \in Sessions, InHand(s)'
  PROVE  \/ InHand(s) /\ seq'[s] = seq[s]
         \/ CheckSubscribed(s) /\ ~muted[s]
<1>0. /\ gate \in [Sessions -> {"checks", "subscribed", "open", "shut"}]
      /\ reader \in [Sessions -> Pcs] /\ seq \in [Sessions -> Nat]
      /\ LockInv
  BY DEF LinkInv, FlagsTyped, IInv, TypeOK
<1>1. ASSUME UNCHANGED <<reader, seq>>
      PROVE  \/ InHand(s) /\ seq'[s] = seq[s]
             \/ CheckSubscribed(s) /\ ~muted[s]
  <2>1. CASE UNCHANGED gate
    BY <1>1, <2>1 DEF InHand
  <2>2. ASSUME NEW t \in Sessions, ReadPTY(t) PROVE FALSE
    BY <1>0, <1>1, <2>2 DEF ReadPTY, Write
  <2>3. ASSUME NEW t \in Sessions, CheckSubscribed(t)
        PROVE  \/ InHand(s) /\ seq'[s] = seq[s]
               \/ CheckSubscribed(s) /\ ~muted[s]
    <3>1. CASE t = s
      BY <1>0, <1>1, <2>3, <3>1 DEF CheckSubscribed, WantsOutput, InHand
    <3>2. CASE t # s
      <4>1. gate'[s] = gate[s]
        BY <1>0, <2>3, <3>2 DEF CheckSubscribed
      <4> QED BY <1>1, <4>1 DEF InHand
    <3> QED BY <3>1, <3>2
  <2>4. ASSUME NEW t \in Sessions, CheckLink(t)
        PROVE  InHand(s) /\ seq'[s] = seq[s]
    <3>1. CASE t = s
      BY <1>0, <1>1, <2>4, <3>1 DEF CheckLink, InHand
    <3>2. CASE t # s
      <4>1. gate'[s] = gate[s]
        BY <1>0, <2>4, <3>2 DEF CheckLink
      <4> QED BY <1>1, <4>1 DEF InHand
    <3> QED BY <3>1, <3>2
  <2> QED BY <2>1, <2>2, <2>3, <2>4, GateFrame
<1>2. ASSUME NEW t \in Sessions, ReadPTY(t)
      PROVE  InHand(s) /\ seq'[s] = seq[s]
  <2>1. t # s
    BY <1>0, <1>2 DEF ReadPTY, Write, InHand
  <2>2. gate'[s] = gate[s] /\ reader'[s] = reader[s] /\ seq'[s] = seq[s]
    BY <1>0, <1>2, <2>1 DEF ReadPTY, Write
  <2> QED BY <2>2 DEF InHand
<1>3. ASSUME NEW t \in Sessions, DropOutput(t)
      PROVE  InHand(s) /\ seq'[s] = seq[s]
  <2>1. UNCHANGED <<gate, seq>> /\ reader' = [reader EXCEPT ![t] = "read"]
    BY <1>3 DEF DropOutput, Skip, egressVars
  <2> QED BY <1>0, <2>1 DEF InHand
<1>4. ASSUME NEW t \in Sessions, AddOutput(t)
      PROVE  InHand(s) /\ seq'[s] = seq[s]
  <2>1. /\ UNCHANGED <<gate, seq>> /\ reader[t] = "decide" /\ gate[t] = "open"
        /\ reader' \in {[reader EXCEPT ![t] = "read"],
                        [reader EXCEPT ![t] = "flush"]}
    BY <1>4 DEF AddOutput, AddContiguous, AddAfterGap, egressVars
  <2> QED BY <1>0, <2>1 DEF InHand
<1>5. ASSUME NEW t \in Sessions, Insert(t), UNCHANGED egressVars
      PROVE  InHand(s) /\ seq'[s] = seq[s]
  <2>1. UNCHANGED <<gate, seq>> /\ reader' = [reader EXCEPT ![t] = "read"]
    BY <1>5 DEF Insert, egressVars
  <2> QED BY <1>0, <2>1 DEF InHand
<1>6. ASSUME NEW g \in Goroutines, Return(g), UNCHANGED egressVars
      PROVE  InHand(s) /\ seq'[s] = seq[s]
  <2>1. UNCHANGED <<gate, seq>> /\ sendMu = g
    BY <1>6 DEF Return, egressVars
  <2>2. reader'[s] = IF s = g THEN "insert" ELSE reader[s]
    BY <1>6 DEF Return
  <2>3. s = g => reader[s] = "flush"
    BY <1>0, <2>1 DEF LockInv
  <2> QED BY <2>1, <2>2, <2>3 DEF InHand
<1> QED BY <1>1, <1>2, <1>3, <1>4, <1>5, <1>6, ReaderFrame

\* A write is only given to the batcher out of the reader's hand.
LEMMA AddInHand ==
  ASSUME LinkInv, [EgressNext]_allVars, NEW s \in Sessions,
         AddContiguous(s) \/ Insert(s)
  PROVE  InHand(s)
<1>0. /\ reader \in [Sessions -> Pcs] /\ bufs[s] \in Seq(Nat)
      /\ seq[s] \in Nat /\ LockInv
  BY DEF LinkInv, IInv, TypeOK
<1>1. CASE Insert(s)
  BY <1>1 DEF Insert, InHand
<1>2. CASE AddContiguous(s)
  <2>1. /\ reader[s] = "decide" /\ reader'[s] = "read"
        /\ bufs'[s] # bufs[s] /\ UNCHANGED seq
    <3>1. Len(bufs'[s]) = Len(bufs[s]) + 1 /\ Len(bufs[s]) \in Nat
      BY <1>0, <1>2 DEF AddContiguous, LinkInv, IInv, TypeOK
    <3>2. bufs'[s] # bufs[s]
      <4> SUFFICES ASSUME bufs'[s] = bufs[s] PROVE FALSE
        OBVIOUS
      <4>1. Len(bufs[s]) = Len(bufs[s]) + 1
        BY <3>1
      <4> QED BY <3>1, <4>1
    <3> QED BY <1>0, <1>2, <3>2 DEF AddContiguous
  <2>2. ASSUME NEW t \in Sessions, ReadPTY(t) PROVE FALSE
    BY <1>0, <2>1, <2>2 DEF ReadPTY, Write, LinkInv, IInv, TypeOK
  <2>3. ASSUME NEW t \in Sessions, DropOutput(t) PROVE FALSE
    BY <1>0, <2>1, <2>3 DEF DropOutput, Skip
  <2>4. ASSUME NEW t \in Sessions, AddOutput(t) PROVE InHand(s)
    <3>1. gate[t] = "open"
      BY <2>4 DEF AddOutput
    <3>2. \/ reader' = [reader EXCEPT ![t] = "read"]
          \/ reader' = [reader EXCEPT ![t] = "flush"]
      BY <2>4 DEF AddOutput, AddContiguous, AddAfterGap
    <3>3. t = s
      BY <1>0, <2>1, <3>2
    <3> QED BY <2>1, <3>1, <3>3 DEF InHand
  <2>5. ASSUME NEW t \in Sessions, Insert(t) PROVE FALSE
    BY <1>0, <2>1, <2>5 DEF Insert
  <2>6. ASSUME NEW g \in Goroutines, Return(g) PROVE FALSE
    BY <2>1, <2>6 DEF Return
  <2> QED BY <2>1, <2>2, <2>3, <2>4, <2>5, <2>6, ReaderFrame
<1> QED BY <1>1, <1>2
LEMMA MuteStep ==
  ASSUME TypesInv, MuteInv, [EgressNext]_allVars
  PROVE  MuteInv'
<1>0. /\ LinkInv /\ FlagsTyped /\ IInv /\ [BatcherNext]_vars
      /\ seq \in [Sessions -> Nat] /\ muted \in [Sessions -> BOOLEAN]
  BY LinkStep DEF TypesInv, LinkInv, FlagsTyped, IInv, TypeOK
<1> SUFFICES ASSUME NEW s \in Sessions, muted'[s]
             PROVE  /\ \A w \in Held(s)' : w <= mutedAt'[s]
                    /\ InHand(s)' => seq'[s] <= mutedAt'[s]
  BY DEF MuteInv
<1>1. CASE PauseMute
  <2>1. UNCHANGED <<seq, reader, bufs, jobs, sent, gate>>
    BY <1>1 DEF PauseMute, vars
  <2>2. Held(s)' = Held(s) /\ (InHand(s)' <=> InHand(s))
    BY <2>1 DEF Held, Carried, Entries, InHand
  <2>3. CASE muted[s]
    <3>1. mutedAt'[s] = mutedAt[s]
      BY <1>1, <2>3 DEF PauseMute
    <3> QED BY <2>1, <2>2, <2>3, <3>1 DEF MuteInv
  <2>4. CASE ~muted[s]
    <3>1. mutedAt'[s] = seq[s]
      BY <1>1, <2>4 DEF PauseMute
    <3>2. seq[s] <= seq[s]
      BY <1>0
    <3> QED BY <1>0, <2>1, <2>2, <3>1, <3>2, HeldBounded
  <2> QED BY <2>3, <2>4
<1>2. CASE ~PauseMute
  <2>1. muted[s] /\ mutedAt' = mutedAt
    BY <1>0, <1>2, MutedFrame
  <2>2. /\ \A w \in Held(s) : w <= mutedAt[s]
        /\ InHand(s) => seq[s] <= mutedAt[s]
    BY <2>1 DEF MuteInv
  <2>3. ASSUME NEW w \in Held(s)' PROVE w <= mutedAt'[s]
    <3>1. CASE w \in Held(s)
      BY <2>1, <2>2, <3>1
    <3>2. CASE w = seq[s] /\ (AddContiguous(s) \/ Insert(s))
      BY <1>0, <2>1, <2>2, <3>2, AddInHand
    <3> QED BY <1>0, <3>1, <3>2, HeldGrows
  <2>4. ASSUME InHand(s)' PROVE seq'[s] <= mutedAt'[s]
    <3>1. InHand(s) /\ seq'[s] = seq[s]
      BY <1>0, <2>1, <2>4, HandStep
    <3> QED BY <2>1, <2>2, <3>1
  <2> QED BY <2>3, <2>4
<1> QED BY <1>1, <1>2

LEMMA MuteInit == EgressInit => MuteInv
BY DEF EgressInit, MuteInv

\* Once a session is muted nothing numbered later reaches the batcher or the
\* channel until it is unmuted, whatever else goes on (sendOutput's checks).
THEOREM MuteHolds == EgressSpec => []MuteStopsOutput
<1>1. TypesInv /\ MuteInv /\ [EgressNext]_allVars => TypesInv' /\ MuteInv'
  BY TypesStep, MuteStep
<1>2. MuteInv => MuteStopsOutput
  BY DEF MuteInv, MuteStopsOutput, Held
<1> QED BY <1>1, <1>2, TypesInit, MuteInit, PTL DEF EgressSpec
-----------------------------------------------------------------------------
(* Where the handlers stand, and what that says of the session's PTY.      *)

\* create_session works on a PTY that does not exist yet, destroy_session and
\* the waiter on one that is closed; a closed PTY with a read to come has no
\* write in the reader's hands; tsRelayLoop waits while the relay is up.
PlaceInv ==
  /\ \A s \in Sessions : pty[s] = "none" => seq[s] = 0
  /\ \A s \in Sessions : pty[s] = "last" => reader[s] = "read"
  /\ At(Remote, "create") => pty[op[Remote].s] = "none"
  /\ At(Remote, "destroyed") => pty[op[Remote].s] \in {"last", "dead"}
  /\ At(Remote, "seal") => ~muted[op[Remote].s]
  /\ relay = "up" => tsLoop = "waits"
  /\ \A s \in Sessions : ~At(Waiter[s], "idle") => pty[s] \in {"last", "dead"}

\* What cuts the app off: it expects nothing any more.
CutOff == \/ Takeover \/ PeerOnline \/ PeerOffline \/ Kicked
          \/ SetSecCode \/ RelayClosed \/ ReadLoopEnds

\* A handler that proceeds or ends.
LEMMA OpMoves ==
  ASSUME HandlersTyped, NEW c \in Clients, NEW where, Move(c, where)
  PROVE  /\ op'[c].at = where /\ op'[c].s = op[c].s /\ op'[c].h = op[c].h
         /\ \A d \in Clients \ {c} : op'[d] = op[d]
<1>1. op[c] \in [at : Places, s : Sessions \cup {NoOne}, h : Nat]
  BY DEF HandlersTyped
<1>2. op' = [op EXCEPT ![c] = [op[c] EXCEPT !.at = where]]
  BY DEF Move
<1>3. op'[c] = [op[c] EXCEPT !.at = where]
  BY <1>2 DEF HandlersTyped
<1> QED BY <1>1, <1>2, <1>3 DEF HandlersTyped

LEMMA OpEnds ==
  ASSUME HandlersTyped, NEW c \in Clients, Done(c)
  PROVE  /\ op'[c].at = "idle"
         /\ \A d \in Clients \ {c} : op'[d] = op[d]
BY DEF HandlersTyped, Done, Idle

LEMMA OpBegins ==
  ASSUME HandlersTyped, NEW where, NEW s \in Sessions, Begin(where, s)
  PROVE  /\ op[Remote].at = "idle"
         /\ op'[Remote].at = where /\ op'[Remote].s = s
         /\ \A d \in Clients \ {Remote} : op'[d] = op[d]
<1>1. Remote \in Clients
  BY EgressAssumption
<1> QED BY <1>1 DEF HandlersTyped, Begin, Reads, At

\* What HistorySeal does to its handler.
LEMMA SealMoves ==
  ASSUME HandlersTyped, HistorySeal
  PROVE  /\ op'[Remote].at = "sealed" /\ op'[Remote].s = op[Remote].s
         /\ op'[Remote].h = HistorySeq(op[Remote].s)
         /\ \A d \in Clients \ {Remote} : op'[d] = op[d]
<1> DEFINE o == [op[Remote] EXCEPT !.at = "sealed",
                                   !.h = HistorySeq(op[Remote].s)]
<1>1. Remote \in Clients
  BY EgressAssumption
<1>2. op[Remote] \in [at : Places, s : Sessions \cup {NoOne}, h : Nat]
  BY <1>1 DEF HandlersTyped
<1>3. op' = [op EXCEPT ![Remote] = o]
  BY <1>1 DEF HistorySeal, HandlersTyped
<1>4. o.at = "sealed" /\ o.s = op[Remote].s /\ o.h = HistorySeq(op[Remote].s)
  BY <1>2
<1> HIDE DEF o
<1> QED BY <1>1, <1>3, <1>4 DEF HandlersTyped

\* The steps of the app's handler that start, and those that go on.
RemoteStarts(s) ==
  \/ HistoryUnmute(s) \/ PauseFlush(s) \/ CreateSubscribe(s) \/ Destroy(s)
  \/ RefuseRequest(s)
RemoteGoesOn ==
  \/ HistorySeal \/ HistoryFlush \/ HistoryReply
  \/ HistoryEndFlush \/ HistoryEnd \/ HistorySubscribe \/ PauseMute
  \/ CreateStart \/ CreateFail \/ CreateReplyFlush \/ CreateReply
  \/ DestroyUnsubscribe

LEMMA OpOf ==
  [EgressNext]_allVars =>
    \/ UNCHANGED op
    \/ \E s \in Sessions : \/ WaitExit(s) \/ OnExit(s) \/ ExitFlush(s)
                           \/ ExitReply(s) \/ RemoteStarts(s)
    \/ RemoteGoesOn
    \/ Takeover \/ TakeoverFlush \/ TakeoverReply
BY DEF EgressNext, RemoteStarts, RemoteGoesOn, allVars, egressVars, ReadPTY,
       CheckSubscribed, CheckLink, DropOutput, AddOutput, BatcherStep,
       PeerOnline, PeerOffline, Kicked, PeerStep, Verify, RelayClosed,
       ReadLoopEnds, SetSecCode, RelayUnset,
       RelayCleanup, RelayUp

\* Which steps move the handler of the app's requests, and where to.
LEMMA RemoteStep ==
  ASSUME HandlersTyped, [EgressNext]_allVars
  PROVE  \/ op'[Remote] = op[Remote]
         \/ \E s \in Sessions :
              /\ RemoteStarts(s) /\ op[Remote].at = "idle"
              /\ op'[Remote].at \in {"seal", "mute", "create", "destroyed",
                                     "error_flush"}
              /\ op'[Remote].s = s
              /\ (op'[Remote].at = "seal") <=> HistoryUnmute(s)
              /\ (op'[Remote].at = "create") <=> CreateSubscribe(s)
              /\ (op'[Remote].at = "destroyed") <=> Destroy(s)
         \/ /\ RemoteGoesOn /\ op[Remote].at # "idle"
            /\ op'[Remote].at \notin {"seal", "mute", "create", "destroyed"}
<1> USE EgressAssumption
<1>1. Remote \in Clients /\ Local \in Clients /\ Remote # Local
      /\ \A s \in Sessions : Waiter[s] \in Clients \ {Remote, Local}
  OBVIOUS
<1>2. ASSUME NEW s \in Sessions,
             WaitExit(s) \/ OnExit(s) \/ ExitFlush(s) \/ ExitReply(s)
      PROVE  op'[Remote] = op[Remote]
  <2>1. CASE WaitExit(s)
    BY <1>1, <2>1 DEF WaitExit, HandlersTyped
  <2>2. ASSUME NEW where, Move(Waiter[s], where) PROVE op'[Remote] = op[Remote]
    BY <1>1, <2>2, OpMoves
  <2> QED BY <1>2, <2>1, <2>2 DEF OnExit, ExitFlush, FlushBefore, ExitReply
<1>3. CASE Takeover \/ TakeoverFlush \/ TakeoverReply
  <2>1. ASSUME NEW where, Move(Local, where) PROVE op'[Remote] = op[Remote]
    BY <1>1, <2>1, OpMoves
  <2>2. CASE Done(Local)
    BY <1>1, <2>2, OpEnds
  <2> QED BY <1>3, <2>1, <2>2 DEF Takeover, TakeoverFlush, FlushBefore,
                                  TakeoverReply
<1>4. ASSUME NEW s \in Sessions, RemoteStarts(s)
      PROVE  /\ op[Remote].at = "idle" /\ op'[Remote].s = s
             /\ op'[Remote].at \in {"seal", "mute", "create", "destroyed",
                                    "error_flush"}
             /\ (op'[Remote].at = "seal") <=> HistoryUnmute(s)
             /\ (op'[Remote].at = "create") <=> CreateSubscribe(s)
             /\ (op'[Remote].at = "destroyed") <=> Destroy(s)
  <2>1. /\ HistoryUnmute(s) => Begin("seal", s)
        /\ PauseFlush(s) => Begin("mute", s)
        /\ CreateSubscribe(s) => Begin("create", s)
        /\ Destroy(s) => Begin("destroyed", s)
        /\ RefuseRequest(s) => Begin("error_flush", s)
    BY DEF HistoryUnmute, PauseFlush, RefuseRequest, CreateSubscribe, Destroy
  <2>2. ASSUME NEW where, Begin(where, s)
        PROVE  /\ op[Remote].at = "idle" /\ op'[Remote].s = s
               /\ op'[Remote].at = where
    BY <2>2, OpBegins
  <2> QED BY <1>4, <2>1, <2>2 DEF RemoteStarts
<1>5. CASE RemoteGoesOn
  <2>1. op[Remote].at # "idle"
    BY <1>5 DEF RemoteGoesOn, HistorySeal, HistoryFlush, HistoryReply,
       HistoryEndFlush, HistoryEnd, HistorySubscribe, PauseMute, CreateStart,
       CreateFail, CreateReplyFlush, CreateReply, DestroyUnsubscribe,
       FinalReply, FlushBefore, Ready, At
  <2>2. \/ HistorySeal \/ Done(Remote)
        \/ \E where \in Places \ {"seal", "mute", "create", "destroyed"} :
             Move(Remote, where)
    BY <1>5 DEF RemoteGoesOn, HistoryFlush, HistoryReply, Places,
       HistoryEndFlush, HistoryEnd, HistorySubscribe, PauseMute, CreateStart,
       CreateFail, CreateReplyFlush, CreateReply, DestroyUnsubscribe,
       FinalReply, FlushBefore
  <2>3. op'[Remote].at \notin {"seal", "mute", "create", "destroyed"}
    BY <1>1, <2>2, SealMoves, OpMoves, OpEnds
  <2> QED BY <1>5, <2>1, <2>3
<1> QED BY <1>2, <1>3, <1>4, <1>5, OpOf

\* Which steps move the waiter of s.
LEMMA WaiterStep ==
  ASSUME HandlersTyped, [EgressNext]_allVars, NEW s \in Sessions
  PROVE  \/ op'[Waiter[s]] = op[Waiter[s]]
         \/ WaitExit(s) /\ op'[Waiter[s]].at = "on_exit"
         \/ OnExit(s) /\ op'[Waiter[s]].at = "exit_flush"
         \/ ExitFlush(s) /\ op'[Waiter[s]].at = "session_exit"
         \/ ExitReply(s) /\ op'[Waiter[s]].at = "gone"
<1> USE EgressAssumption
<1>1. /\ Remote \in Clients /\ Local \in Clients
      /\ Waiter[s] \in Clients \ {Remote, Local}
  OBVIOUS
<1>2. ASSUME NEW t \in Sessions,
             WaitExit(t) \/ OnExit(t) \/ ExitFlush(t) \/ ExitReply(t)
      PROVE  \/ op'[Waiter[s]] = op[Waiter[s]]
             \/ WaitExit(s) /\ op'[Waiter[s]].at = "on_exit"
             \/ OnExit(s) /\ op'[Waiter[s]].at = "exit_flush"
             \/ ExitFlush(s) /\ op'[Waiter[s]].at = "session_exit"
             \/ ExitReply(s) /\ op'[Waiter[s]].at = "gone"
  <2>0. Waiter[t] \in Clients /\ (t # s => Waiter[t] # Waiter[s])
    OBVIOUS
  <2>1. CASE WaitExit(t)
    BY <2>0, <2>1, <1>1 DEF WaitExit, HandlersTyped
  <2>2. /\ OnExit(t) => Move(Waiter[t], "exit_flush")
        /\ ExitFlush(t) => Move(Waiter[t], "session_exit")
        /\ ExitReply(t) => Move(Waiter[t], "gone")
    BY DEF OnExit, ExitFlush, FlushBefore, ExitReply
  <2>3. ASSUME NEW where, Move(Waiter[t], where)
        PROVE  /\ t # s => op'[Waiter[s]] = op[Waiter[s]]
               /\ t = s => op'[Waiter[s]].at = where
    BY <1>1, <2>0, <2>3, OpMoves
  <2> QED BY <1>2, <2>1, <2>2, <2>3
<1>3. CASE Takeover \/ TakeoverFlush \/ TakeoverReply
  <2>1. ASSUME NEW where, Move(Local, where)
        PROVE  op'[Waiter[s]] = op[Waiter[s]]
    BY <1>1, <2>1, OpMoves
  <2>2. CASE Done(Local)
    BY <1>1, <2>2, OpEnds
  <2> QED BY <1>3, <2>1, <2>2 DEF Takeover, TakeoverFlush, FlushBefore,
                                  TakeoverReply
<1>4. ASSUME NEW t \in Sessions, RemoteStarts(t)
      PROVE  op'[Waiter[s]] = op[Waiter[s]]
  <2>1. \E where \in Places : Begin(where, t)
    BY <1>4 DEF RemoteStarts, HistoryUnmute, PauseFlush, RefuseRequest, CreateSubscribe,
                Destroy, Places
  <2> QED BY <1>1, <2>1, OpBegins
<1>5. CASE RemoteGoesOn
  <2>1. \/ HistorySeal \/ Done(Remote)
        \/ \E where \in Places : Move(Remote, where)
    BY <1>5 DEF RemoteGoesOn, HistoryFlush, HistoryReply, Places,
       HistoryEndFlush, HistoryEnd, HistorySubscribe, PauseMute, CreateStart,
       CreateFail, CreateReplyFlush, CreateReply, DestroyUnsubscribe,
       FinalReply, FlushBefore
  <2> QED BY <1>1, <2>1, SealMoves, OpMoves, OpEnds
<1> QED BY <1>2, <1>3, <1>4, <1>5, OpOf

\* Only ReadPTY takes the next number, and only it leaves "read".
LEMMA ReadStep ==
  ASSUME LinkInv, [EgressNext]_allVars, NEW s \in Sessions
  PROVE  \/ ReadPTY(s)
         \/ /\ seq'[s] = seq[s]
            /\ reader[s] = "read" => reader'[s] = "read"
<1>0. reader \in [Sessions -> Pcs] /\ seq \in [Sessions -> Nat] /\ LockInv
  BY DEF LinkInv, IInv, TypeOK
<1>1. ASSUME NEW t \in Sessions, t # s, ReadPTY(t)
      PROVE  seq'[s] = seq[s] /\ reader'[s] = reader[s]
  BY <1>0, <1>1 DEF ReadPTY, Write
<1>2. ASSUME NEW t \in Sessions, DropOutput(t) \/ AddOutput(t) \/ Insert(t)
      PROVE  seq'[s] = seq[s] /\ (reader[s] = "read" => reader'[s] = "read")
  BY <1>0, <1>2 DEF DropOutput, Skip, AddOutput, AddContiguous, AddAfterGap,
                    Insert
<1>3. ASSUME NEW g \in Goroutines, Return(g)
      PROVE  seq'[s] = seq[s] /\ (reader[s] = "read" => reader'[s] = "read")
  BY <1>0, <1>3 DEF Return, LockInv
<1> QED BY <1>1, <1>2, <1>3, ReaderFrame

\* The life of the PTY of s, and who takes it on.
LEMMA PtyStep ==
  ASSUME LinkInv, PlaceInv, [EgressNext]_allVars, NEW s \in Sessions
  PROVE  \/ pty'[s] = pty[s]
         \/ CreateStart /\ op[Remote].s = s /\ pty[s] = "none"
            /\ pty'[s] = "running"
         \/ /\ Destroy(s) \/ WaitExit(s)
            /\ pty[s] = "running" /\ pty'[s] \in {"last", "dead"}
            /\ pty'[s] = "last" => reader'[s] = "read"
         \/ ReadPTY(s) /\ pty[s] = "last" /\ pty'[s] = "dead"
<1>0. /\ pty \in [Sessions -> {"none", "running", "last", "dead"}]
      /\ Remote \in Clients
  BY EgressAssumption DEF LinkInv, HandlersTyped
<1>1. CASE CreateStart
  <2>1. At(Remote, "create")
    BY <1>1 DEF CreateStart, Ready
  <2>2. op[Remote].s \in Sessions
    BY <1>0, <2>1 DEF At, LinkInv, Named
  <2>3. pty[op[Remote].s] = "none"
    BY <2>1 DEF PlaceInv
  <2>4. pty' = [pty EXCEPT ![op[Remote].s] = "running"]
    BY <1>1 DEF CreateStart
  <2> QED BY <1>0, <1>1, <2>2, <2>3, <2>4
<1>2. ASSUME NEW t \in Sessions, ReadPTY(t)
      PROVE  \/ pty'[s] = pty[s]
             \/ ReadPTY(s) /\ pty[s] = "last" /\ pty'[s] = "dead"
  BY <1>0, <1>2 DEF ReadPTY
<1>3. ASSUME NEW t \in Sessions, ClosePTY(t), pty[t] = "running",
             UNCHANGED reader
      PROVE  \/ pty'[s] = pty[s]
             \/ /\ s = t /\ pty[s] = "running" /\ pty'[s] \in {"last", "dead"}
                /\ pty'[s] = "last" => reader'[s] = "read"
  BY <1>0, <1>3 DEF ClosePTY
<1>4. ASSUME NEW t \in Sessions, Destroy(t) \/ WaitExit(t)
      PROVE  \/ UNCHANGED pty
             \/ ClosePTY(t) /\ pty[t] = "running" /\ UNCHANGED reader
  BY <1>4 DEF Destroy, WaitExit, vars
<1> QED BY <1>1, <1>2, <1>3, <1>4, PtyFrame

\* Who changes the link.
LEMMA LinkKept ==
  [EgressNext]_allVars =>
    \/ UNCHANGED <<verified, relay, tsLoop>>
    \/ PeerOnline \/ SetSecCode \/ RelayClosed \/ ReadLoopEnds
    \/ Verify \/ RelayCleanup \/ RelayUnset \/ RelayUp
BY DEF EgressNext, allVars, egressVars, link, ReadPTY, CheckSubscribed,
     CheckLink, DropOutput, AddOutput, HistoryUnmute, PauseFlush,
     RefuseRequest, CreateSubscribe, Destroy, WaitExit, OnExit, ExitFlush,
     ExitReply, BatcherStep, HistorySeal, HistoryFlush, HistoryReply,
     HistoryEndFlush, HistoryEnd, HistorySubscribe, PauseMute, CreateStart,
     CreateFail, CreateReplyFlush, CreateReply, FinalReply,
     DestroyUnsubscribe, Takeover, TakeoverFlush, TakeoverReply, PeerOffline,
     Kicked, PeerStep

LEMMA PlaceInit == EgressInit => PlaceInv
<1> SUFFICES ASSUME EgressInit PROVE PlaceInv
  OBVIOUS
<1>1. /\ \A s \in Sessions : seq[s] = 0 /\ reader[s] = "read"
      /\ tsLoop = "waits"
  BY DEF EgressInit, BatcherInit
<1>2. \A c \in Clients : op[c].at = "idle"
  BY DEF EgressInit, Idle
<1>3. Remote \in Clients /\ \A s \in Sessions : Waiter[s] \in Clients
  BY EgressAssumption
<1> QED BY <1>1, <1>2, <1>3 DEF PlaceInv, At

LEMMA PlaceStep ==
  ASSUME TypesInv, PlaceInv, [EgressNext]_allVars
  PROVE  PlaceInv'
<1>0. /\ LinkInv /\ HandlersTyped /\ Named /\ Remote \in Clients
      /\ muted \in [Sessions -> BOOLEAN]
      /\ pty \in [Sessions -> {"none", "running", "last", "dead"}]
  BY EgressAssumption DEF TypesInv, LinkInv, HandlersTyped, FlagsTyped
<1>1. ASSUME NEW s \in Sessions
      PROVE  /\ pty'[s] = "none" => seq'[s] = 0
             /\ pty'[s] = "last" => reader'[s] = "read"
             /\ ~At(Waiter[s], "idle")' => pty'[s] \in {"last", "dead"}
  <2>1. ReadPTY(s) => pty[s] \in {"running", "last"}
                      /\ (pty[s] = "last" => pty'[s] = "dead")
    BY <1>0 DEF ReadPTY
  <2>2. ASSUME pty'[s] = "none" PROVE seq'[s] = 0
    <3>1. pty[s] = "none" /\ pty'[s] = pty[s]
      BY <1>0, <2>2, PtyStep
    <3> QED BY <1>0, <2>1, <3>1, ReadStep DEF PlaceInv
  <2>3. ASSUME pty'[s] = "last" PROVE reader'[s] = "read"
    BY <1>0, <2>1, <2>3, ReadStep, PtyStep DEF PlaceInv
  <2>4. ASSUME ~At(Waiter[s], "idle")' PROVE pty'[s] \in {"last", "dead"}
    <3>1. op'[Waiter[s]].at # "idle"
      BY <2>4 DEF At
    <3>2. op[Waiter[s]].at # "idle" \/ WaitExit(s)
      BY <1>0, <3>1, WaiterStep DEF OnExit, ExitFlush, FlushBefore, ExitReply,
                                    Ready, At
    <3>3. CASE op[Waiter[s]].at # "idle"
      <4>1. pty[s] \in {"last", "dead"}
        BY <3>3 DEF PlaceInv, At
      <4> QED BY <1>0, <4>1, PtyStep
    <3>4. CASE WaitExit(s)
      <4>1. pty[s] # "none" /\ (pty[s] = "running" => ClosePTY(s))
            /\ (pty[s] # "running" => UNCHANGED pty)
        BY <3>4 DEF WaitExit
      <4>2. ClosePTY(s) => pty'[s] \in {"last", "dead"}
        BY <1>0 DEF ClosePTY
      <4> QED BY <1>0, <4>1, <4>2
    <3> QED BY <3>2, <3>3, <3>4
  <2> QED BY <2>2, <2>3, <2>4
<1>2. ASSUME op'[Remote].at = "create" PROVE pty'[op'[Remote].s] = "none"
  <2>1. CASE op'[Remote] = op[Remote]
    <3>1. op[Remote].s \in Sessions /\ pty[op[Remote].s] = "none"
      BY <1>0, <1>2, <2>1 DEF PlaceInv, At, Named
    <3>2. ~CreateStart
      <4>1. CreateStart => Move(Remote, "created_flush")
        BY DEF CreateStart
      <4>2. Move(Remote, "created_flush") => op'[Remote].at = "created_flush"
        BY <1>0, OpMoves
      <4> QED BY <1>2, <4>1, <4>2
    <3> QED BY <1>0, <2>1, <3>1, <3>2, PtyStep
  <2>2. CASE op'[Remote] # op[Remote]
    <3>1. PICK s \in Sessions : CreateSubscribe(s) /\ op'[Remote].s = s
      BY <1>0, <1>2, <2>2, RemoteStep
    <3> QED BY <3>1 DEF CreateSubscribe
  <2> QED BY <2>1, <2>2
<1>3. ASSUME op'[Remote].at = "destroyed"
      PROVE  pty'[op'[Remote].s] \in {"last", "dead"}
  <2>1. CASE op'[Remote] = op[Remote]
    <3>1. op[Remote].s \in Sessions /\ pty[op[Remote].s] \in {"last", "dead"}
      BY <1>0, <1>3, <2>1 DEF PlaceInv, At, Named
    <3> QED BY <1>0, <2>1, <3>1, PtyStep
  <2>2. CASE op'[Remote] # op[Remote]
    <3>1. PICK s \in Sessions : Destroy(s) /\ op'[Remote].s = s
      BY <1>0, <1>3, <2>2, RemoteStep
    <3>2. ClosePTY(s)
      BY <3>1 DEF Destroy
    <3> QED BY <1>0, <3>1, <3>2 DEF ClosePTY
  <2> QED BY <2>1, <2>2
<1>4. ASSUME op'[Remote].at = "seal" PROVE ~muted'[op'[Remote].s]
  <2>1. CASE op'[Remote] = op[Remote]
    <3>1. op[Remote].s \in Sessions /\ ~muted[op[Remote].s]
      BY <1>0, <1>4, <2>1 DEF PlaceInv, At, Named
    <3>2. ~PauseMute
      BY <1>4, <2>1 DEF PauseMute, Ready, At
    <3> QED BY <1>0, <2>1, <3>1, <3>2, MutedFrame
  <2>2. CASE op'[Remote] # op[Remote]
    <3>1. PICK s \in Sessions : HistoryUnmute(s) /\ op'[Remote].s = s
      BY <1>0, <1>4, <2>2, RemoteStep
    <3> QED BY <1>0, <3>1 DEF HistoryUnmute, UnmutePush
  <2> QED BY <2>1, <2>2
<1>5. relay' = "up" => tsLoop' = "waits"
  BY LinkKept DEF PlaceInv, PeerOnline, PeerStep, SetSecCode, RelayClosed,
     ReadLoopEnds, Verify, RelayCleanup, RelayUnset, RelayUp
<1> QED BY <1>1, <1>2, <1>3, <1>4, <1>5 DEF PlaceInv, At
-----------------------------------------------------------------------------
(* What the app may expect is not dropped.                                 *)

\* Whoever is owed the writes from a point on has a running session, a verified
\* link, and, when attached, a subscription that is not muted; the write in the
\* reader's hands, once shut out, and every write dropped lie before the point.
GapInv ==
  /\ expects \in [Sessions -> SUBSET [h : Nat, attached : BOOLEAN]]
  /\ \A s \in Sessions : \A w \in lost[s] : w <= seq[s]
  /\ \A s \in Sessions : expects[s] # {} =>
       pty[s] = "running" /\ verified /\ relay = "up"
  /\ \A s \in Sessions : \A e \in expects[s] : e.attached =>
       /\ subscribed[s] /\ ~muted[s]
       /\ reader[s] = "decide" /\ gate[s] = "shut" => seq[s] <= e.h
       /\ \A w \in lost[s] : w <= e.h

LEMMA ExpectsFrame ==
  [EgressNext]_allVars =>
    \/ UNCHANGED expects
    \/ HistorySeal \/ PauseMute \/ CreateStart \/ CutOff
    \/ \E s \in Sessions : Destroy(s) \/ WaitExit(s)
BY DEF EgressNext, CutOff, allVars, egressVars, told, ReadPTY,
       CheckSubscribed, CheckLink, DropOutput, AddOutput, HistoryUnmute,
       PauseFlush, RefuseRequest, CreateSubscribe, OnExit, ExitFlush, ExitReply,
       BatcherStep, HistoryFlush, HistoryReply, HistoryEndFlush,
       HistoryEnd, HistorySubscribe, CreateFail, CreateReplyFlush, CreateReply,
       FinalReply, DestroyUnsubscribe, TakeoverFlush, TakeoverReply, Verify,
       RelayCleanup, RelayUnset, RelayUp

\* What is expected after a step was expected before, and the step was none
\* that ends it; or the step hands out the point from which all is expected.
LEMMA ExpectsStep ==
  ASSUME TypesInv, GapInv, [EgressNext]_allVars, NEW s \in Sessions,
         NEW e \in expects'[s]
  PROVE  \/ /\ e \in expects[s]
            /\ ~CutOff /\ ~Destroy(s) /\ ~WaitExit(s)
            /\ PauseMute => muted'[s] = muted[s]
         \/ HistorySeal /\ op[Remote].s = s /\ pty[s] = "running" /\ Reachable
            /\ e = [h |-> seq[s], attached |-> subscribed[s]]
         \/ CreateStart /\ op[Remote].s = s /\ subscribed[s] /\ ~muted[s]
            /\ Reachable /\ e = [h |-> 0, attached |-> TRUE]
<1>0. /\ \A t \in Sessions : t \in DOMAIN expects
      /\ DOMAIN expects = Sessions /\ muted \in [Sessions -> BOOLEAN]
  BY DEF GapInv, TypesInv, FlagsTyped
<1>1. ~CutOff
  <2>1. CutOff => expects' = Nobody
    BY DEF CutOff, Takeover, PeerOnline, PeerOffline, Kicked, PeerStep,
           SetSecCode, RelayClosed, ReadLoopEnds
  <2> QED BY <2>1 DEF Nobody
<1>2. ~Destroy(s) /\ ~WaitExit(s)
  BY DEF Destroy, WaitExit, GapInv
<1>3. ASSUME NEW t \in Sessions, t # s, Destroy(t) \/ WaitExit(t)
      PROVE  e \in expects[s] /\ ~PauseMute
  <2>1. e \in expects[s]
    BY <1>3 DEF Destroy, WaitExit, GapInv
  <2>2. op'[Remote].at = "destroyed" \/ op'[Remote] = op[Remote]
    <3>1. CASE Destroy(t)
      BY <3>1, OpBegins DEF Destroy, TypesInv, LinkInv
    <3>2. CASE WaitExit(t)
      <4>1. Waiter[t] \in Clients \ {Remote}
        BY EgressAssumption
      <4> QED BY <3>2, <4>1, EgressAssumption
              DEF WaitExit, TypesInv, LinkInv, HandlersTyped
    <3> QED BY <1>3, <3>1, <3>2
  <2>3. ~PauseMute
    <3>1. PauseMute => Done(Remote) /\ op[Remote].at = "mute"
      BY DEF PauseMute, Ready, At
    <3>2. Done(Remote) => op'[Remote].at = "idle"
      BY EgressAssumption, OpEnds DEF TypesInv, LinkInv
    <3> QED BY <2>2, <3>1, <3>2
  <2> QED BY <2>1, <2>3
<1>4. CASE PauseMute
  <2>1. PICK Targets : /\ muted' = [t \in Sessions |-> muted[t] \/ t \in Targets]
                       /\ expects' = [t \in Sessions |->
                            IF t \in Targets THEN {} ELSE expects[t]]
    BY <1>4 DEF PauseMute
  <2>2. s \notin Targets
    BY <2>1
  <2>3. muted'[s] = muted[s]
    BY <1>0, <2>1, <2>2
  <2> QED BY <1>1, <1>2, <2>1, <2>2, <2>3
<1>5. CASE HistorySeal /\ ~PauseMute
  <2>1. op[Remote].s \in Sessions
    BY <1>5, EgressAssumption DEF HistorySeal, Ready, At, TypesInv, LinkInv, Named
  <2>2. PICK t \in Sessions : t = op[Remote].s
    BY <2>1
  <2>3. expects' = [expects EXCEPT ![t] = IF pty[t] = "running" /\ Reachable
                      THEN {[h |-> snapshot', attached |-> subscribed[t]]} ELSE @]
        /\ (pty[t] = "running" => snapshot' = seq[t])
    BY <1>5, <2>2 DEF HistorySeal
  <2>4. CASE t = s /\ pty[t] = "running" /\ Reachable
    BY <1>0, <1>5, <2>2, <2>3, <2>4
  <2>5. CASE ~(t = s /\ pty[t] = "running" /\ Reachable)
    <3>1. e \in expects[s]
      BY <1>0, <2>3, <2>5
    <3> QED BY <1>1, <1>2, <1>5, <3>1
  <2> QED BY <2>4, <2>5
<1>6. CASE CreateStart /\ ~PauseMute
  <2>1. op[Remote].s \in Sessions
    BY <1>6, EgressAssumption DEF CreateStart, Ready, At, TypesInv, LinkInv, Named
  <2>2. PICK t \in Sessions : t = op[Remote].s
    BY <2>1
  <2>3. expects' = [expects EXCEPT ![t] = IF subscribed[t] /\ ~muted[t] /\ Reachable
                      THEN {[h |-> 0, attached |-> TRUE]} ELSE {}]
    BY <1>6, <2>2 DEF CreateStart
  <2>4. CASE t = s
    BY <1>0, <1>6, <2>2, <2>3, <2>4
  <2>5. CASE t # s
    <3>1. e \in expects[s]
      BY <1>0, <2>3, <2>5
    <3> QED BY <1>1, <1>2, <1>6, <3>1
  <2> QED BY <2>4, <2>5
<1>7. CASE UNCHANGED expects /\ ~PauseMute
  BY <1>1, <1>2, <1>7
<1> QED BY <1>1, <1>2, <1>3, <1>4, <1>5, <1>6, <1>7, ExpectsFrame

LEMMA ExpectsTyped ==
  ASSUME TypesInv, GapInv, [EgressNext]_allVars
  PROVE  expects' \in [Sessions -> SUBSET [h : Nat, attached : BOOLEAN]]
<1> DEFINE Owed == [h : Nat, attached : BOOLEAN]
<1>0. /\ expects \in [Sessions -> SUBSET Owed]
      /\ subscribed \in [Sessions -> BOOLEAN] /\ seq \in [Sessions -> Nat]
      /\ TypeOK
  BY DEF GapInv, TypesInv, FlagsTyped, LinkInv, IInv, TypeOK
<1>1. ASSUME NEW s \in Sessions, Destroy(s) \/ WaitExit(s)
      PROVE  expects' \in [Sessions -> SUBSET Owed]
  BY <1>0, <1>1 DEF Destroy, WaitExit
<1>2. CASE CutOff
  BY <1>2 DEF CutOff, Takeover, PeerOnline, PeerOffline, Kicked, PeerStep,
              RelayClosed, ReadLoopEnds, SetSecCode, RelayUnset, Nobody
<1>3. CASE PauseMute
  BY <1>0, <1>3 DEF PauseMute
<1>4. CASE CreateStart
  <2>1. [h |-> 0, attached |-> TRUE] \in Owed
    OBVIOUS
  <2> QED BY <1>0, <1>4, <2>1 DEF CreateStart
<1>5. CASE HistorySeal
  <2>1. op[Remote].s \in Sessions
    BY <1>5, EgressAssumption DEF HistorySeal, Ready, At, TypesInv, LinkInv, Named
  <2>2. PICK t \in Sessions : t = op[Remote].s
    BY <2>1
  <2>3. expects' = [expects EXCEPT ![t] = IF pty[t] = "running" /\ Reachable
                      THEN {[h |-> snapshot', attached |-> subscribed[t]]} ELSE @]
        /\ (pty[t] = "running" => snapshot' = seq[t])
    BY <1>5, <2>2 DEF HistorySeal
  <2>4. pty[t] = "running" =>
          [h |-> snapshot', attached |-> subscribed[t]] \in Owed
    BY <1>0, <2>3
  <2> QED BY <1>0, <2>3, <2>4
<1> QED BY <1>0, <1>1, <1>2, <1>3, <1>4, <1>5, ExpectsFrame

\* Only sendOutput's refusal and a reset of the batcher drop a write.
LEMMA LostStep ==
  ASSUME TypesInv, GapInv, [EgressNext]_allVars, NEW s \in Sessions,
         NEW w \in lost'[s]
  PROVE  \/ w \in lost[s]
         \/ DropOutput(s) /\ w = seq[s]
         \/ CutOff /\ w \in Held(s)
<1>0. lost \in [Sessions -> SUBSET Nat]
  BY DEF TypesInv, LinkInv, IInv, TypeOK
<1>1. \/ UNCHANGED lost
      \/ \E t \in Sessions : DropOutput(t)
      \/ PeerOnline \/ PeerOffline \/ Kicked
  BY DEF EgressNext, allVars, vars, ghosts, ReadPTY, Write,
     CheckSubscribed, CheckLink, AddOutput, AddContiguous, AddAfterGap,
     HistoryUnmute, PauseFlush, RefuseRequest, CreateSubscribe, Destroy, WaitExit, OnExit,
     ExitFlush, ExitReply, BatcherStep, HistorySeal, HistoryFlush,
     HistoryReply, HistoryEndFlush, HistoryEnd, HistorySubscribe, PauseMute,
     CreateStart, CreateFail, CreateReplyFlush, CreateReply, FinalReply,
     DestroyUnsubscribe, Takeover, TakeoverFlush, TakeoverReply, Verify,
     RelayClosed, ReadLoopEnds, SetSecCode, RelayUnset, RelayCleanup,
     RelayUp, FlushBefore, FlushAll, Take, SealAt,
     FlushSession, Insert, Emit, Elapse, Tick, SealTake, SealTakeBy, Return
<1>2. ASSUME NEW t \in Sessions, DropOutput(t)
      PROVE  w \in lost[s] \/ (DropOutput(s) /\ w = seq[s])
  BY <1>0, <1>2 DEF DropOutput, Skip
<1>3. CASE PeerOnline \/ PeerOffline \/ Kicked
  <2>1. Reset(Remote)
    BY <1>3 DEF PeerOnline, PeerOffline, Kicked, PeerStep
  <2> QED BY <1>3, <2>1 DEF Reset, Held, CutOff
<1> QED BY <1>1, <1>2, <1>3

\* Who takes the subscription of s away, or leaves it.
LEMMA SubscribedStep ==
  ASSUME TypesInv, [EgressNext]_allVars, NEW s \in Sessions,
         subscribed[s], ~subscribed'[s]
  PROVE  \/ CutOff \/ RelayCleanup \/ OnExit(s)
         \/ (CreateFail \/ DestroyUnsubscribe) /\ op[Remote].s = s
<1>0. subscribed \in [Sessions -> BOOLEAN]
  BY DEF TypesInv, FlagsTyped
<1>1. \/ UNCHANGED subscribed \/ CutOff \/ RelayCleanup
      \/ \E t \in Sessions : CreateSubscribe(t) \/ OnExit(t)
      \/ HistorySubscribe \/ CreateFail \/ DestroyUnsubscribe
  BY DEF EgressNext, CutOff, allVars, egressVars, subs, ReadPTY,
     CheckSubscribed, CheckLink, DropOutput, AddOutput, HistoryUnmute,
     PauseFlush, RefuseRequest, Destroy, WaitExit, ExitFlush, ExitReply, BatcherStep,
     HistorySeal, HistoryFlush, HistoryReply, HistoryEndFlush, HistoryEnd,
     PauseMute, CreateStart, CreateReplyFlush, CreateReply, FinalReply,
     TakeoverFlush, TakeoverReply, Verify, RelayUnset, RelayUp
<1>2. ASSUME NEW t \in Sessions, CreateSubscribe(t) PROVE FALSE
  BY <1>0, <1>2 DEF CreateSubscribe
<1>3. ~HistorySubscribe
  BY <1>0 DEF HistorySubscribe
<1>4. ASSUME NEW t \in Sessions, OnExit(t) PROVE t = s
  BY <1>0, <1>4 DEF OnExit
<1>5. CreateFail \/ DestroyUnsubscribe => op[Remote].s = s
  BY <1>0 DEF CreateFail, DestroyUnsubscribe
<1> QED BY <1>1, <1>2, <1>3, <1>4, <1>5

LEMMA GapInit == EgressInit => GapInv
<1> SUFFICES ASSUME EgressInit PROVE GapInv
  OBVIOUS
<1>1. /\ \A s \in Sessions : lost[s] = {} /\ reader[s] = "read"
      /\ verified /\ relay = "up" /\ subscribed \in [Sessions -> BOOLEAN]
      /\ \A s \in Sessions : ~muted[s] /\ (subscribed[s] => pty[s] = "running")
  BY DEF EgressInit, BatcherInit
<1>2. expects = [s \in Sessions |->
                  IF subscribed[s] THEN {[h |-> 0, attached |-> TRUE]} ELSE {}]
  BY DEF EgressInit
<1>3. [h |-> 0, attached |-> TRUE] \in [h : Nat, attached : BOOLEAN]
  OBVIOUS
<1>4. expects \in [Sessions -> SUBSET [h : Nat, attached : BOOLEAN]]
  BY <1>2, <1>3
<1>5. ASSUME NEW s \in Sessions, NEW e \in expects[s] PROVE subscribed[s]
  BY <1>2
<1> QED BY <1>1, <1>4, <1>5 DEF GapInv

LEMMA GapStep ==
  ASSUME TypesInv, PlaceInv, GapInv, [EgressNext]_allVars
  PROVE  GapInv'
<1>0. /\ LinkInv /\ FlagsTyped /\ IInv /\ HandlersTyped /\ Named
      /\ Remote \in Clients /\ [BatcherNext]_vars
      /\ seq \in [Sessions -> Nat] /\ lost \in [Sessions -> SUBSET Nat]
      /\ gate \in [Sessions -> {"checks", "subscribed", "open", "shut"}]
      /\ muted \in [Sessions -> BOOLEAN] /\ subscribed' \in [Sessions -> BOOLEAN]
  BY EgressAssumption, LinkStep, FlagsTypedStep
     DEF TypesInv, LinkInv, FlagsTyped, IInv, TypeOK
<1>1. expects' \in [Sessions -> SUBSET [h : Nat, attached : BOOLEAN]]
  BY ExpectsTyped
<1>2. ASSUME NEW s \in Sessions, NEW w \in lost'[s] PROVE w <= seq'[s]
  <2>1. w \in Nat /\ w <= seq[s]
    BY <1>0, <1>2, LostStep, HeldBounded DEF GapInv
  <2>2. seq'[s] \in Nat /\ seq[s] <= seq'[s]
    <3>1. ReadPTY(s) => seq'[s] = seq[s] + 1
      BY <1>0 DEF ReadPTY, Write
    <3> QED BY <1>0, <3>1, ReadStep
  <2> QED BY <1>0, <2>1, <2>2
<1>3. ASSUME NEW s \in Sessions, NEW e \in expects'[s]
      PROVE  pty'[s] = "running" /\ verified' /\ relay' = "up"
  <2>1. CASE e \in expects[s] /\ ~CutOff /\ ~Destroy(s) /\ ~WaitExit(s)
    <3>1. pty[s] = "running" /\ verified /\ relay = "up"
      BY <2>1 DEF GapInv
    <3>2. pty'[s] = "running"
      BY <1>0, <2>1, <3>1, PtyStep
    <3>3. UNCHANGED <<verified, relay>> \/ Verify \/ RelayUnset \/ RelayUp
      BY <2>1, <3>1, LinkKept DEF CutOff, RelayCleanup
    <3> QED BY <3>1, <3>2, <3>3 DEF Verify, RelayUnset, RelayUp
  <2>2. CASE HistorySeal /\ op[Remote].s = s /\ pty[s] = "running" /\ Reachable
    BY <2>2 DEF HistorySeal, Reachable, link
  <2>3. CASE CreateStart /\ op[Remote].s = s /\ Reachable
    <3>1. ~At(Remote, "idle")
      BY <2>3 DEF CreateStart, Ready, At
    <3>2. pty' = [pty EXCEPT ![s] = "running"] /\ UNCHANGED <<verified, relay>>
      BY <2>3 DEF CreateStart, link
    <3> QED BY <1>0, <2>3, <3>1, <3>2 DEF Reachable, HandlersTyped
  <2> QED BY <2>1, <2>2, <2>3, ExpectsStep
<1>4. ASSUME NEW s \in Sessions, NEW e \in expects'[s], e.attached
      PROVE  /\ subscribed'[s] /\ ~muted'[s]
             /\ reader'[s] = "decide" /\ gate'[s] = "shut" => seq'[s] <= e.h
             /\ \A w \in lost'[s] : w <= e.h
  <2>1. CASE /\ e \in expects[s] /\ ~CutOff /\ ~Destroy(s) /\ ~WaitExit(s)
             /\ PauseMute => muted'[s] = muted[s]
    <3>1. /\ pty[s] = "running" /\ verified /\ relay = "up"
          /\ subscribed[s] /\ ~muted[s]
          /\ reader[s] = "decide" /\ gate[s] = "shut" => seq[s] <= e.h
          /\ \A w \in lost[s] : w <= e.h
      BY <1>4, <2>1 DEF GapInv
    <3>2. subscribed'[s]
      <4>1. ~RelayCleanup
        BY <3>1 DEF RelayCleanup
      <4>2. ~OnExit(s)
        BY <3>1 DEF OnExit, Ready, At, PlaceInv
      <4>3. (CreateFail \/ DestroyUnsubscribe) => op[Remote].s # s
        BY <3>1 DEF CreateFail, DestroyUnsubscribe, Ready, PlaceInv
      <4> QED BY <2>1, <3>1, <4>1, <4>2, <4>3, SubscribedStep
    <3>3. ~muted'[s]
      BY <1>0, <2>1, <3>1, MutedFrame
    <3>4. ASSUME reader'[s] = "decide", gate'[s] = "shut"
          PROVE  reader[s] = "decide" /\ gate[s] = "shut" /\ seq'[s] = seq[s]
      <4>1. ~ReadPTY(s)
        BY <1>0, <3>4 DEF ReadPTY
      <4>2. seq'[s] = seq[s] /\ reader[s] # "read"
        BY <1>0, <3>4, <4>1, ReadStep
      <4>3. gate[s] = "shut"
        <5>1. CheckSubscribed(s) => gate'[s] = "subscribed"
          BY <1>0, <3>1 DEF CheckSubscribed, WantsOutput
        <5>2. CheckLink(s) => gate'[s] = "open"
          BY <1>0, <3>1 DEF CheckLink, Connected, PlaceInv
        <5>3. ASSUME NEW t \in Sessions, t # s,
                     ReadPTY(t) \/ CheckSubscribed(t) \/ CheckLink(t)
              PROVE  gate'[s] = gate[s]
          BY <1>0, <5>3 DEF ReadPTY, CheckSubscribed, CheckLink
        <5> QED BY <3>4, <4>1, <5>1, <5>2, <5>3, GateFrame
      <4>4. reader[s] = "decide"
        <5>1. ASSUME NEW t \in Sessions, ReadPTY(t) PROVE reader'[s] = reader[s]
          BY <1>0, <4>1, <5>1 DEF ReadPTY, Write, IInv, TypeOK
        <5>2. ASSUME NEW t \in Sessions,
                     DropOutput(t) \/ AddOutput(t) \/ Insert(t)
              PROVE  reader'[s] = reader[s] \/ reader'[s] \in {"read", "flush"}
          BY <1>0, <5>2 DEF DropOutput, Skip, AddOutput, AddContiguous,
                            AddAfterGap, Insert, IInv, TypeOK
        <5>3. ASSUME NEW g \in Goroutines, Return(g)
              PROVE  reader'[s] \in {"insert", reader[s]}
          BY <5>3 DEF Return
        <5> QED BY <3>4, <5>1, <5>2, <5>3, ReaderFrame
      <4> QED BY <4>2, <4>3, <4>4
    <3>5. ASSUME NEW w \in lost'[s] PROVE w <= e.h
      BY <2>1, <3>1, <3>5, LostStep DEF DropOutput, Skip
    <3> QED BY <3>1, <3>2, <3>3, <3>4, <3>5
  <2>2. CASE HistorySeal /\ op[Remote].s = s /\ pty[s] = "running"
             /\ e = [h |-> seq[s], attached |-> subscribed[s]]
    <3>1. ~muted[s]
      BY <2>2 DEF HistorySeal, Ready, PlaceInv
    <3>2. UNCHANGED <<seq, subscribed, muted, lost>>
      BY <2>2 DEF HistorySeal, SealAt, subs, entryVars
    <3>3. seq[s] <= seq[s]
      BY <1>0
    <3> QED BY <1>4, <2>2, <3>1, <3>2, <3>3 DEF GapInv
  <2>3. CASE CreateStart /\ op[Remote].s = s /\ subscribed[s] /\ ~muted[s]
             /\ e = [h |-> 0, attached |-> TRUE]
    <3>1. seq[s] = 0
      BY <2>3 DEF CreateStart, Ready, PlaceInv
    <3>2. UNCHANGED <<seq, subscribed, muted, lost>>
      BY <2>3 DEF CreateStart, subs, vars, ghosts
    <3> QED BY <2>3, <3>1, <3>2 DEF GapInv
  <2> QED BY <2>1, <2>2, <2>3, ExpectsStep
<1> QED BY <1>1, <1>2, <1>3, <1>4 DEF GapInv

\* A created session, and a history handed to a subscribed app, are followed by
\* every later write until the app is muted, taken over or cut off, or the
\* session ends (handleCreate, handleHistory and sendOutput of daemon.go).
THEOREM NothingDroppedAfterHistory == EgressSpec => []GapFree
<1> DEFINE Inv == TypesInv /\ PlaceInv /\ GapInv
<1>1. EgressInit => Inv
  BY TypesInit, PlaceInit, GapInit
<1>2. Inv /\ [EgressNext]_allVars => Inv'
  BY TypesStep, PlaceStep, GapStep
<1>3. Inv => GapFree
  BY DEF GapInv, GapFree
<1> HIDE DEF Inv
<1> QED BY <1>1, <1>2, <1>3, PTL DEF EgressSpec
-----------------------------------------------------------------------------
(* What is left with the batcher once somebody has flushed.                *)

\* A segment that is empty or starts at h or later.
From(b, h) == b # <<>> => b[1] >= h
\* A segment that is empty or holds just x.
Only(b, x) == b \in {<<>>, <<x>>}

\* What a step sends of s is the head of what was detached.
LEMMA SentStep ==
  ASSUME IInv, [BatcherNext]_vars, NEW s \in Sessions
  PROVE  \/ sent'[s] = sent[s]
         \/ \E m \in Message :
              /\ sent'[s] = Append(sent[s], m)
              /\ jobs[s] # <<>> /\ m.data # <<>> /\ m.data[1] = jobs[s][1]
              /\ Len(m.data) <= Len(jobs[s])
<1>0. TypeOK /\ LockInv /\ \A t \in Sessions : Ordered(t)
  BY DEF IInv, OrderInv
<1>1. ASSUME NEW t \in Sessions, Emit(t)
      PROVE  \/ sent'[s] = sent[s]
             \/ \E m \in Message :
                  /\ sent'[s] = Append(sent[s], m)
                  /\ jobs[s] # <<>> /\ m.data # <<>> /\ m.data[1] = jobs[s][1]
                  /\ Len(m.data) <= Len(jobs[s])
  <2>1. PICK k \in 1..Len(jobs[t]), m \in Message :
          /\ sent' = [sent EXCEPT ![t] = Append(@, m)]
          /\ Len(m.data) = k
          /\ \A i \in 1..k : m.data[i] = jobs[t][1] + (i - 1)
          /\ jobs[t][1] \in Nat
    BY <1>0, <1>1, EmitMessage
  <2>2. Len(jobs[t]) \in Nat /\ m.data \in Seq(Nat)
    BY <1>0 DEF TypeOK, Message
  <2>3. jobs[t] # <<>> /\ m.data # <<>> /\ Len(m.data) <= Len(jobs[t])
    BY <2>1, <2>2, <1>1 DEF Emit
  <2>4. m.data[1] = jobs[t][1] + (1 - 1)
    BY <2>1, <2>2
  <2>5. m.data[1] = jobs[t][1]
    BY <2>1, <2>4
  <2>6. sent'[s] = IF s = t THEN Append(sent[s], m) ELSE sent[s]
    BY <1>0, <2>1 DEF TypeOK
  <2> QED BY <2>3, <2>5, <2>6
<1> QED BY <1>1, SentFrame

\* How one step changes the segments of s, by whoever takes it.
LEMMA SegmentStep ==
  ASSUME IInv, [BatcherNext]_vars, NEW s \in Sessions
  PROVE  \/ bufs'[s] = bufs[s] /\ jobs'[s] = jobs[s]
         \/ /\ bufs'[s] \in {Append(bufs[s], seq[s]), <<seq[s]>>}
            /\ jobs'[s] = jobs[s]
            /\ bufs[s] # <<>> => /\ bufs'[s] = Append(bufs[s], seq[s])
                                 /\ seq[s] = Last(bufs[s]) + 1
            /\ reader[s] # "read" /\ seq'[s] = seq[s]
         \/ bufs'[s] \in {<<>>, bufs[s]} /\ jobs'[s] \in {<<>>, bufs[s]}
         \/ \E c \in Clients : SealTake(c)
         \/ Emit(s) /\ bufs'[s] = bufs[s]
         \/ bufs'[s] = <<>> /\ jobs'[s] = jobs[s]
<1>0. TypeOK /\ LockInv
  BY DEF IInv
<1>1. ASSUME NEW t \in Sessions, AddContiguous(t), t = s
      PROVE  /\ bufs'[s] = Append(bufs[s], seq[s]) /\ jobs'[s] = jobs[s]
             /\ bufs[s] # <<>> => seq[s] = Last(bufs[s]) + 1
             /\ reader[s] # "read" /\ seq'[s] = seq[s]
  BY <1>0, <1>1 DEF AddContiguous, TypeOK, lockVars
<1>2. ASSUME NEW t \in Sessions, Insert(t), t = s
      PROVE  /\ bufs'[s] = <<seq[s]>> /\ jobs'[s] = jobs[s] /\ bufs[s] = <<>>
             /\ reader[s] # "read" /\ seq'[s] = seq[s]
  BY <1>0, <1>2 DEF Insert, TypeOK, lockVars, LockInv
<1>3. ASSUME NEW t \in Sessions, AddContiguous(t) \/ Insert(t) \/ Emit(t), t # s
      PROVE  bufs'[s] = bufs[s] /\ jobs'[s] = jobs[s]
  BY <1>0, <1>3 DEF AddContiguous, Insert, Emit, TypeOK, lockVars, entryVars
<1>4. ASSUME NEW g, NEW Chosen, Take(g, Chosen)
      PROVE  bufs'[s] \in {<<>>, bufs[s]} /\ jobs'[s] \in {<<>>, bufs[s]}
  BY <1>4, TakeEntries
<1>5. Emit(s) => bufs'[s] = bufs[s]
  BY DEF Emit, entryVars
<1>6. ASSUME NEW c \in Clients, Reset(c)
      PROVE  bufs'[s] = <<>> /\ jobs'[s] = jobs[s]
  BY <1>6 DEF Reset, lockVars
<1>7. \A t \in Sessions : FlushSession(t) => Take(t, {t})
  BY DEF FlushSession
<1>8. \A c \in Clients : FlushAll(c) => Take(c, Sessions)
  BY DEF FlushAll
<1>9. Tick => \E Chosen \in SUBSET Sessions : Take(Flusher, Chosen)
  BY DEF Tick
<1>10. UNCHANGED <<bufs, jobs>> => bufs'[s] = bufs[s] /\ jobs'[s] = jobs[s]
  OBVIOUS
<1> QED BY <1>1, <1>2, <1>3, <1>4, <1>5, <1>6, <1>7, <1>8, <1>9, <1>10,
           BufsFrame

\* Nothing older than h comes back to a session that has nothing older than h.
LEMMA FromStep ==
  ASSUME IInv, [BatcherNext]_vars, NEW s \in Sessions, NEW h \in Nat,
         h <= seq[s], From(bufs[s], h)
  PROVE  From(bufs'[s], h) /\ (From(jobs[s], h) => From(jobs'[s], h))
<1>0. /\ TypeOK /\ LockInv /\ OrderInv /\ Ordered(s)
      /\ bufs[s] \in Seq(Nat) /\ jobs[s] \in Seq(Nat) /\ seq[s] \in Nat
  BY DEF IInv, OrderInv, TypeOK
<1>1. From(<<>>, h) /\ From(<<seq[s]>>, h)
  BY <1>0 DEF From
<1>2. From(Append(bufs[s], seq[s]), h)
  <2>1. PICK b \in Seq(Nat) : b = bufs[s]
    BY <1>0
  <2>2. Append(b, seq[s])[1] = IF b = <<>> THEN seq[s] ELSE b[1]
    BY <1>0
  <2> QED BY <2>1, <2>2 DEF From
<1>3. ASSUME NEW c \in Clients, SealTake(c)
      PROVE  From(bufs'[s], h) /\ From(jobs'[s], h)
  <2>1. PICK k \in 0..Len(bufs[s]) :
          /\ jobs'[s] \in Seq(Nat) /\ Len(jobs'[s]) = k
          /\ \A i \in 1..k : jobs'[s][i] = bufs[s][i]
          /\ bufs'[s] \in Seq(Nat) /\ Len(bufs'[s]) = Len(bufs[s]) - k
          /\ \A i \in 1..(Len(bufs[s]) - k) : bufs'[s][i] = bufs[s][k + i]
    BY <1>0, <1>3, SealTakeFacts
  <2>2. PICK b \in Seq(Nat), p \in Seq(Nat), r \in Seq(Nat), n \in Nat :
          b = bufs[s] /\ p = jobs'[s] /\ r = bufs'[s] /\ n = Len(b)
    BY <1>0, <2>1
  <2>3. k \in Nat /\ k <= n /\ Len(p) = k /\ Len(r) = n - k
    BY <2>1, <2>2
  <2>a. \A i \in 1..n : b[i] \in Nat
    BY <2>2
  <2>b. \A i \in 1..n : b[i] = b[1] + (i - 1)
    BY <1>0, <2>2 DEF Ordered, Segment
  <2>4. \A i \in 1..n : b[i] = b[1] + (i - 1) /\ b[i] \in Nat
    BY <2>a, <2>b
  <2>5. ASSUME p # <<>> PROVE p[1] >= h
    <3>1. 1 \in 1..k /\ b # <<>>
      BY <2>3, <2>5, <2>2
    <3>2. p[1] = b[1]
      BY <2>1, <2>2, <3>1
    <3> QED BY <2>2, <3>1, <3>2 DEF From
  <2>6. ASSUME r # <<>> PROVE r[1] >= h
    <3>1. 1 \in 1..(n - k) /\ k + 1 \in 1..n /\ 1 \in 1..n /\ b # <<>>
      BY <2>2, <2>3, <2>6
    <3>2. r[1] = b[k + 1]
      BY <2>1, <2>2, <3>1
    <3>3. r[1] = b[1] + ((k + 1) - 1) /\ b[1] \in Nat
      BY <2>4, <3>1, <3>2
    <3>4. b[1] >= h
      BY <2>2, <3>1 DEF From
    <3> QED BY <2>3, <3>3, <3>4
  <2> QED BY <2>2, <2>5, <2>6 DEF From
<1>4. ASSUME Emit(s), From(jobs[s], h) PROVE From(jobs'[s], h)
  <2>1. PICK k \in 1..Len(jobs[s]), cut \in BOOLEAN, rest \in Seq(Nat) :
          /\ Len(rest) = IF cut THEN Len(jobs[s]) - k + 1 ELSE Len(jobs[s]) - k
          /\ \A i \in 1..Len(rest) :
               rest[i] = jobs[s][i + (IF cut THEN k - 1 ELSE k)]
          /\ sent' = [sent EXCEPT ![s] = Append(@, Packed(jobs[s], k, pieces))]
          /\ jobs' = [jobs EXCEPT ![s] = rest]
          /\ pieces' \in Nat /\ (pieces' > 0 <=> cut)
          /\ cur' = IF rest = <<>> THEN NoOne ELSE s
    BY <1>0, <1>4, EmitFacts
  <2>2. PICK b \in Seq(Nat), n \in Nat, d \in Nat :
          b = jobs[s] /\ n = Len(b) /\ d = IF cut THEN k - 1 ELSE k
    BY <1>0, <2>1
  <2>3. jobs'[s] = rest
    BY <1>0, <2>1 DEF TypeOK
  <2>a. \A i \in 1..n : b[i] \in Nat
    BY <2>2
  <2>b. \A i \in 1..n : b[i] = b[1] + (i - 1)
    BY <1>0, <2>2 DEF Ordered, Segment
  <2>4. \A i \in 1..n : b[i] = b[1] + (i - 1) /\ b[i] \in Nat
    BY <2>a, <2>b
  <2>5. ASSUME rest # <<>> PROVE rest[1] >= h
    <3>1. 1 \in 1..Len(rest) /\ Len(rest) = n - d /\ d <= n
      BY <2>1, <2>2, <2>5
    <3>2. rest[1] = b[1 + d] /\ 1 + d \in 1..n /\ 1 \in 1..n /\ b # <<>>
      BY SMTT(60), <2>1, <2>2, <3>1
    <3>3. rest[1] = b[1] + ((1 + d) - 1) /\ b[1] \in Nat
      BY <2>4, <3>2
    <3>4. b[1] >= h
      BY <1>4, <2>2, <3>2 DEF From
    <3> QED BY <3>3, <3>4
  <2> QED BY <2>3, <2>5 DEF From
<1> QED BY <1>1, <1>2, <1>3, <1>4, SegmentStep

\* When the batcher has no write of s but the newest, it gets no other.
LEMMA OnlyStep ==
  ASSUME IInv, [BatcherNext]_vars, NEW s \in Sessions,
         Only(bufs[s], seq[s])
  PROVE  /\ Only(bufs'[s], seq[s])
         /\ bufs'[s] # <<>> => bufs[s] # <<>> \/ reader[s] # "read"
         /\ Only(jobs[s], seq[s]) =>
              /\ Only(jobs'[s], seq[s])
              /\ jobs'[s] # <<>> => jobs[s] # <<>> \/ bufs[s] # <<>>
<1>0. /\ TypeOK /\ LockInv /\ OrderInv /\ Ordered(s)
      /\ bufs[s] \in Seq(Nat) /\ jobs[s] \in Seq(Nat) /\ seq[s] \in Nat
  BY DEF IInv, OrderInv, TypeOK
<1>1. Append(<<>>, seq[s]) = <<seq[s]>> /\ Len(<<seq[s]>>) = 1
      /\ Last(<<seq[s]>>) = seq[s] /\ seq[s] # seq[s] + 1 /\ <<seq[s]>>[1] = seq[s]
  BY <1>0 DEF Last
<1>2. ASSUME NEW b \in Seq(Nat), Len(b) <= 1, b # <<>> => b[1] = seq[s]
      PROVE  Only(b, seq[s])
  <2>1. CASE Len(b) = 0
    BY <1>2, <2>1 DEF Only
  <2>2. CASE Len(b) = 1
    <3>1. b # <<>> /\ b = <<b[1]>>
      BY SMTT(60), <2>2
    <3> QED BY <1>2, <3>1 DEF Only
  <2>3. Len(b) = 0 \/ Len(b) = 1
    <3>1. Len(b) \in Nat
      OBVIOUS
    <3>2. \A n \in Nat : n <= 1 => n = 0 \/ n = 1
      OBVIOUS
    <3> QED BY <1>2, <3>1, <3>2
  <2> QED BY <2>1, <2>2, <2>3
<1>3. ASSUME NEW c \in Clients, SealTake(c)
      PROVE  /\ Only(bufs'[s], seq[s]) /\ Only(jobs'[s], seq[s])
             /\ bufs[s] = <<>> => bufs'[s] = <<>> /\ jobs'[s] = <<>>
  <2>1. PICK k \in 0..Len(bufs[s]) :
          /\ jobs'[s] \in Seq(Nat) /\ Len(jobs'[s]) = k
          /\ \A i \in 1..k : jobs'[s][i] = bufs[s][i]
          /\ bufs'[s] \in Seq(Nat) /\ Len(bufs'[s]) = Len(bufs[s]) - k
          /\ \A i \in 1..(Len(bufs[s]) - k) : bufs'[s][i] = bufs[s][k + i]
    BY <1>0, <1>3, SealTakeFacts
  <2>2. CASE bufs[s] = <<>>
    <3>1. Len(jobs'[s]) = 0 /\ Len(bufs'[s]) = 0
      BY <2>1, <2>2
    <3>2. jobs'[s] = <<>> /\ bufs'[s] = <<>>
      BY <2>1, <3>1
    <3> QED BY <3>2 DEF Only
  <2>3. CASE bufs[s] = <<seq[s]>>
    <3>1. Len(bufs[s]) = 1 /\ bufs[s][1] = seq[s]
      BY <1>1, <2>3
    <3>2. CASE k = 0
      <4>1. Len(jobs'[s]) = 0 /\ Len(bufs'[s]) = 1 /\ bufs'[s][1] = bufs[s][0 + 1]
        BY <2>1, <3>1, <3>2
      <4> QED BY <1>2, <2>1, <2>3, <3>1, <4>1
    <3>3. CASE k = 1
      <4>1. Len(jobs'[s]) = 1 /\ Len(bufs'[s]) = 0 /\ jobs'[s][1] = bufs[s][1]
        BY <2>1, <3>1, <3>3
      <4> QED BY <1>2, <2>1, <2>3, <3>1, <4>1
    <3> QED BY <2>1, <3>1, <3>2, <3>3
  <2> QED BY <2>2, <2>3 DEF Only
<1>4. ASSUME Emit(s), Only(jobs[s], seq[s])
      PROVE  Only(jobs'[s], seq[s]) /\ jobs[s] # <<>>
  <2>1. PICK k \in 1..Len(jobs[s]), cut \in BOOLEAN, rest \in Seq(Nat) :
          /\ Len(rest) = IF cut THEN Len(jobs[s]) - k + 1 ELSE Len(jobs[s]) - k
          /\ \A i \in 1..Len(rest) :
               rest[i] = jobs[s][i + (IF cut THEN k - 1 ELSE k)]
          /\ sent' = [sent EXCEPT ![s] = Append(@, Packed(jobs[s], k, pieces))]
          /\ jobs' = [jobs EXCEPT ![s] = rest]
          /\ pieces' \in Nat /\ (pieces' > 0 <=> cut)
          /\ cur' = IF rest = <<>> THEN NoOne ELSE s
    BY <1>0, <1>4, EmitFacts
  <2>2. jobs'[s] = rest
    BY <1>0, <2>1 DEF TypeOK
  <2>a. jobs[s] = <<seq[s]>>
    <3>1. jobs[s] # <<>>
      BY <1>4 DEF Emit
    <3> QED BY <1>4, <3>1 DEF Only
  <2>b. Len(jobs[s]) = 1 /\ jobs[s][1] = seq[s]
    BY <1>1, <2>a
  <2>3. jobs[s] = <<seq[s]>> /\ Len(jobs[s]) = 1 /\ k = 1 /\ jobs[s][1] = seq[s]
    BY <2>1, <2>a, <2>b
  <2>4. Len(rest) = (IF cut THEN 1 ELSE 0) /\ (cut => rest[1] = jobs[s][1 + 0])
    BY <2>1, <2>3
  <2>5. rest # <<>> => rest[1] = seq[s]
    BY <2>3, <2>4
  <2>c. Len(rest) <= 1
    BY <2>4
  <2>6. Only(rest, seq[s])
    BY <1>2, <2>c, <2>5
  <2> QED BY <2>2, <2>3, <2>6
<1> QED BY <1>0, <1>1, <1>3, <1>4, SegmentStep DEF Only
-----------------------------------------------------------------------------
(* session_exit and what is still to come.                                 *)

\* Once the waiter has flushed, all that is left of its session is the write
\* the reader held, or will still read, when the session was closed.
ExitInv ==
  \A s \in Sessions :
    /\ At(Waiter[s], "gone") => client[Waiter[s]] = "idle"
    /\ At(Waiter[s], "session_exit") \/ At(Waiter[s], "gone") =>
         /\ Only(bufs[s], seq[s])
         /\ bufs[s] # <<>> => pty[s] = "dead"
         /\ client[Waiter[s]] = "idle" => /\ Only(jobs[s], seq[s])
                                          /\ jobs[s] # <<>> => pty[s] = "dead"
    /\ \A i \in 1..Len(controls[s]) : controls[s][i].kind = "session_exit" =>
         /\ At(Waiter[s], "gone")
         /\ \A j \in (controls[s][i].after + 1)..Len(sent[s]) :
              sent[s][j].data = <<seq[s]>> /\ pty[s] = "dead"

\* One control message more about s, or none.
LEMMA ControlStep ==
  ASSUME TypesInv, [EgressNext]_allVars, NEW s \in Sessions
  PROVE  \/ controls'[s] = controls[s]
         \/ \E n \in Notice :
              /\ controls'[s] = Append(controls[s], n) /\ n.after = Len(sent[s])
              /\ UNCHANGED vars
              /\ n.kind = "session_exit" => ExitReply(s)
              /\ n.kind \in {"history_data", "history_start"} =>
                   HistoryReply /\ op[Remote].s = s /\ n.h = op[Remote].h
<1>0. /\ controls \in [Sessions -> Seq(Notice)] /\ Named /\ HandlersTyped
      /\ Len(sent[s]) \in Nat /\ Remote \in Clients /\ op[Remote].h \in Nat
  BY SMTT(60), EgressAssumption DEF TypesInv, ControlsTyped, LinkInv, IInv, TypeOK,
                          HandlersTyped
<1> DEFINE Note(kind, h) == [kind |-> kind, h |-> h, after |-> Len(sent[s])]
<1>1. ASSUME NEW kind \in Kinds, NEW h \in Nat
      PROVE  /\ Note(kind, h) \in Notice /\ Note(kind, h).kind = kind
             /\ Note(kind, h).h = h /\ Note(kind, h).after = Len(sent[s])
  BY <1>0 DEF Notice
<1>2. ASSUME NEW t \in Sessions, NEW kind \in Kinds, NEW h \in Nat,
             Control(t, kind, h)
      PROVE  \/ controls'[s] = controls[s]
             \/ t = s /\ controls'[s] = Append(controls[s], Note(kind, h))
  BY <1>0, <1>2 DEF Control
<1> HIDE DEF Note
<1>3. CASE HistoryReply
  <2>1. PICK kind \in {"history_data", "history_start"} :
          Control(op[Remote].s, kind, op[Remote].h)
    BY <1>3 DEF HistoryReply
  <2>2. op[Remote].s \in Sessions /\ UNCHANGED vars /\ kind \in Kinds
    BY <1>0, <1>3 DEF HistoryReply, Ready, At, Named, Kinds
  <2> QED BY <1>0, <1>1, <1>2, <1>3, <2>1, <2>2
<1>4. CASE HistoryEnd
  <2>1. /\ Control(op[Remote].s, "history_end", op[Remote].h)
        /\ op[Remote].s \in Sessions /\ UNCHANGED vars /\ "history_end" \in Kinds
    BY <1>0, <1>4 DEF HistoryEnd, Ready, At, Named, Kinds
  <2>2. PICK n \in Notice : /\ n = Note("history_end", op[Remote].h)
                            /\ n.kind = "history_end" /\ n.after = Len(sent[s])
    BY <1>0, <1>1, <2>1
  <2> QED BY <1>0, <1>2, <2>1, <2>2
<1>5. CASE CreateReply
  <2>1. PICK kind \in {"session_created", "error"} :
          Control(op[Remote].s, kind, op[Remote].h)
    BY <1>5 DEF CreateReply, FinalReply
  <2>2. op[Remote].s \in Sessions /\ UNCHANGED vars /\ kind \in Kinds
    BY <1>0, <1>5 DEF CreateReply, FinalReply, Ready, At, Named, Kinds
  <2>3. PICK n \in Notice : /\ n = Note(kind, op[Remote].h)
                            /\ n.kind = kind /\ n.after = Len(sent[s])
    BY <1>0, <1>1, <2>2
  <2>4. kind \notin {"history_data", "history_start", "session_exit"}
    BY <2>1
  <2> QED BY <1>0, <1>2, <2>1, <2>2, <2>3, <2>4
<1>6. ASSUME NEW t \in Sessions, ExitReply(t)
      PROVE  \/ controls'[s] = controls[s]
             \/ \E n \in Notice :
                  /\ controls'[s] = Append(controls[s], n)
                  /\ n.after = Len(sent[s]) /\ UNCHANGED vars
                  /\ ExitReply(s) /\ n.kind = "session_exit"
  <2>1. Control(t, "session_exit", 0) /\ UNCHANGED vars /\ "session_exit" \in Kinds
    BY <1>6 DEF ExitReply, Kinds
  <2> QED BY <1>1, <1>2, <1>6, <2>1
<1>7. CASE TakeoverReply
  <2>1. controls'[s] = Append(controls[s], Note("kicked", 0)) /\ UNCHANGED vars
        /\ "kicked" \in Kinds
    BY <1>7 DEF TakeoverReply, Note, Kinds
  <2> QED BY <1>1, <2>1
<1> QED BY <1>3, <1>4, <1>5, <1>6, <1>7, ControlsFrame

\* Who moves the waiter of s inside the batcher.
LEMMA WaiterClient ==
  ASSUME LinkInv, [EgressNext]_allVars, NEW s \in Sessions
  PROVE  \/ client'[Waiter[s]] = client[Waiter[s]]
         \/ client[Waiter[s]] = "sealed" /\ client'[Waiter[s]] = "sending"
         \/ Return(Waiter[s])
         \/ ExitFlush(s)
<1>0. /\ client \in [Clients -> {"idle", "sealed", "sending"}]
      /\ Remote \in Clients /\ Local \in Clients
      /\ Waiter[s] \in Clients \ {Remote, Local}
      /\ \A t \in Sessions : Waiter[t] \in Clients /\ (t # s => Waiter[t] # Waiter[s])
  BY EgressAssumption DEF LinkInv, IInv, TypeOK
<1>1. \/ UNCHANGED client
      \/ \E c \in Clients : SealTake(c)
      \/ \E g \in Goroutines : Return(g)
      \/ FlushAll(Remote) \/ FlushAll(Local) \/ HistorySeal
      \/ \E t \in Sessions : ExitFlush(t)
  BY DEF EgressNext, allVars, vars, lockVars, ReadPTY, Write, DropOutput,
     Skip, CheckSubscribed, CheckLink, AddOutput, AddContiguous, AddAfterGap,
     HistoryUnmute, PauseFlush, RefuseRequest, CreateSubscribe, Destroy, WaitExit, OnExit,
     ExitReply, BatcherStep, HistoryFlush, HistoryReply, HistoryEndFlush,
     HistoryEnd, HistorySubscribe, PauseMute, CreateStart, CreateFail,
     CreateReplyFlush, CreateReply, FinalReply, DestroyUnsubscribe, Takeover,
     TakeoverFlush, TakeoverReply, PeerOnline, PeerOffline, Kicked, PeerStep,
     Reset, Verify, RelayClosed, ReadLoopEnds, SetSecCode, RelayUnset,
     RelayCleanup, RelayUp, FlushBefore,
     FlushSession, Insert, Emit, Elapse, Tick
<1>2. ASSUME NEW c \in Clients, c # Waiter[s], FlushAll(c)
      PROVE  client'[Waiter[s]] = client[Waiter[s]]
  BY <1>0, <1>2 DEF FlushAll
<1>3. ASSUME NEW c \in Clients, SealTake(c)
      PROVE  \/ client'[Waiter[s]] = client[Waiter[s]]
             \/ client[Waiter[s]] = "sealed" /\ client'[Waiter[s]] = "sending"
  BY <1>0, <1>3 DEF SealTake, SealTakeBy
<1>4. ASSUME NEW g \in Goroutines, Return(g)
      PROVE  client'[Waiter[s]] = client[Waiter[s]] \/ Return(Waiter[s])
  BY <1>0, <1>4 DEF Return
<1>5. HistorySeal => client'[Waiter[s]] = client[Waiter[s]]
  BY <1>0 DEF HistorySeal, SealAt
<1>6. \A t \in Sessions : ExitFlush(t) => FlushAll(Waiter[t])
  BY DEF ExitFlush, FlushBefore
<1> QED BY <1>0, <1>1, <1>2, <1>3, <1>4, <1>5, <1>6

LEMMA ExitInit == EgressInit => ExitInv
<1> SUFFICES ASSUME EgressInit PROVE ExitInv
  OBVIOUS
<1>1. ASSUME NEW s \in Sessions
      PROVE  /\ ~At(Waiter[s], "gone") /\ ~At(Waiter[s], "session_exit")
             /\ controls[s] = <<>>
  <2>1. Waiter[s] \in Clients
    BY EgressAssumption
  <2> QED BY <2>1 DEF EgressInit, Idle, At
<1>2. 1..Len(<<>>) = {}
  OBVIOUS
<1> QED BY <1>1, <1>2 DEF ExitInv

LEMMA ExitStep ==
  ASSUME TypesInv, PlaceInv, ExitInv, [EgressNext]_allVars
  PROVE  ExitInv'
<1>0. /\ LinkInv /\ IInv /\ HandlersTyped /\ [BatcherNext]_vars
      /\ pty \in [Sessions -> {"none", "running", "last", "dead"}]
  BY LinkStep DEF TypesInv, LinkInv, HandlersTyped
<1> SUFFICES ASSUME NEW s \in Sessions
      PROVE  /\ op'[Waiter[s]].at = "gone" => client'[Waiter[s]] = "idle"
             /\ op'[Waiter[s]].at \in {"session_exit", "gone"} =>
                  /\ Only(bufs'[s], seq'[s])
                  /\ bufs'[s] # <<>> => pty'[s] = "dead"
                  /\ client'[Waiter[s]] = "idle" =>
                       /\ Only(jobs'[s], seq'[s])
                       /\ jobs'[s] # <<>> => pty'[s] = "dead"
             /\ \A i \in 1..Len(controls'[s]) :
                  controls'[s][i].kind = "session_exit" =>
                    /\ op'[Waiter[s]].at = "gone"
                    /\ \A j \in (controls'[s][i].after + 1)..Len(sent'[s]) :
                         sent'[s][j].data = <<seq'[s]>> /\ pty'[s] = "dead"
  BY DEF ExitInv, At, Only
<1>1. Waiter[s] \in Clients /\ Waiter[s] \in Goroutines
  BY EgressAssumption DEF Goroutines
<1>2. /\ op[Waiter[s]].at = "gone" => client[Waiter[s]] = "idle"
      /\ op[Waiter[s]].at \in {"session_exit", "gone"} =>
           /\ Only(bufs[s], seq[s])
           /\ bufs[s] # <<>> => pty[s] = "dead"
           /\ client[Waiter[s]] = "idle" => /\ Only(jobs[s], seq[s])
                                            /\ jobs[s] # <<>> => pty[s] = "dead"
  BY DEF ExitInv, At
<1>3. pty[s] = "last" => reader[s] = "read"
  BY DEF PlaceInv
<1>4. op[Waiter[s]].at # "idle" =>
        pty[s] \in {"last", "dead"} /\ (pty[s] = "dead" => pty'[s] = "dead")
  BY <1>0, PtyStep DEF PlaceInv, At
<1>5. ASSUME ReadPTY(s)
      PROVE  /\ pty[s] = "last" => pty'[s] = "dead"
             /\ pty[s] \in {"running", "last"}
             /\ UNCHANGED <<bufs, jobs, sent, client, op, controls>>
  BY <1>0, <1>5 DEF ReadPTY, Write, lockVars, told
<1>6. ASSUME ExitFlush(s)
      PROVE  /\ op[Waiter[s]].at = "exit_flush"
             /\ bufs'[s] = <<>> /\ client'[Waiter[s]] = "sending"
  BY <1>0, <1>1, <1>6 DEF ExitFlush, FlushBefore, Ready, At, FlushAll, Take,
                          IInv, TypeOK
<1>7. ASSUME ExitReply(s)
      PROVE  /\ op[Waiter[s]].at = "session_exit" /\ client[Waiter[s]] = "idle"
             /\ op'[Waiter[s]].at = "gone" /\ UNCHANGED vars /\ UNCHANGED pty
  <2>1. Move(Waiter[s], "gone")
    BY <1>7 DEF ExitReply
  <2>2. op'[Waiter[s]].at = "gone"
    BY <1>0, <1>1, <2>1, OpMoves
  <2> QED BY <1>7, <2>2 DEF ExitReply, Ready, At
<1>8. ASSUME Return(Waiter[s])
      PROVE  client'[Waiter[s]] = "idle" /\ jobs'[s] = <<>>
  BY <1>1, <1>8 DEF Return, NoJobs
<1>9. op[Waiter[s]].at = "gone" => op'[Waiter[s]].at = "gone"
  <2>1. /\ WaitExit(s) => op[Waiter[s]].at = "idle"
        /\ OnExit(s) => op[Waiter[s]].at = "on_exit"
    BY DEF WaitExit, OnExit, Ready, At
  <2> QED BY <1>0, <1>6, <1>7, <2>1, WaiterStep
<1>10. ASSUME op'[Waiter[s]].at = "gone" PROVE client'[Waiter[s]] = "idle"
  <2>1. CASE op[Waiter[s]].at = "gone"
    BY <1>0, <1>2, <1>6, <1>8, <2>1, WaiterClient
  <2>2. CASE op[Waiter[s]].at # "gone"
    <3>1. ExitReply(s)
      BY <1>0, <1>10, <2>2, WaiterStep
    <3> QED BY <1>7, <3>1 DEF vars, lockVars
  <2> QED BY <2>1, <2>2
<1>11. ASSUME op'[Waiter[s]].at \in {"session_exit", "gone"}
       PROVE  /\ Only(bufs'[s], seq'[s])
              /\ bufs'[s] # <<>> => pty'[s] = "dead"
              /\ client'[Waiter[s]] = "idle" =>
                   /\ Only(jobs'[s], seq'[s])
                   /\ jobs'[s] # <<>> => pty'[s] = "dead"
  <2>1. CASE op[Waiter[s]].at \in {"session_exit", "gone"}
    <3>1. CASE ReadPTY(s)
      <4>1. pty[s] = "last"
        BY <1>4, <1>5, <2>1, <3>1
      <4>2. bufs[s] = <<>> /\ (client[Waiter[s]] = "idle" => jobs[s] = <<>>)
        BY <1>2, <2>1, <4>1
      <4> QED BY <1>5, <3>1, <4>2 DEF Only
    <3>2. CASE ~ReadPTY(s)
      <4>1. seq'[s] = seq[s]
        BY <1>0, <3>2, ReadStep
      <4>2. /\ Only(bufs'[s], seq'[s])
            /\ bufs'[s] # <<>> => bufs[s] # <<>> \/ reader[s] # "read"
        BY <1>0, <1>2, <2>1, <4>1, OnlyStep
      <4>3. bufs'[s] # <<>> => pty'[s] = "dead"
        BY <1>2, <1>3, <1>4, <2>1, <4>2
      <4>4. ASSUME client'[Waiter[s]] = "idle"
            PROVE  /\ Only(jobs'[s], seq'[s])
                   /\ jobs'[s] # <<>> => pty'[s] = "dead"
        <5>1. CASE Return(Waiter[s])
          BY <1>8, <5>1 DEF Only
        <5>2. CASE ~Return(Waiter[s])
          <6>1. client[Waiter[s]] = "idle"
            BY <1>0, <1>6, <2>1, <4>4, <5>2, WaiterClient
          <6> QED BY <1>0, <1>2, <1>4, <2>1, <4>1, <6>1, OnlyStep
        <5> QED BY <5>1, <5>2
      <4> QED BY <4>2, <4>3, <4>4
    <3> QED BY <3>1, <3>2
  <2>2. CASE op[Waiter[s]].at \notin {"session_exit", "gone"}
    <3>1. ExitFlush(s)
      BY <1>0, <1>7, <1>11, <2>2, WaiterStep
    <3> QED BY <1>6, <3>1 DEF Only
  <2> QED BY <2>1, <2>2
<1>12. ASSUME NEW i \in 1..Len(controls[s]),
              controls[s][i].kind = "session_exit",
              NEW j \in (controls[s][i].after + 1)..Len(sent'[s])
       PROVE  sent'[s][j].data = <<seq'[s]>> /\ pty'[s] = "dead"
  <2>0. op[Waiter[s]].at = "gone"
    BY <1>12 DEF ExitInv, At
  <2>1. \A k \in (controls[s][i].after + 1)..Len(sent[s]) :
          sent[s][k].data = <<seq[s]>> /\ pty[s] = "dead"
    BY <1>12 DEF ExitInv
  <2>2. CASE ReadPTY(s)
    BY <1>4, <1>5, <2>0, <2>1, <2>2
  <2>3. CASE ~ReadPTY(s)
    <3>1. seq'[s] = seq[s]
      BY <1>0, <2>3, ReadStep
    <3>2. CASE sent'[s] = sent[s]
      BY <1>4, <2>0, <2>1, <3>1, <3>2
    <3>3. CASE sent'[s] # sent[s]
      <4>1. PICK m \in Message :
              /\ sent'[s] = Append(sent[s], m)
              /\ jobs[s] # <<>> /\ m.data # <<>> /\ m.data[1] = jobs[s][1]
              /\ Len(m.data) <= Len(jobs[s])
        BY <1>0, <3>3, SentStep
      <4>2. jobs[s] = <<seq[s]>> /\ pty[s] = "dead"
        BY <1>2, <2>0, <4>1 DEF Only
      <4>3. Len(jobs[s]) = 1 /\ jobs[s][1] = seq[s]
        BY <4>2
      <4>4. m.data = <<seq[s]>>
        <5>1. PICK d \in Seq(Nat) : d = m.data
          BY DEF Message
        <5>a. Len(d) \in Nat /\ (d # <<>> => Len(d) # 0)
          OBVIOUS
        <5>b. \A n \in Nat : n <= 1 => n = 0 \/ n = 1
          OBVIOUS
        <5>c. Len(d) <= 1 /\ d # <<>>
          BY <4>1, <4>3, <5>1
        <5>d. Len(d) = 1
          BY <5>a, <5>b, <5>c
        <5>e. d[1] = seq[s]
          BY <4>1, <4>3, <5>1
        <5>2. Len(d) = 1 /\ d[1] = seq[s]
          BY <5>d, <5>e
        <5>3. d = <<d[1]>>
          BY <5>2
        <5> QED BY <5>1, <5>2, <5>3
      <4>5. PICK q \in Seq(Message) : q = sent[s]
        BY <1>0 DEF IInv, TypeOK
      <4>6. PICK a \in Nat : a = controls[s][i].after
        <5>1. controls[s] \in Seq(Notice)
          BY DEF TypesInv, ControlsTyped
        <5>2. controls[s][i] \in Notice
          BY <5>1
        <5> QED BY <5>2 DEF Notice
      <4>7. /\ Len(Append(q, m)) = Len(q) + 1 /\ Len(q) \in Nat
            /\ Append(q, m)[Len(q) + 1] = m
            /\ \A k \in 1..Len(q) : Append(q, m)[k] = q[k]
        OBVIOUS
      <4>8. CASE j \in (a + 1)..Len(q)
        <5>1. sent'[s][j] = sent[s][j]
          BY <4>1, <4>5, <4>7, <4>8
        <5> QED BY <1>4, <2>0, <2>1, <3>1, <4>2, <4>5, <4>6, <4>8, <5>1
      <4>9. CASE j = Len(q) + 1
        <5>1. sent'[s][j] = m
          BY <4>1, <4>5, <4>7, <4>9
        <5> QED BY <1>4, <2>0, <3>1, <4>2, <4>4, <5>1
      <4> QED BY SMTT(60), <4>1, <4>5, <4>6, <4>7, <4>8, <4>9
    <3> QED BY <3>2, <3>3
  <2> QED BY <2>2, <2>3
<1>13. ASSUME NEW i \in 1..Len(controls'[s]),
              controls'[s][i].kind = "session_exit"
       PROVE  /\ op'[Waiter[s]].at = "gone"
              /\ \A j \in (controls'[s][i].after + 1)..Len(sent'[s]) :
                   sent'[s][j].data = <<seq'[s]>> /\ pty'[s] = "dead"
  <2>1. CASE i \in 1..Len(controls[s]) /\ controls'[s][i] = controls[s][i]
    <3>1. op[Waiter[s]].at = "gone"
      BY <1>13, <2>1 DEF ExitInv, At
    <3> QED BY <1>9, <1>12, <1>13, <2>1, <3>1
  <2>2. ASSUME NEW n \in Notice, controls'[s][i] = n, n.after = Len(sent[s]),
               UNCHANGED vars, ExitReply(s)
        PROVE  /\ op'[Waiter[s]].at = "gone"
               /\ \A j \in (controls'[s][i].after + 1)..Len(sent'[s]) :
                    sent'[s][j].data = <<seq'[s]>> /\ pty'[s] = "dead"
    <3>1. sent' = sent /\ Len(sent[s]) \in Nat
      BY <1>0, <2>2 DEF vars, IInv, TypeOK
    <3>2. (controls'[s][i].after + 1)..Len(sent'[s]) = {}
      BY <2>2, <3>1
    <3> QED BY <1>7, <2>2, <3>2
  <2>3. PICK q \in Seq(Notice) : q = controls[s]
    BY DEF TypesInv, ControlsTyped
  <2>4. ASSUME NEW n \in Notice
        PROVE  /\ Len(Append(q, n)) = Len(q) + 1 /\ Len(q) \in Nat
               /\ Append(q, n)[Len(q) + 1] = n
               /\ \A k \in 1..Len(q) : Append(q, n)[k] = q[k]
    OBVIOUS
  <2>5. CASE controls'[s] = controls[s]
    BY <2>1, <2>5
  <2>6. CASE controls'[s] # controls[s]
    <3>1. PICK n \in Notice :
            /\ controls'[s] = Append(controls[s], n) /\ n.after = Len(sent[s])
            /\ UNCHANGED vars
            /\ n.kind = "session_exit" => ExitReply(s)
      BY <2>6, ControlStep
    <3>2. i \in 1..Len(q) \/ i = Len(q) + 1
      BY <2>3, <2>4, <3>1
    <3>3. CASE i \in 1..Len(q)
      BY <2>1, <2>3, <2>4, <3>1, <3>3
    <3>4. CASE i = Len(q) + 1
      <4>1. controls'[s][i] = n
        BY <2>3, <2>4, <3>1, <3>4
      <4> QED BY <1>13, <2>2, <3>1, <4>1
    <3> QED BY <3>2, <3>3, <3>4
  <2> QED BY <2>5, <2>6
<1> QED BY <1>10, <1>11, <1>13

\* session_exit overtakes at most one write, that which the reader held, or had
\* still to number, when the session was closed (waitExit of pty.go and the
\* OnExit callback of daemon.go).
THEOREM ExitKeepsItsPlace == EgressSpec => []ExitOvertakesOneWrite
<1> DEFINE Inv == TypesInv /\ PlaceInv /\ ExitInv
<1>1. EgressInit => Inv
  BY TypesInit, PlaceInit, ExitInit
<1>2. Inv /\ [EgressNext]_allVars => Inv'
  BY TypesStep, PlaceStep, ExitStep
<1>3. ExitInv => ExitOvertakesOneWrite
  <2> SUFFICES ASSUME ExitInv, NEW s \in Sessions,
                      NEW i \in 1..Len(controls[s]),
                      controls[s][i].kind = "session_exit",
                      NEW j \in (controls[s][i].after + 1)..Len(sent[s]),
                      NEW k \in (controls[s][i].after + 1)..Len(sent[s])
               PROVE  sent[s][j].data = sent[s][k].data /\ Len(sent[s][j].data) = 1
    BY DEF ExitOvertakesOneWrite
  <2>1. sent[s][j].data = <<seq[s]>> /\ sent[s][k].data = <<seq[s]>>
    BY DEF ExitInv
  <2> QED BY <2>1
<1>4. Inv => ExitOvertakesOneWrite
  BY <1>3
<1> HIDE DEF Inv
<1> QED BY <1>1, <1>2, <1>4, PTL DEF EgressSpec
-----------------------------------------------------------------------------
(* A history message and the writes it covers.                             *)

\* From SealTake on, nothing a history covers is buffered again, and once the
\* handler is out of the batcher nothing of it is detached either; so it stays
\* when the message has been sent.
HistInv ==
  /\ At(Remote, "sealed") \/ At(Remote, "history") =>
       LET s == op[Remote].s
           h == op[Remote].h IN
       /\ h <= seq[s]
       /\ client[Remote] = "sealed" => snapshot = h
       /\ client[Remote] # "sealed" => From(bufs[s], h)
       /\ client[Remote] = "idle" => From(jobs[s], h)
  /\ \A s \in Sessions : \A i \in 1..Len(controls[s]) :
       controls[s][i].kind \in {"history_data", "history_start"} =>
         /\ controls[s][i].h <= seq[s]
         /\ From(bufs[s], controls[s][i].h)
         /\ From(jobs[s], controls[s][i].h)
         /\ \A j \in (controls[s][i].after + 1)..Len(sent[s]) :
              sent[s][j].data[1] >= controls[s][i].h

\* Who moves the app's handler inside the batcher.
LEMMA RemoteClient ==
  ASSUME LinkInv, [EgressNext]_allVars
  PROVE  \/ client'[Remote] = client[Remote]
         \/ HistorySeal
         \/ /\ SealTake(Remote)
            /\ client[Remote] = "sealed" /\ client'[Remote] = "sending"
         \/ Return(Remote) /\ client'[Remote] = "idle"
         \/ client[Remote] = "idle" /\ client'[Remote] = "sending"
<1>0. /\ client \in [Clients -> {"idle", "sealed", "sending"}]
      /\ Remote \in Clients /\ Local \in Clients \ {Remote}
      /\ \A t \in Sessions : Waiter[t] \in Clients \ {Remote}
  BY EgressAssumption DEF LinkInv, IInv, TypeOK
<1>1. \/ UNCHANGED client
      \/ \E c \in Clients : SealTake(c)
      \/ \E g \in Goroutines : Return(g)
      \/ FlushAll(Remote) \/ FlushAll(Local) \/ HistorySeal
      \/ \E t \in Sessions : ExitFlush(t)
  BY DEF EgressNext, allVars, vars, lockVars, ReadPTY, Write, DropOutput,
     Skip, CheckSubscribed, CheckLink, AddOutput, AddContiguous, AddAfterGap,
     HistoryUnmute, PauseFlush, RefuseRequest, CreateSubscribe, Destroy, WaitExit, OnExit,
     ExitReply, BatcherStep, HistoryFlush, HistoryReply, HistoryEndFlush,
     HistoryEnd, HistorySubscribe, PauseMute, CreateStart, CreateFail,
     CreateReplyFlush, CreateReply, FinalReply, DestroyUnsubscribe, Takeover,
     TakeoverFlush, TakeoverReply, PeerOnline, PeerOffline, Kicked, PeerStep,
     Reset, Verify, RelayClosed, ReadLoopEnds, SetSecCode, RelayUnset,
     RelayCleanup, RelayUp, FlushBefore,
     FlushSession, Insert, Emit, Elapse, Tick
<1>2. ASSUME NEW c \in Clients, FlushAll(c)
      PROVE  /\ c # Remote => client'[Remote] = client[Remote]
             /\ c = Remote => /\ client[Remote] = "idle"
                              /\ client'[Remote] = "sending"
  BY <1>0, <1>2 DEF FlushAll
<1>3. ASSUME NEW c \in Clients, SealTake(c)
      PROVE  \/ client'[Remote] = client[Remote]
             \/ /\ SealTake(Remote)
                /\ client[Remote] = "sealed" /\ client'[Remote] = "sending"
  BY <1>0, <1>3 DEF SealTake, SealTakeBy
<1>4. ASSUME NEW g \in Goroutines, Return(g)
      PROVE  \/ client'[Remote] = client[Remote]
             \/ Return(Remote) /\ client'[Remote] = "idle"
  BY <1>0, <1>4 DEF Return
<1>5. \A t \in Sessions : ExitFlush(t) => FlushAll(Waiter[t])
  BY DEF ExitFlush, FlushBefore
<1> QED BY <1>0, <1>1, <1>2, <1>3, <1>4, <1>5

\* The height SealAt detaches up to is that of the seal in progress.
LEMMA SnapshotFrame ==
  ASSUME LinkInv, [EgressNext]_allVars, client[Remote] = "sealed"
  PROVE  snapshot' = snapshot \/ HistorySeal \/ SealTake(Remote)
<1>1. \/ snapshot' = snapshot \/ HistorySeal
      \/ \E c \in Clients : SealTake(c)
  BY DEF EgressNext, allVars, vars, entryVars, lockVars, ReadPTY, Write,
     DropOutput, Skip, CheckSubscribed, CheckLink, AddOutput, AddContiguous,
     AddAfterGap, HistoryUnmute, PauseFlush, RefuseRequest, CreateSubscribe, Destroy,
     WaitExit, OnExit, ExitFlush, ExitReply, BatcherStep, HistoryFlush,
     HistoryReply, HistoryEndFlush, HistoryEnd, HistorySubscribe, PauseMute,
     CreateStart, CreateFail, CreateReplyFlush, CreateReply, FinalReply,
     DestroyUnsubscribe, Takeover, TakeoverFlush, TakeoverReply, PeerOnline,
     PeerOffline, Kicked, PeerStep, Reset, Verify, RelayClosed, ReadLoopEnds,
     SetSecCode, RelayUnset, RelayCleanup,
     RelayUp, FlushBefore, FlushAll, Take, FlushSession, Insert, Emit, Elapse,
     Tick, Return
<1>2. ASSUME NEW c \in Clients, SealTake(c) PROVE c = Remote
  <2>1. client[c] = "sealed" /\ Remote \in Clients
    BY <1>2, EgressAssumption DEF SealTake, SealTakeBy
  <2> QED BY <2>1 DEF LinkInv, IInv, LockInv
<1> QED BY <1>1, <1>2

\* Which step takes the handler between the seal and its reply.
LEMMA HistoryMoves ==
  ASSUME HandlersTyped, [EgressNext]_allVars,
         op'[Remote].at \in {"sealed", "history"}
  PROVE  \/ HistorySeal
         \/ op'[Remote] = op[Remote]
         \/ /\ op[Remote].at = "sealed"
            /\ op'[Remote].s = op[Remote].s /\ op'[Remote].h = op[Remote].h
<1>1. Remote \in Clients
  BY EgressAssumption
<1>2. CASE RemoteGoesOn
  <2>1. \/ HistorySeal \/ Done(Remote) \/ HistoryFlush
        \/ \E where \in Places \ {"sealed", "history"} : Move(Remote, where)
    BY <1>2 DEF RemoteGoesOn, HistoryReply, Places,
       HistoryEndFlush, HistoryEnd, HistorySubscribe, PauseMute, CreateStart,
       CreateFail, CreateReplyFlush, CreateReply, DestroyUnsubscribe,
       FinalReply, FlushBefore
  <2>2. Done(Remote) => op'[Remote].at = "idle"
    BY <1>1, OpEnds
  <2>3. \A where : Move(Remote, where) =>
          /\ op'[Remote].at = where
          /\ op'[Remote].s = op[Remote].s /\ op'[Remote].h = op[Remote].h
    BY <1>1, OpMoves
  <2>4. HistoryFlush => op[Remote].at = "sealed" /\ Move(Remote, "history")
    BY DEF HistoryFlush, FlushBefore, Ready, At
  <2> QED BY <2>1, <2>2, <2>3, <2>4
<1> QED BY <1>2, RemoteStep

LEMMA HistInit == EgressInit => HistInv
<1> SUFFICES ASSUME EgressInit PROVE HistInv
  OBVIOUS
<1>1. ~At(Remote, "sealed") /\ ~At(Remote, "history")
  BY EgressAssumption DEF EgressInit, Idle, At
<1>2. \A s \in Sessions : controls[s] = <<>>
  BY DEF EgressInit
<1>3. 1..Len(<<>>) = {}
  OBVIOUS
<1> QED BY <1>1, <1>2, <1>3 DEF HistInv

\* The first half: while the handler is between the seal and its reply.
LEMMA HistHandlerStep ==
  ASSUME TypesInv, HistInv, [EgressNext]_allVars,
         op'[Remote].at \in {"sealed", "history"}
  PROVE  LET s == op'[Remote].s
             h == op'[Remote].h IN
         /\ h <= seq'[s]
         /\ client'[Remote] = "sealed" => snapshot' = h
         /\ client'[Remote] # "sealed" => From(bufs'[s], h)
         /\ client'[Remote] = "idle" => From(jobs'[s], h)
<1>0. /\ LinkInv /\ IInv /\ HandlersTyped /\ Named /\ [BatcherNext]_vars
      /\ Remote \in Clients /\ TypeOK /\ OrderInv
  BY LinkStep, EgressAssumption DEF TypesInv, LinkInv, IInv
<1>1. CASE HistorySeal
  <2>1. PICK s \in Sessions : s = op[Remote].s
    BY <1>0, <1>1 DEF HistorySeal, Ready, At, Named
  <2>2. /\ op'[Remote].s = s /\ op'[Remote].h = HistorySeq(s)
    BY <1>0, <1>1, <2>1, SealMoves
  <2>3. /\ client'[Remote] = "sealed" /\ snapshot' = HistorySeq(s)
        /\ seq'[s] = seq[s] /\ seq[s] \in Nat
    BY <1>0, <1>1, <2>1 DEF HistorySeal, SealAt, entryVars, HistorySeq, TypeOK
  <2>4. HistorySeq(s) <= seq[s]
    BY <2>3 DEF HistorySeq
  <2> QED BY <2>2, <2>3, <2>4
<1>2. CASE ~HistorySeal
  <2>0. /\ op[Remote].at \in {"sealed", "history"}
        /\ op'[Remote].s = op[Remote].s /\ op'[Remote].h = op[Remote].h
    BY <1>0, <1>2, HistoryMoves
  <2>1. PICK s \in Sessions, h \in Nat : s = op[Remote].s /\ h = op[Remote].h
    BY <1>0, <2>0 DEF Named, HandlersTyped
  <2>2. /\ h <= seq[s] /\ seq[s] \in Nat
        /\ client[Remote] = "sealed" => snapshot = h
        /\ client[Remote] # "sealed" => From(bufs[s], h)
        /\ client[Remote] = "idle" => From(jobs[s], h)
    BY <1>0, <2>0, <2>1 DEF HistInv, At, TypeOK
  <2>3. seq'[s] \in Nat /\ seq[s] <= seq'[s]
    <3>1. ReadPTY(s) => seq'[s] = seq[s] + 1
      BY <1>0 DEF ReadPTY, Write, TypeOK
    <3> QED BY <1>0, <2>2, <3>1, ReadStep
  <2>4. ASSUME SealTake(Remote), client[Remote] = "sealed"
        PROVE  From(bufs'[s], h)
    <3>1. snapshot = h
      BY <2>2, <2>4
    <3>2. PICK k \in 0..Len(bufs[s]) :
            /\ bufs'[s] \in Seq(Nat) /\ Len(bufs'[s]) = Len(bufs[s]) - k
            /\ \A i \in 1..(Len(bufs[s]) - k) : bufs'[s][i] = bufs[s][k + i]
            /\ k < Len(bufs[s]) => bufs[s][k + 1] > snapshot
      BY <1>0, <2>4, SealTakeFacts
    <3>3. PICK b \in Seq(Nat), r \in Seq(Nat) : b = bufs[s] /\ r = bufs'[s]
      BY <1>0, <3>2 DEF TypeOK
    <3>4. ASSUME r # <<>> PROVE r[1] >= h
      <4>1. Len(r) \in Nat /\ Len(r) # 0 /\ Len(b) \in Nat
        BY <3>4
      <4>2. k \in Nat /\ 1 \in 1..(Len(b) - k) /\ k < Len(b) /\ k + 1 \in 1..Len(b)
        BY <3>2, <3>3, <4>1
      <4>3. r[1] = b[k + 1] /\ b[k + 1] > h
        BY <3>1, <3>2, <3>3, <4>2
      <4>4. b[k + 1] \in Nat
        BY <4>2
      <4> QED BY <4>3, <4>4
    <3> QED BY <3>3, <3>4 DEF From
  <2>5. ASSUME client[Remote] # "sealed"
        PROVE  /\ From(bufs'[s], h)
               /\ client[Remote] = "idle" => From(jobs'[s], h)
    BY <1>0, <2>2, <2>5, FromStep
  <2>6. client'[Remote] = "sealed" => client[Remote] = "sealed" /\ ~SealTake(Remote)
    <3>1. SealTake(Remote) => client'[Remote] = "sending"
      BY <1>0 DEF SealTake, SealTakeBy, TypeOK
    <3> QED BY <1>0, <1>2, <3>1, RemoteClient
  <2>7. client'[Remote] = "sealed" => snapshot' = h
    BY <1>0, <1>2, <2>2, <2>6, SnapshotFrame
  <2>8. client'[Remote] # "sealed" => From(bufs'[s], h)
    <3>1. CASE client[Remote] # "sealed"
      BY <2>5, <3>1
    <3>2. CASE client[Remote] = "sealed"
      <4>1. Return(Remote) => client[Remote] # "sealed"
        BY <1>0 DEF Return
      <4> QED BY <1>0, <1>2, <2>4, <3>2, <4>1, RemoteClient
    <3> QED BY <3>1, <3>2
  <2>9. ASSUME client'[Remote] = "idle" PROVE From(jobs'[s], h)
    <3>1. CASE client[Remote] = "idle"
      BY <2>5, <3>1
    <3>2. CASE Return(Remote)
      <4>1. jobs'[s] = <<>>
        BY <3>2 DEF Return, NoJobs
      <4> QED BY <4>1 DEF From
    <3> QED BY <1>0, <1>2, <2>9, <3>1, <3>2, RemoteClient
  <2> QED BY <2>0, <2>1, <2>2, <2>3, <2>7, <2>8, <2>9
<1> QED BY <1>1, <1>2

LEMMA HistStep ==
  ASSUME TypesInv, HistInv, [EgressNext]_allVars
  PROVE  HistInv'
<1>0. /\ LinkInv /\ IInv /\ HandlersTyped /\ Named /\ [BatcherNext]_vars
      /\ Remote \in Clients /\ TypeOK
  BY LinkStep, EgressAssumption DEF TypesInv, LinkInv, IInv
<1>1. At(Remote, "sealed")' \/ At(Remote, "history")' =>
        LET s == op'[Remote].s
            h == op'[Remote].h IN
        /\ h <= seq'[s]
        /\ client'[Remote] = "sealed" => snapshot' = h
        /\ client'[Remote] # "sealed" => From(bufs'[s], h)
        /\ client'[Remote] = "idle" => From(jobs'[s], h)
  BY HistHandlerStep DEF At
<1>2. ASSUME NEW s \in Sessions, NEW i \in 1..Len(controls'[s]),
             controls'[s][i].kind \in {"history_data", "history_start"}
      PROVE  /\ controls'[s][i].h <= seq'[s]
             /\ From(bufs'[s], controls'[s][i].h)
             /\ From(jobs'[s], controls'[s][i].h)
             /\ \A j \in (controls'[s][i].after + 1)..Len(sent'[s]) :
                  sent'[s][j].data[1] >= controls'[s][i].h
  <2>0. seq[s] \in Nat /\ controls[s] \in Seq(Notice) /\ sent[s] \in Seq(Message)
        /\ bufs[s] \in Seq(Nat) /\ jobs[s] \in Seq(Nat)
    BY <1>0 DEF TypesInv, ControlsTyped, TypeOK
  <2>1. seq'[s] \in Nat /\ seq[s] <= seq'[s]
    <3>1. ReadPTY(s) => seq'[s] = seq[s] + 1
      BY <1>0 DEF ReadPTY, Write, TypeOK
    <3> QED BY <1>0, <2>0, <3>1, ReadStep
  <2>2. PICK q \in Seq(Notice) : q = controls[s]
    BY <2>0
  <2>3. ASSUME NEW n \in Notice
        PROVE  /\ Len(Append(q, n)) = Len(q) + 1 /\ Len(q) \in Nat
               /\ Append(q, n)[Len(q) + 1] = n
               /\ \A k \in 1..Len(q) : Append(q, n)[k] = q[k]
    OBVIOUS
  <2>4. ASSUME i \in 1..Len(q), controls'[s][i] = q[i]
        PROVE  /\ controls'[s][i].h <= seq'[s]
               /\ From(bufs'[s], controls'[s][i].h)
               /\ From(jobs'[s], controls'[s][i].h)
               /\ \A j \in (controls'[s][i].after + 1)..Len(sent'[s]) :
                    sent'[s][j].data[1] >= controls'[s][i].h
    <3>0. q[i] \in Notice
      BY <2>4
    <3>1. PICK h \in Nat, a \in Nat : h = q[i].h /\ a = q[i].after
      BY <3>0 DEF Notice
    <3>2. /\ h <= seq[s] /\ From(bufs[s], h) /\ From(jobs[s], h)
          /\ \A j \in (a + 1)..Len(sent[s]) : sent[s][j].data[1] >= h
      BY <1>2, <2>2, <2>4, <3>1 DEF HistInv
    <3>3. From(bufs'[s], h) /\ From(jobs'[s], h)
      BY <1>0, <3>2, FromStep
    <3>4. h <= seq'[s]
      BY <2>0, <2>1, <3>2
    <3>5. ASSUME NEW j \in (a + 1)..Len(sent'[s])
          PROVE  sent'[s][j].data[1] >= h
      <4>1. CASE sent'[s] = sent[s]
        BY <3>2, <4>1
      <4>2. CASE sent'[s] # sent[s]
        <5>1. PICK m \in Message :
                /\ sent'[s] = Append(sent[s], m)
                /\ jobs[s] # <<>> /\ m.data[1] = jobs[s][1]
          BY <1>0, <4>2, SentStep
        <5>2. m.data[1] >= h
          BY <3>2, <5>1 DEF From
        <5>3. PICK p \in Seq(Message) : p = sent[s]
          BY <2>0
        <5>4. /\ Len(Append(p, m)) = Len(p) + 1 /\ Len(p) \in Nat
              /\ Append(p, m)[Len(p) + 1] = m
              /\ \A k \in 1..Len(p) : Append(p, m)[k] = p[k]
          OBVIOUS
        <5>5. CASE j \in (a + 1)..Len(p)
          <6>1. sent'[s][j] = sent[s][j]
            BY <5>1, <5>3, <5>4, <5>5
          <6> QED BY <3>2, <5>3, <5>5, <6>1
        <5>6. CASE j = Len(p) + 1
          <6>1. sent'[s][j] = m
            BY <5>1, <5>3, <5>4, <5>6
          <6> QED BY <5>2, <6>1
        <5>7. j \in (a + 1)..Len(p) \/ j = Len(p) + 1
          BY <5>1, <5>3, <5>4
        <5> QED BY <5>5, <5>6, <5>7
      <4> QED BY <4>1, <4>2
    <3> QED BY <2>4, <3>1, <3>3, <3>4, <3>5
  <2>5. CASE controls'[s] = controls[s]
    BY <2>2, <2>4, <2>5
  <2>6. CASE controls'[s] # controls[s]
    <3>1. PICK n \in Notice :
            /\ controls'[s] = Append(controls[s], n) /\ n.after = Len(sent[s])
            /\ UNCHANGED vars
            /\ n.kind \in {"history_data", "history_start"} =>
                 HistoryReply /\ op[Remote].s = s /\ n.h = op[Remote].h
      BY <2>6, ControlStep
    <3>2. i \in 1..Len(q) \/ i = Len(q) + 1
      BY <2>2, <2>3, <3>1
    <3>3. CASE i \in 1..Len(q)
      BY <2>2, <2>3, <2>4, <3>1, <3>3
    <3>4. CASE i = Len(q) + 1
      <4>1. controls'[s][i] = n
        BY <2>2, <2>3, <3>1, <3>4
      <4>2. HistoryReply /\ op[Remote].s = s /\ n.h = op[Remote].h
        BY <1>2, <3>1, <4>1
      <4>3. At(Remote, "history") /\ client[Remote] = "idle"
        BY <4>2 DEF HistoryReply, Ready
      <4>4. n.h <= seq[s] /\ From(bufs[s], n.h) /\ From(jobs[s], n.h)
        BY <4>2, <4>3 DEF HistInv
      <4>5. bufs' = bufs /\ jobs' = jobs /\ seq' = seq /\ sent' = sent
        BY <3>1 DEF vars
      <4>6. (n.after + 1)..Len(sent'[s]) = {}
        BY <2>0, <3>1, <4>5
      <4> QED BY <4>1, <4>4, <4>5, <4>6
    <3> QED BY <3>2, <3>3, <3>4
  <2> QED BY <2>5, <2>6
<1> QED BY <1>1, <1>2 DEF HistInv, At

\* Of the writes a history covers, at most its last one leaves after the
\* history message, and that one starts a message (SealAt and handleHistory).
THEOREM HistoryIsFollowed == EgressSpec => []HistoryFollowsItsWrites
<1> DEFINE Inv == TypesInv /\ HistInv
<1>1. EgressInit => Inv
  BY TypesInit, HistInit
<1>2. Inv /\ [EgressNext]_allVars => Inv'
  BY TypesStep, HistStep
<1>3. Inv => HistoryFollowsItsWrites
  BY DEF HistInv, HistoryFollowsItsWrites
<1> HIDE DEF Inv
<1> QED BY <1>1, <1>2, <1>3, PTL DEF EgressSpec
=============================================================================
