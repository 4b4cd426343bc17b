---------------------------- MODULE OutputBatcher ----------------------------
(***************************************************************************)
(* The relay output batcher (cmd/claw/output_batcher.go): PTY writes of    *)
(* every session are collected in per-session buffers and leave as few     *)
(* output messages.  Three kinds of goroutine meet here: the PTY reader of *)
(* each session, which numbers a write in the terminal history and Adds    *)
(* it; the 10ms flusher; and clients, which call FlushAll, SealAt, Reset   *)
(* and Stop around control messages, history snapshots and teardowns.      *)
(*                                                                         *)
(* Critical sections under b.mu contain no blocking call, so each is one   *)
(* step.  b.sendMu is held across several steps (take, then one step per   *)
(* message) and is modelled by its holder.  The content of a write is its  *)
(* sequence number; how many writes fit into one message depends on their  *)
(* bytes, so any split sendBatch could choose is allowed.                  *)
(***************************************************************************)
EXTENDS Naturals, Sequences

CONSTANTS
  Sessions,   \* terminal sessions; also the names of their reader goroutines
  Clients,    \* goroutines that call FlushAll, SealAt, Reset and Stop
  Flusher,    \* the ticker goroutine
  NoOne,      \* sendMu is free / no session is being dispatched
  RawCap,     \* outputRawCap, counted in writes
  MaxPieces,  \* the most pieces sendBatch cuts one write into
  MaxWrites   \* bound: MaxWrites[s] is the number of writes of session s

ASSUME BatcherAssumption ==
  /\ RawCap \in Nat \ {0}
  /\ MaxPieces \in Nat \ {0}
  /\ MaxWrites \in [Sessions -> Nat]
  /\ Sessions \cap Clients = {}
  /\ Flusher \notin Sessions \cup Clients
  /\ NoOne \notin Sessions \cup Clients \cup {Flusher}

VARIABLES
  seq,          \* seq[s]: Terminal.seq, the number of writes in the history
  reader,       \* reader[s]: where the reader goroutine of s stands
  bufs,         \* bufs[s]: entries of the buffer of s, <<>> when absent
  age,          \* age[s]: 0 fresh or absent, 1 past the interactive deadline,
                \*         2 past the idle one
  running,      \* the flusher goroutine has not been stopped
  client,       \* client[c]: "idle", "sealed" or "sending"
  sendMu,       \* holder of b.sendMu, or NoOne
  snapshot,     \* SealAt's h, while its caller is "sealed"
  jobs,         \* jobs[s]: entries the holder has detached and not yet sent
  cur,          \* the session whose job is partly sent, or NoOne
  pieces,       \* pieces of Head(jobs[cur]) already sent
  sent,         \* sent[s]: messages handed to deps.send, in order
  \* History variables, read by no action:
  seals,        \* seals[s]: the snapshots SealAt took of s
  lost          \* lost[s]: writes dropped by the caller of Add or by Reset

entryVars == <<seq, reader, bufs, age>>
lockVars  == <<client, sendMu, snapshot, jobs, cur, pieces>>
ghosts    == <<seals, lost>>
vars == <<seq, reader, bufs, age, running, client, sendMu,
          snapshot, jobs, cur, pieces, sent, seals, lost>>

Goroutines == Sessions \cup Clients \cup {Flusher}
NoJobs == [s \in Sessions |-> <<>>]
Last(b) == b[Len(b)]
Entries(b) == {b[i] : i \in DOMAIN b}
Carried(s) == UNION {Entries(sent[s][i].data) : i \in DOMAIN sent[s]}

BatcherInit ==
  /\ seq = [s \in Sessions |-> 0]
  /\ reader = [s \in Sessions |-> "read"]
  /\ bufs = [s \in Sessions |-> <<>>]
  /\ age = [s \in Sessions |-> 0]
  /\ running = TRUE
  /\ client = [c \in Clients |-> "idle"]
  /\ sendMu = NoOne
  /\ snapshot = 0
  /\ jobs = NoJobs
  /\ cur = NoOne
  /\ pieces = 0
  /\ sent = [s \in Sessions |-> <<>>]
  /\ seals = [s \in Sessions |-> {}]
  /\ lost = [s \in Sessions |-> {}]

-----------------------------------------------------------------------------
(* The PTY reader goroutine of a session: History.Write, then OnData.      *)

\* History.Write: the next write gets its number, under the terminal's lock.
Write(s) ==
  /\ reader[s] = "read"
  /\ seq[s] < MaxWrites[s]
  /\ seq' = [seq EXCEPT ![s] = @ + 1]
  /\ reader' = [reader EXCEPT ![s] = "decide"]
  /\ UNCHANGED <<bufs, age, running, lockVars, sent, ghosts>>

\* sendOutput's checks drop the write: Add is not called.
Skip(s) ==
  /\ reader[s] = "decide"
  /\ reader' = [reader EXCEPT ![s] = "read"]
  /\ lost' = [lost EXCEPT ![s] = @ \cup {seq[s]}]
  /\ UNCHANGED <<seq, bufs, age, running, lockVars, sent, seals>>

\* Mutant of AddContiguous: a gap in the sequence numbers goes unnoticed.
AddContiguousUnchecked(s) ==
  /\ reader[s] = "decide"
  /\ bufs' = [bufs EXCEPT ![s] = Append(@, seq[s])]
  /\ age' = [age EXCEPT ![s] = IF bufs[s] = <<>> THEN 0 ELSE @]
  /\ reader' = [reader EXCEPT ![s] = "read"]
  /\ UNCHANGED <<seq, running, lockVars, sent, ghosts>>

\* Add, when the write continues the segment or there is none.
AddContiguous(s) ==
  /\ reader[s] = "decide"
  /\ bufs[s] # <<>> => seq[s] = Last(bufs[s]) + 1
  /\ bufs' = [bufs EXCEPT ![s] = Append(@, seq[s])]
  /\ age' = [age EXCEPT ![s] = IF bufs[s] = <<>> THEN 0 ELSE @]
  /\ reader' = [reader EXCEPT ![s] = "read"]
  /\ UNCHANGED <<seq, running, lockVars, sent, ghosts>>

\* Add, when writes in between were dropped: b.mu is released to flush first.
AddAfterGap(s) ==
  /\ reader[s] = "decide"
  /\ bufs[s] # <<>>
  /\ seq[s] # Last(bufs[s]) + 1
  /\ reader' = [reader EXCEPT ![s] = "flush"]
  /\ UNCHANGED <<seq, bufs, age, running, lockVars, sent, ghosts>>

\* Add, back from FlushSession: a new buffer replaces whatever is there.
Insert(s) ==
  /\ reader[s] = "insert"
  /\ bufs' = [bufs EXCEPT ![s] = <<seq[s]>>]
  /\ age' = [age EXCEPT ![s] = 0]
  /\ reader' = [reader EXCEPT ![s] = "read"]
  /\ UNCHANGED <<seq, running, lockVars, sent, ghosts>>

-----------------------------------------------------------------------------
(* Taking b.sendMu and detaching entries.                                  *)

\* g takes b.sendMu and detaches the buffers of the sessions in Chosen.
Take(g, Chosen) ==
  /\ sendMu = NoOne
  /\ sendMu' = g
  /\ jobs' = [s \in Sessions |-> IF s \in Chosen THEN bufs[s] ELSE <<>>]
  /\ bufs' = [s \in Sessions |-> IF s \in Chosen THEN <<>> ELSE bufs[s]]
  /\ age' = [s \in Sessions |-> IF s \in Chosen THEN 0 ELSE age[s]]
  /\ UNCHANGED <<seq, running, snapshot, cur, pieces,
                 sent, ghosts>>

FlushSession(s) ==
  /\ reader[s] = "flush"
  /\ Take(s, {s})
  /\ UNCHANGED <<reader, client>>

\* Mutant of Due: only the byte budget is looked at.
DueWhenFull(s, interactive) == bufs[s] # <<>> /\ Len(bufs[s]) >= RawCap

\* Past the deadline of the tier in force, or at the byte budget.
Due(s, interactive) ==
  /\ bufs[s] # <<>>
  /\ \/ age[s] = 2
     \/ interactive /\ age[s] = 1
     \/ Len(bufs[s]) >= RawCap

\* One tick of the flusher that finds something to flush; whether the last
\* keystroke is recent is up to the user.
Tick ==
  /\ running
  /\ \E interactive \in BOOLEAN :
       /\ \E s \in Sessions : Due(s, interactive)
       /\ Take(Flusher, {s \in Sessions : Due(s, interactive)})
  /\ UNCHANGED <<reader, client>>

FlushAll(c) ==
  /\ client[c] = "idle"
  /\ Take(c, Sessions)
  /\ client' = [client EXCEPT ![c] = "sending"]
  /\ UNCHANGED reader

\* SealAt, first half: take b.sendMu and run snapshot(), which reads the
\* history's sequence number under the terminal's lock, or returns 0 for a
\* session that is gone.
SealAt(c, s) ==
  /\ client[c] = "idle"
  /\ sendMu = NoOne
  /\ sendMu' = c
  /\ client' = [client EXCEPT ![c] = "sealed"]
  /\ snapshot' \in {0, seq[s]}
  /\ seals' = [seals EXCEPT ![s] = @ \cup {snapshot'}]
  /\ UNCHANGED <<entryVars, running, jobs, cur, pieces, sent, lost>>

\* How many leading entries of a buffer are covered by the snapshot.
Split(b, h) ==
  CHOOSE k \in 0..Len(b) : /\ \A i \in 1..k : b[i] <= h
                           /\ k < Len(b) => b[k + 1] > h

\* SealTake around a rule that says what is detached and what is kept.
SealTakeBy(c, Detach(_), Keep(_)) ==
  /\ client[c] = "sealed"
  /\ client' = [client EXCEPT ![c] = "sending"]
  /\ jobs' = [s \in Sessions |-> Detach(s)]
  /\ bufs' = [s \in Sessions |-> Keep(s)]
  /\ age' = [s \in Sessions |-> IF bufs'[s] = <<>> THEN 0 ELSE age[s]]
  /\ snapshot' = 0
  /\ UNCHANGED <<seq, reader, running, sendMu, cur, pieces, sent, ghosts>>

Covered(s) == SubSeq(bufs[s], 1, Split(bufs[s], snapshot))
Rest(s) == SubSeq(bufs[s], Split(bufs[s], snapshot) + 1, Len(bufs[s]))

\* Mutants of SealTake: the remainder is deleted with the buffer; the buffer is
\* taken whole, as FlushAll does; prefix and remainder are swapped.
SealTakeDropsRest(c) == SealTakeBy(c, Covered, LAMBDA s : <<>>)
SealTakeWhole(c) == SealTakeBy(c, LAMBDA s : bufs[s], LAMBDA s : <<>>)
SealTakeSwapped(c) == SealTakeBy(c, Rest, Covered)

\* SealAt, second half: of every buffer, detach the covered prefix and keep
\* the rest as a segment of its own (firstAdd stays).
SealTake(c) == SealTakeBy(c, Covered, Rest)

-----------------------------------------------------------------------------
(* sendBatch: one message per step, b.sendMu held throughout.              *)

\* Mutant of Packed: the tail of a split write is discounted twice.
PackedMiscounted(job, k, p) ==
  [seq |-> job[k], n |-> IF p > 0 THEN k - 2 ELSE k, data |-> SubSeq(job, 1, k)]

\* The message that carries the next k entries of job, the first of which
\* has had p pieces sent already.  n counts the writes that begin in it.
Packed(job, k, p) ==
  [seq |-> job[k], n |-> IF p > 0 THEN k - 1 ELSE k, data |-> SubSeq(job, 1, k)]

\* Hand one message of session s to deps.send: it carries the next k entries,
\* the last of them only in part when it is cut.
Emit(s) ==
  /\ sendMu # NoOne
  /\ \A c \in Clients : client[c] # "sealed"
  /\ cur \in {NoOne, s}
  /\ jobs[s] # <<>>
  /\ \E k \in 1..Len(jobs[s]), cut \in BOOLEAN :
       LET before == IF k = 1 THEN pieces ELSE 0
           rest   == SubSeq(jobs[s], IF cut THEN k ELSE k + 1, Len(jobs[s]))
       IN /\ cut => before + 1 < MaxPieces
          /\ sent' = [sent EXCEPT ![s] = Append(@, Packed(jobs[s], k, pieces))]
          /\ jobs' = [jobs EXCEPT ![s] = rest]
          /\ pieces' = IF cut THEN before + 1 ELSE 0
          /\ cur' = IF rest = <<>> THEN NoOne ELSE s
  /\ UNCHANGED <<entryVars, running, client, sendMu, snapshot, ghosts>>

\* Everything detached has been sent: release b.sendMu and return.
Return(g) ==
  /\ sendMu = g
  /\ \A c \in Clients : client[c] # "sealed"
  /\ jobs = NoJobs
  /\ sendMu' = NoOne
  /\ reader' = [s \in Sessions |-> IF s = g THEN "insert" ELSE reader[s]]
  /\ client' = [c \in Clients |-> IF c = g THEN "idle" ELSE client[c]]
  /\ UNCHANGED <<seq, bufs, age, running, snapshot, jobs, cur,
                 pieces, sent, ghosts>>

-----------------------------------------------------------------------------
(* Reset and Stop take no sendMu; time belongs to the environment.          *)

\* Drop every buffered entry.  What a holder has detached is still sent.
Reset(c) ==
  /\ client[c] = "idle"
  /\ bufs' = [s \in Sessions |-> <<>>]
  /\ age' = [s \in Sessions |-> 0]
  /\ lost' = [s \in Sessions |-> lost[s] \cup Entries(bufs[s])]
  /\ UNCHANGED <<seq, reader, running, lockVars, sent, seals>>

Stop(c) ==
  /\ client[c] = "idle"
  /\ running
  /\ running' = FALSE
  /\ UNCHANGED <<entryVars, lockVars, sent, ghosts>>

\* A buffer grows older, from one deadline of the flusher to the next.
Elapse(s) ==
  /\ bufs[s] # <<>>
  /\ age[s] < 2
  /\ age' = [age EXCEPT ![s] = @ + 1]
  /\ UNCHANGED <<seq, reader, bufs, running, lockVars, sent, ghosts>>

-----------------------------------------------------------------------------
ReaderStep(s) == Write(s) \/ Skip(s) \/ AddContiguous(s) \/ AddAfterGap(s)
                 \/ FlushSession(s) \/ Insert(s)
ClientStep(c) == FlushAll(c) \/ SealTake(c) \/ Reset(c) \/ Stop(c)
                 \/ \E s \in Sessions : SealAt(c, s)

BatcherNext ==
  \/ \E s \in Sessions : ReaderStep(s) \/ Emit(s) \/ Elapse(s)
  \/ \E c \in Clients : ClientStep(c)
  \/ Tick
  \/ \E g \in Goroutines : Return(g)

BatcherSpec == BatcherInit /\ [][BatcherNext]_vars

\* Goroutines that can run do run; the flusher's ticks get their turn at the
\* mutex (sync.Mutex hands over to a waiter that has starved for 1ms); time passes.
BatcherFairness ==
  /\ SF_vars(Tick)
  /\ \A s \in Sessions : WF_vars(Emit(s)) /\ WF_vars(Elapse(s))
  /\ \A c \in Clients : WF_vars(SealTake(c))
  /\ \A g \in Goroutines : WF_vars(Return(g))

FairBatcherSpec == BatcherSpec /\ BatcherFairness
-----------------------------------------------------------------------------
(* Properties.                                                             *)

Pcs == {"read", "decide", "flush", "insert"}
Message == [seq : Nat, n : Nat, data : Seq(Nat)]

\* Type invariant.
TypeOK ==
  /\ seq \in [Sessions -> Nat]
  /\ reader \in [Sessions -> Pcs]
  /\ bufs \in [Sessions -> Seq(Nat)]
  /\ age \in [Sessions -> 0..2]
  /\ running \in BOOLEAN
  /\ client \in [Clients -> {"idle", "sealed", "sending"}]
  /\ sendMu \in Goroutines \cup {NoOne}
  /\ snapshot \in Nat
  /\ jobs \in [Sessions -> Seq(Nat)]
  /\ cur \in Sessions \cup {NoOne}
  /\ pieces \in Nat
  /\ sent \in [Sessions -> Seq(Message)]
  /\ seals \in [Sessions -> SUBSET Nat]
  /\ lost \in [Sessions -> SUBSET Nat]

\* A message carries consecutive writes ending in its seq; n of them begin in
\* it, the other (if any) is the tail of the write that ended the message before.
Labelled(s, j) ==
  LET m == sent[s][j] IN
    /\ m.data # <<>>
    /\ m.seq = Last(m.data)
    /\ \A i \in 1..Len(m.data) : m.data[i] + (Len(m.data) - i) = m.seq
    /\ \/ m.n = Len(m.data)
       \/ /\ m.n + 1 = Len(m.data)
          /\ j > 1 /\ sent[s][j - 1].seq = m.data[1]

\* The ordering contract of the file's header: every message's (seq, n) names
\* exactly the writes it carries, a tail fragment follows the piece it
\* continues, and the ranges [seq-n+1, seq] leave in increasing order without
\* overlapping, whichever of the reader, flusher and clients dispatched them.
WireContract ==
  \A s \in Sessions : \A j \in 1..Len(sent[s]) :
    /\ Labelled(s, j)
    /\ j > 1 => sent[s][j - 1].seq <= sent[s][j].seq - sent[s][j].n

\* Every write numbered so far is on the wire, detached, buffered, in the
\* reader's hands, or was dropped by sendOutput's checks or by Reset: no
\* interleaving of flushes, seals and Adds loses one.
NothingVanishes ==
  \A s \in Sessions :
    1..seq[s] = Carried(s) \cup Entries(jobs[s]) \cup Entries(bufs[s])
                \cup lost[s] \cup (IF reader[s] = "read" THEN {} ELSE {seq[s]})

Straddles(m, h) == m.data[1] <= h /\ h < m.seq

\* SealAt's comment says no batch straddles a history snapshot.  What the code
\* achieves of it: a message that reaches across a snapshot
\* repeats no more than the one write the snapshot ends with, the write that
\* was numbered but not yet Added when the snapshot was taken.
StraddleOnlyInFlight ==
  \A s \in Sessions : \A j \in 1..Len(sent[s]) :
    \A h \in seals[s] : Straddles(sent[s][j], h) => sent[s][j].data[1] = h

\* The batcher implements the abstract feed: writes reach the channel in
\* increasing contiguous runs, each at most once.
Feed == INSTANCE OutputFeed WITH written <- seq,
                                 delivered <- [s \in Sessions |-> Carried(s)]
FeedSpec == Feed!Spec

\* While the flusher runs, every buffer is empty again some time after a write
\* went in, so that no write stays for ever: the 10ms tick finds it by age even
\* if no client ever flushes and no more output arrives.
EventuallyFlushed ==
  \A s \in Sessions :
    (Entries(bufs[s]) # {}) ~> (Entries(bufs[s]) = {} \/ ~running)
-----------------------------------------------------------------------------
(* The inductive invariant behind WireContract and StraddleOnlyInFlight.   *)

\* The latest write that may already be with the batcher.
Added(s) == IF reader[s] = "read" THEN seq[s] ELSE seq[s] - 1

\* A segment of consecutive writes, none of them newer than top.
Segment(b, top) ==
  /\ \A i \in 1..Len(b) : b[i] = b[1] + (i - 1)
  /\ b # <<>> => b[1] >= 1 /\ Last(b) <= top

\* Only the holder of sendMu has detached entries; between SealAt's snapshot
\* and its take there are none; a partly sent write heads the current job.
LockInv ==
  /\ sendMu = NoOne => jobs = NoJobs
  /\ \A c \in Clients : client[c] # "idle" => sendMu = c
  /\ \A c \in Clients : client[c] = "sealed" => jobs = NoJobs
  /\ \A s \in Sessions : sendMu = s => reader[s] = "flush"
  /\ \A s \in Sessions : sendMu = s \/ reader[s] = "insert" => bufs[s] = <<>>
  /\ cur = NoOne => pieces = 0
  /\ \A s \in Sessions : cur = s => jobs[s] # <<>>

\* sent, then jobs, then bufs, then the write in the reader's hands: each
\* holds only writes newer than everything before it.
Ordered(s) ==
  /\ reader[s] # "read" => seq[s] >= 1
  /\ Segment(bufs[s], Added(s))
  /\ Segment(jobs[s], Added(s))
  /\ jobs[s] # <<>> /\ bufs[s] # <<>> => Last(jobs[s]) < bufs[s][1]
  /\ \A j \in 1..Len(sent[s]) :
       /\ sent[s][j].seq <= Added(s)
       /\ bufs[s] # <<>> => sent[s][j].seq < bufs[s][1]
       /\ jobs[s] # <<>> =>
            IF cur = s /\ pieces > 0 THEN sent[s][j].seq <= jobs[s][1]
                                     ELSE sent[s][j].seq < jobs[s][1]
  /\ cur = s /\ pieces > 0 =>
       sent[s] # <<>> /\ Last(sent[s]).seq = jobs[s][1]

OrderInv == \A s \in Sessions : Ordered(s)

\* A snapshot that has been sealed lies below every buffer and never strictly
\* inside a job; the one being sealed may still lie inside a buffer.
Sealed(s, h) ==
  /\ h <= seq[s]
  /\ bufs[s] # <<>> =>
       \/ h <= bufs[s][1]
       \/ h = snapshot /\ \E c \in Clients : client[c] = "sealed"
  /\ jobs[s] # <<>> => h <= jobs[s][1] \/ Last(jobs[s]) <= h

SealInv == \A s \in Sessions : \A h \in seals[s] : Sealed(s, h)

IInv == TypeOK /\ LockInv /\ OrderInv /\ SealInv /\ WireContract
        /\ StraddleOnlyInFlight
=============================================================================
