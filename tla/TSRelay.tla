------------------------------- MODULE TSRelay -------------------------------
(***************************************************************************)
(* One connection to the turn server (wsrelay.go) carrying frames of one   *)
(* encrypted channel (securechannel.go): from the goroutine that wraps a   *)
(* message to the peer that unwraps it.                                    *)
(*                                                                         *)
(* A sender numbers its frame under the channel's lock, releases it, takes *)
(* a snapshot of the connection under w.mu and then parks on a bounded     *)
(* queue: text frames on sendCh, binary ones on binaryCh.  One goroutine   *)
(* may use both: a tunnel sends its data in binary and its proxy_close as  *)
(* text, a transfer its chunks and then a cancel or an error.  writeLoop   *)
(* writes them, text first.  readLoop handles one message at a time and    *)
(* sends the reply itself, so while the reply is parked nothing is read,   *)
(* pongs included.  The link may die without a word; the write deadline    *)
(* and pingLoop are there to notice.                                       *)
(***************************************************************************)
EXTENDS Integers, Sequences, FiniteSets

CONSTANTS
    Senders,        \* the goroutines that send
    Reader,         \* the one that is readLoop
    Bulk,           \* those that send binary frames too: transfers, tunnels
    TextCap,        \* capacity of sendCh
    BinaryCap,      \* capacity of binaryCh
    PingLimit,      \* missed pongs that end the connection
    KernelCap,      \* bound: writes a dead link swallows before they block
    MaxFrames       \* bound: frames wrapped

ASSUME RelayAssumption ==
    /\ Reader \in Senders \ Bulk
    /\ Bulk \subseteq Senders
    /\ TextCap \in Nat \ {0}
    /\ BinaryCap \in Nat \ {0}
    /\ PingLimit \in Nat \ {0}
    /\ KernelCap \in Nat
    /\ MaxFrames \in Nat

VARIABLES
    sendSeq,    \* next number of the channel; also the frames wrapped so far
    at,         \* where every sender is
    sendCh,     \* queue of text frames
    binaryCh,   \* queue of binary frames
    writer,     \* where writeLoop is
    reading,    \* readLoop: "loop" (in ReadMessage), "handling" a message,
                \* "exit" (its defer has begun) or "done"
    connected,  \* w.connected
    closed,     \* closeCh is closed
    link,       \* the TCP connection: "up", "dead" (silently) or "closed"
    missed,     \* missedPongs
    pinging     \* pingLoop still runs

\* The peer, the kernel and history the program does not keep.
VARIABLES
    swallowed,  \* writes that went nowhere
    recvSeq,    \* the peer's recvSeq, -1 before the first frame (hasRecv)
    accepted,   \* frames the peer took
    rejected,   \* frames it refused as a replay
    dropped     \* frames a sender gave up before they were queued

peerVars == <<recvSeq, accepted, rejected>>
queueVars == <<sendCh, binaryCh>>
linkVars == <<connected, closed, link, missed, pinging, swallowed>>
vars == <<sendSeq, peerVars, queueVars, linkVars, at, writer, reading,
          dropped>>

-----------------------------------------------------------------------------
Idle == [pc |-> "idle"]
Frame(s, n, k) == [by |-> s, seq |-> n, kind |-> k]
\* The frame in the hands of a sender that is not idle.
InHand(s) == Frame(s, at[s].seq, at[s].kind)
\* What s may send, message by message.
KindsOf(s) == IF s \in Bulk THEN {"text", "binary"} ELSE {"text"}

Init ==
    /\ sendSeq = 0 /\ recvSeq = -1 /\ accepted = {} /\ rejected = {}
    /\ sendCh = <<>> /\ binaryCh = <<>>
    /\ connected = TRUE /\ closed = FALSE /\ link = "up"
    /\ missed = 0 /\ pinging = TRUE /\ swallowed = 0
    /\ at = [s \in Senders |-> Idle]
    /\ writer = [pc |-> "drain"]
    /\ reading = "loop"
    /\ dropped = {}

-----------------------------------------------------------------------------
(***************************************************************************)
(* w.mu is a read-write lock: a goroutine that waits to write keeps new    *)
(* readers out.  Senders hold it for the snapshot only.                    *)
(***************************************************************************)
\* Mutant of SharedHolders: the lock is held while parking on the queue.
SharedHoldersParked == {s \in Senders : at[s].pc \in {"snapshot", "parked"}}
SharedHolders == {s \in Senders : at[s].pc = "snapshot"}

CanLock == SharedHolders = {}
CanRLock == writer.pc # "lock" /\ reading # "exit"

-----------------------------------------------------------------------------
(***************************************************************************)
(* Senders: wrapOutgoingJSON / wrapOutgoingBinary, then SendJSON, SendRaw  *)
(* or SendBinaryCancelable.                                                *)
(***************************************************************************)
\* The reader sends only while it handles a message it has read, which it
\* goes on with when the connection is lost.
MayStart(s) == s = Reader => reading = "handling"

\* WrapJSON and WrapBinary number the frame and seal it under c.mu.
Wrap(s) ==
    /\ at[s].pc = "idle"
    /\ MayStart(s)
    /\ sendSeq < MaxFrames
    /\ sendSeq' = sendSeq + 1
    /\ \E k \in KindsOf(s) :
         at' = [at EXCEPT ![s] = [pc |-> "wrapped", seq |-> sendSeq, kind |-> k]]
    /\ UNCHANGED <<peerVars, queueVars, linkVars, writer, reading, dropped>>

RLock(s) ==
    /\ at[s].pc = "wrapped"
    /\ CanRLock
    /\ at' = [at EXCEPT ![s].pc = "snapshot"]
    /\ UNCHANGED <<sendSeq, peerVars, queueVars, linkVars, writer, reading,
                   dropped>>

\* A frame for a connection that is not up is dropped, its number used.
Snapshot(s) ==
    /\ at[s].pc = "snapshot"
    /\ IF connected
       THEN at' = [at EXCEPT ![s].pc = "parked"] /\ UNCHANGED dropped
       ELSE /\ at' = [at EXCEPT ![s] = Idle]
            /\ dropped' = dropped \cup {InHand(s)}
    /\ UNCHANGED <<sendSeq, peerVars, queueVars, linkVars, writer, reading>>

\* Mutant of Room, and the capacity the select waits for.
RoomAlways(queue, cap) == TRUE
Room(queue, cap) == Len(queue) < cap

\* Mutant of QueueFrame: the newest frame is taken first.
QueueFrameFirst(queue, f) == <<f>> \o queue
QueueFrame(queue, f) == Append(queue, f)

Enqueue(s) ==
    /\ at[s].pc = "parked"
    /\ \/ /\ at[s].kind = "binary"
          /\ Room(binaryCh, BinaryCap)
          /\ binaryCh' = QueueFrame(binaryCh, InHand(s))
          /\ UNCHANGED sendCh
       \/ /\ at[s].kind = "text"
          /\ Room(sendCh, TextCap)
          /\ sendCh' = QueueFrame(sendCh, InHand(s))
          /\ UNCHANGED binaryCh
    /\ at' = [at EXCEPT ![s] = Idle]
    /\ UNCHANGED <<sendSeq, peerVars, linkVars, writer, reading, dropped>>

\* Mutant of Woken: the select has a default branch.
WokenAlways(s) == TRUE
\* closeCh wakes every parked sender; a transfer's own cancel wakes it too when
\* it is a chunk that it has parked with.
Woken(s) == closed \/ at[s].kind = "binary"

GiveUp(s) ==
    /\ at[s].pc = "parked"
    /\ Woken(s)
    /\ at' = [at EXCEPT ![s] = Idle]
    /\ dropped' = dropped \cup {InHand(s)}
    /\ UNCHANGED <<sendSeq, peerVars, queueVars, linkVars, writer, reading>>

-----------------------------------------------------------------------------
(***************************************************************************)
(* writeLoop and writeMsg.                                                 *)
(***************************************************************************)
TakeText ==
    /\ writer.pc \in {"drain", "wait"}
    /\ sendCh # <<>>
    /\ writer' = [pc |-> "lock", frame |-> Head(sendCh)]
    /\ sendCh' = Tail(sendCh)
    /\ UNCHANGED <<sendSeq, peerVars, linkVars, binaryCh, at, reading, dropped>>

\* The first select found nothing to do.
NoText ==
    /\ writer.pc = "drain"
    /\ sendCh = <<>> /\ ~closed
    /\ writer' = [pc |-> "wait"]
    /\ UNCHANGED <<sendSeq, peerVars, queueVars, linkVars, at, reading, dropped>>

TakeBinary ==
    /\ writer.pc = "wait"
    /\ binaryCh # <<>>
    /\ writer' = [pc |-> "lock", frame |-> Head(binaryCh)]
    /\ binaryCh' = Tail(binaryCh)
    /\ UNCHANGED <<sendSeq, peerVars, linkVars, sendCh, at, reading, dropped>>

WriterReturns ==
    /\ writer.pc \in {"drain", "wait"}
    /\ closed
    /\ writer' = [pc |-> "done"]
    /\ UNCHANGED <<sendSeq, peerVars, queueVars, linkVars, at, reading, dropped>>

\* writeMsg takes w.mu for the connection.
WriterLock ==
    /\ writer.pc = "lock"
    /\ CanLock
    /\ writer' = [writer EXCEPT !.pc = "write"]
    /\ UNCHANGED <<sendSeq, peerVars, queueVars, linkVars, at, reading, dropped>>

\* The peer's UnwrapJSON / UnwrapBinary: numbers must grow, gaps are fine.
Unwrap(f) ==
    IF f.seq <= recvSeq
    THEN rejected' = rejected \cup {f} /\ UNCHANGED <<recvSeq, accepted>>
    ELSE /\ recvSeq' = f.seq
         /\ accepted' = accepted \cup {f}
         /\ UNCHANGED rejected

Write ==
    /\ writer.pc = "write"
    /\ writer' = [pc |-> "drain"]
    /\ \/ /\ link = "up"
          /\ Unwrap(writer.frame)
          /\ UNCHANGED <<closed, swallowed>>
       \/ /\ link = "dead" /\ swallowed < KernelCap
          /\ swallowed' = swallowed + 1
          /\ UNCHANGED <<closed, peerVars>>
       \/ /\ link = "closed" \/ (link = "dead" /\ swallowed = KernelCap)
          /\ closed' = TRUE
          /\ UNCHANGED <<swallowed, peerVars>>
    /\ UNCHANGED <<sendSeq, queueVars, connected, link, missed, pinging, at,
                   reading, dropped>>

-----------------------------------------------------------------------------
(***************************************************************************)
(* Close, readLoop, pingLoop and the network.                              *)
(***************************************************************************)
\* Mutant of ConnClosed: Close closes closeCh alone.
ConnClosedNot == link' = link
ConnClosed == link' = "closed"

\* Close closes closeCh at once and the connection when it gets w.mu.
CloseConn ==
    /\ closed /\ link # "closed"
    /\ CanLock
    /\ ConnClosed
    /\ UNCHANGED <<sendSeq, peerVars, queueVars, connected, closed, missed, pinging,
                   swallowed, at, writer, reading, dropped>>

\* Stop, or the supervisor replacing this connection.
CloseByOwner ==
    /\ ~closed
    /\ closed' = TRUE
    /\ UNCHANGED <<sendSeq, peerVars, queueVars, connected, link, missed, pinging,
                   swallowed, at, writer, reading, dropped>>

\* ReadMessage returns a message and its handler begins; the handler ends.
Receive ==
    /\ reading = "loop" /\ link = "up"
    /\ reading' = "handling"
    /\ UNCHANGED <<sendSeq, peerVars, queueVars, linkVars, at, writer, dropped>>

Handled ==
    /\ reading = "handling" /\ at[Reader].pc = "idle"
    /\ reading' = "loop"
    /\ UNCHANGED <<sendSeq, peerVars, queueVars, linkVars, at, writer, dropped>>

\* ReadMessage fails, or closeCh is seen once a message has been handled;
\* on a dead link it waits.
ReadFails ==
    /\ reading = "loop"
    /\ link = "closed" \/ (closed /\ link = "up")
    /\ reading' = "exit"
    /\ UNCHANGED <<sendSeq, peerVars, queueVars, linkVars, at, writer, dropped>>

\* readLoop's defer: not connected any more, then Close.
ReaderReturns ==
    /\ reading = "exit"
    /\ CanLock
    /\ connected' = FALSE
    /\ reading' = "done"
    /\ closed' = TRUE
    /\ UNCHANGED <<sendSeq, peerVars, queueVars, link, missed, pinging, swallowed, at,
                   writer, dropped>>

\* The pong handler runs inside ReadMessage.
Pong ==
    /\ reading = "loop"
    /\ link = "up" /\ missed > 0
    /\ missed' = 0
    /\ UNCHANGED <<sendSeq, peerVars, queueVars, connected, closed, link, pinging,
                   swallowed, at, writer, reading, dropped>>

PingTick ==
    /\ pinging
    /\ IF closed
       THEN pinging' = FALSE /\ UNCHANGED <<closed, missed>>
       ELSE IF missed >= PingLimit
       THEN pinging' = FALSE /\ closed' = TRUE /\ UNCHANGED missed
       ELSE /\ CanRLock
            /\ pinging' = connected
            /\ missed' = IF connected THEN missed + 1 ELSE missed
            /\ UNCHANGED closed
    /\ UNCHANGED <<sendSeq, peerVars, queueVars, connected, link, swallowed, at,
                   writer, reading, dropped>>

\* The network: the link dies silently, or is reset.
LinkFails ==
    /\ link = "up"
    /\ link' \in {"dead", "closed"}
    /\ UNCHANGED <<sendSeq, peerVars, queueVars, connected, closed, missed, pinging,
                   swallowed, at, writer, reading, dropped>>

WriteLoop == TakeText \/ NoText \/ TakeBinary \/ WriterReturns \/ WriterLock
             \/ Write
Progress(s) == RLock(s) \/ Snapshot(s)
Housekeeping == CloseConn \/ ReadFails \/ ReaderReturns

Next ==
    \/ \E s \in Senders : Wrap(s) \/ Progress(s) \/ Enqueue(s) \/ GiveUp(s)
    \/ WriteLoop \/ Housekeeping \/ Receive \/ Handled
    \/ PingTick \/ Pong \/ CloseByOwner \/ LinkFails

RelaySpec == Init /\ [][Next]_vars

(***************************************************************************)
(* Every goroutine keeps running: writeLoop, Close and readLoop's end, a   *)
(* handler that has nothing left to send, the ticker, and each sender that *)
(* is not parked on a full queue.  Nothing is assumed of the owner, the    *)
(* network, the peer or a transfer's cancel.                               *)
(***************************************************************************)
Fairness ==
    /\ WF_vars(WriteLoop)
    /\ WF_vars(Housekeeping)
    /\ WF_vars(Handled)
    /\ WF_vars(PingTick)
    /\ \A s \in Senders :
          WF_vars(Progress(s) \/ Enqueue(s) \/ (closed /\ GiveUp(s)))

FairRelaySpec == RelaySpec /\ Fairness

-----------------------------------------------------------------------------
(***************************************************************************)
(* Properties                                                              *)
(***************************************************************************)
Frames == {f \in [by : Senders, seq : 0..(sendSeq - 1),
                   kind : {"text", "binary"}] : f.kind \in KindsOf(f.by)}
SeqsOf(S) == {f.seq : f \in S}
Delivered == accepted \cup rejected

\* The frames that are with their sender, in a queue or with writeLoop.
Underway ==
    {InHand(s) : s \in {x \in Senders : at[x] # Idle}}
    \cup {sendCh[i] : i \in DOMAIN sendCh}
    \cup {binaryCh[i] : i \in DOMAIN binaryCh}
    \cup (IF writer.pc \in {"lock", "write"} THEN {writer.frame} ELSE {})

(***************************************************************************)
(* The type of the state; no queue grows past the capacity the channels    *)
(* are made with (NewWSTurnRelay).                                         *)
(***************************************************************************)
TypeOK ==
    /\ sendSeq \in 0..MaxFrames /\ recvSeq \in -1..(sendSeq - 1)
    /\ sendCh \in Seq(Frames) /\ Len(sendCh) <= TextCap
    /\ binaryCh \in Seq(Frames) /\ Len(binaryCh) <= BinaryCap
    /\ at \in [Senders -> {Idle} \cup
                 [pc : {"wrapped", "snapshot", "parked"},
                  seq : 0..(sendSeq - 1), kind : {"text", "binary"}]]
    /\ \A s \in Senders : at[s] # Idle => at[s].kind \in KindsOf(s)
    /\ writer \in [pc : {"drain", "wait", "done"}]
                  \cup [pc : {"lock", "write"}, frame : Frames]
    /\ reading \in {"loop", "handling", "exit", "done"}
    /\ connected \in BOOLEAN /\ closed \in BOOLEAN /\ pinging \in BOOLEAN
    /\ link \in {"up", "dead", "closed"}
    /\ missed \in 0..PingLimit /\ swallowed \in 0..KernelCap
    /\ accepted \subseteq Frames
    /\ rejected \subseteq Frames /\ dropped \subseteq Frames

(***************************************************************************)
(* The frames of one goroutine reach the peer in the order it wrapped      *)
(* them, kind by kind: the batcher's output, the chunks of one file or the *)
(* data of one tunnel are not refused because of themselves, although      *)
(* numbering, snapshot and queueing are separate steps beside those of     *)
(* others.  Between its kinds there is no order: a proxy_close overtakes   *)
(* the last data of its tunnel, which the peer then refuses (sendBatch,    *)
(* SendBinaryCancelable, writeLoop).                                       *)
(***************************************************************************)
WireKeepsSenderOrder ==
    \A f \in Delivered, g \in Underway :
        f.by = g.by /\ f.kind = g.kind => f.seq < g.seq

(***************************************************************************)
(* While the link is up and nobody closed the connection, every numbered   *)
(* frame is with its sender, in a queue, with writeLoop or at the peer;    *)
(* only a cancelled transfer gives frames up (SendJSON, SendRaw and        *)
(* SendBinaryCancelable wait for room, they never discard).                *)
(***************************************************************************)
NothingLostWhileUp ==
    link = "up" /\ ~closed =>
        /\ SeqsOf(Underway \cup Delivered \cup dropped) = 0..(sendSeq - 1)
        /\ \A f \in dropped : f.kind = "binary"

(***************************************************************************)
(* What the comments of SendRaw and writeMsg promise: a goroutine parked   *)
(* on the text queue never stays there, whatever happens to the link; the  *)
(* write deadline or the pings end a dead one and closeCh lets it go.      *)
(***************************************************************************)
SendersUnwind ==
    \A s \in Senders :
        at[s].pc = "parked" /\ at[s].kind = "text" ~> at[s] = Idle

(***************************************************************************)
(* A link that died silently is noticed although no read fails: the        *)
(* connection is closed and readLoop returns, so the supervisor waiting on *)
(* Done can reconnect (writeMsg, pingLoop, Close).                         *)
(***************************************************************************)
DeadLinkNoticed == link = "dead" ~> reading = "done" /\ ~connected
=============================================================================
