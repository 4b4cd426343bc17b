---------------------------- MODULE SessionEgress ----------------------------
(***************************************************************************)
(* What decides whether a terminal write reaches the app over the relay:   *)
(* sendOutput's checks (cmd/claw/daemon.go), the handlers that change what *)
(* they read, the life of a PTY session (cmd/claw/pty.go), and the control *)
(* messages that go out between outputs.  The batcher is OutputBatcher;    *)
(* every step here is a step of it or leaves it alone.                     *)
(*                                                                         *)
(* Goroutines: the PTY reader of each session, the flusher, Remote (the    *)
(* relay's read loop, which runs one handler at a time), Local (a takeover *)
(* asked for by a local client), Waiter[s] (waitExit of session s) and     *)
(* tsRelayLoop, which cleans up after a relay while the read loop may      *)
(* still be in a handler.  sendOutput's local Broadcast and the P2P path   *)
(* are left out.                                                           *)
(***************************************************************************)
EXTENDS OutputBatcher

CONSTANTS
  Remote, Local,  \* clients of the batcher
  Waiter,         \* Waiter[s]: the client that waits for the exit of s
  MaxOps,         \* bound on the requests of the app
  MaxFaults       \* bound on exits, takeovers, peer and code changes and losses

ASSUME EgressAssumption ==
  /\ {Remote, Local} \subseteq Clients /\ Remote # Local
  /\ Waiter \in [Sessions -> Clients \ {Remote, Local}]
  /\ \A s, t \in Sessions : Waiter[s] = Waiter[t] => s = t
  /\ MaxOps \in Nat /\ MaxFaults \in Nat

VARIABLES
  pty,         \* pty[s]: "none", "running" (listed), "last" (closed, with one
               \* read the reader already has), "dead"
  subscribed,  \* d.subscribed
  muted,       \* d.muted
  verified,    \* d.secCodeVerified
  relay,       \* the connection: "up", "closed" (closeCh is closed, its read
               \* loop may be in a handler) or "dead" (not connected any more)
  tsLoop,      \* tsRelayLoop: "waits" for its end, "cleans" up or "sleeps"
               \* (d.wsRelay is unset)
  gate,        \* gate[s]: how far sendOutput is with the write in hand:
               \* "checks", "subscribed", "open" or "shut"
  op,          \* op[c]: the handler c runs: [at, s, h]
  ops, faults, \* requests begun, faults so far
  controls,    \* controls[s]: control messages about s, in order:
               \* [kind, h, after], after = Len(sent[s]) when it was sent
  \* History variables, read by no action:
  expects,     \* expects[s]: {} or {[h, attached]}, the app has been told
               \* everything up to h and is to be sent everything after it
  mutedAt      \* mutedAt[s]: seq[s] when the mute in force was set

subs   == <<subscribed, muted>>
link   == <<verified, relay, tsLoop>>
budget == <<ops, faults>>
told   == <<controls, expects, mutedAt>>
egressVars == <<pty, subscribed, muted, verified, relay, tsLoop, gate, op,
                ops, faults, controls, expects, mutedAt>>
allVars == <<vars, egressVars>>

Idle == [at |-> "idle", s |-> NoOne, h |-> 0]
At(c, where) == op[c].at = where
\* c is at the given place of its handler and not inside the batcher.
Ready(c, where) == At(c, where) /\ client[c] = "idle"
Move(c, where) == op' = [op EXCEPT ![c].at = where]
Done(c) == op' = [op EXCEPT ![c] = Idle]
\* The read loop has a message: one may come in while closeCh is closed.
Reads == relay # "dead" /\ At(Remote, "idle")
\* relayConnected: the connection is there and says that it is connected.
Connected == relay # "dead" /\ tsLoop # "sleeps"
\* What the app gets from now on can reach it.
Reachable == verified /\ relay = "up"
\* The read loop starts on a request about session s.
Begin(where, s) ==
  /\ Reads /\ ops < MaxOps
  /\ ops' = ops + 1
  /\ op' = [op EXCEPT ![Remote] = [at |-> where, s |-> s, h |-> 0]]
  /\ UNCHANGED faults

Fault == faults < MaxFaults /\ faults' = faults + 1 /\ UNCHANGED ops

\* Nobody: what the app may expect once it has been cut off.
Nobody == [s \in Sessions |-> {}]

EgressInit ==
  /\ BatcherInit
  /\ pty \in [Sessions -> {"none", "running"}]
  /\ subscribed \in [Sessions -> BOOLEAN]
  /\ \A s \in Sessions : subscribed[s] => pty[s] = "running"
  /\ muted = [s \in Sessions |-> FALSE]
  /\ verified = TRUE
  /\ relay = "up" /\ tsLoop = "waits"
  /\ gate = [s \in Sessions |-> "checks"]
  /\ op = [c \in Clients |-> Idle]
  /\ ops = 0 /\ faults = 0
  /\ controls = [s \in Sessions |-> <<>>]
  /\ expects = [s \in Sessions |->
                  IF subscribed[s] THEN {[h |-> 0, attached |-> TRUE]} ELSE {}]
  /\ mutedAt = [s \in Sessions |-> 0]
-----------------------------------------------------------------------------
(* The PTY reader: History.Write, sendOutput, Add.                         *)

ReadPTY(s) ==
  /\ pty[s] \in {"running", "last"}
  /\ Write(s)
  /\ pty' = [pty EXCEPT ![s] = IF @ = "last" THEN "dead" ELSE @]
  /\ gate' = [gate EXCEPT ![s] = "checks"]
  /\ UNCHANGED <<subs, link, op, budget, told>>

\* What sendOutput reads under one subMu.RLock, and a mutant that forgets half.
SubscribedOnly(s) == subscribed[s]
WantsOutput(s) == subscribed[s] /\ ~muted[s]

CheckSubscribed(s) ==
  /\ reader[s] = "decide" /\ gate[s] = "checks"
  /\ gate' = [gate EXCEPT ![s] =
                IF WantsOutput(s) THEN "subscribed" ELSE "shut"]
  /\ UNCHANGED <<vars, pty, subs, link, op, budget, told>>

\* sendOutput reads secCodeVerified and relayConnected.
CheckLink(s) ==
  /\ reader[s] = "decide" /\ gate[s] = "subscribed"
  /\ gate' = [gate EXCEPT ![s] =
                IF verified /\ Connected THEN "open" ELSE "shut"]
  /\ UNCHANGED <<vars, pty, subs, link, op, budget, told>>

DropOutput(s) == gate[s] = "shut" /\ Skip(s) /\ UNCHANGED egressVars

AddOutput(s) == /\ gate[s] = "open"
                /\ AddContiguous(s) \/ AddAfterGap(s)
                /\ UNCHANGED egressVars

\* The rest of Add, the flusher, and whoever is inside the batcher.
BatcherStep ==
  /\ \/ \E s \in Sessions :
          FlushSession(s) \/ Insert(s) \/ Emit(s) \/ Elapse(s)
     \/ Tick
     \/ \E c \in Clients : SealTake(c)
     \/ \E g \in Goroutines : Return(g)
  /\ UNCHANGED egressVars
-----------------------------------------------------------------------------
(* sendJSON: FlushAll, then the message itself.                            *)

\* First half, on the way from one place of the handler to the next.
FlushBefore(c, here, next) ==
  /\ Ready(c, here)
  /\ FlushAll(c)
  /\ Move(c, next)

\* Mutant of Control: the message counts as sent after output still to come.
ControlAhead(s, kind, h) ==
  controls' = [controls EXCEPT ![s] =
                 Append(@, [kind |-> kind, h |-> h, after |-> seq[s] + 1])]

\* sendJSONDirect of a control message about session s.
Control(s, kind, h) ==
  controls' = [controls EXCEPT ![s] =
                 Append(@, [kind |-> kind, h |-> h, after |-> Len(sent[s])])]

\* c sends a control message that ends its handler.
FinalReply(c, here, kind) ==
  /\ Ready(c, here)
  /\ Control(op[c].s, kind, op[c].h)
  /\ Done(c)
  /\ UNCHANGED <<vars, pty, subs, link, gate, budget, expects, mutedAt>>
-----------------------------------------------------------------------------
(* request_history.                                                        *)

\* unmutePush, and a mutant in which the mute outlives the history request.
StayMuted(s) == UNCHANGED muted
UnmutePush(s) == muted' = [muted EXCEPT ![s] = FALSE]

HistoryUnmute(s) ==
  /\ verified
  /\ Begin("seal", s)
  /\ UnmutePush(s)
  /\ UNCHANGED <<vars, pty, subscribed, link, gate, told>>

\* The sequence number GetHistory returns: 0 for a session not in the table.
\* The mutant labels the history with the write that is to come.
NextSeq(s) == seq[s] + 1
HistorySeq(s) == IF pty[s] = "running" THEN seq[s] ELSE 0

\* SealAt(serialize).
HistorySeal ==
  LET s == op[Remote].s IN
  /\ Ready(Remote, "seal")
  /\ SealAt(Remote, s)
  /\ snapshot' = IF pty[s] = "running" THEN seq[s] ELSE 0
  /\ op' = [op EXCEPT ![Remote].at = "sealed", ![Remote].h = HistorySeq(s)]
  /\ expects' = [expects EXCEPT ![s] =
                   IF pty[s] = "running" /\ Reachable
                   THEN {[h |-> snapshot', attached |-> subscribed[s]]} ELSE @]
  /\ UNCHANGED <<pty, subs, link, gate, budget, controls, mutedAt>>

\* history_data, or history_start: sendJSON flushes first.
HistoryFlush ==
  /\ FlushBefore(Remote, "sealed", "history")
  /\ UNCHANGED <<pty, subs, link, gate, budget, told>>

\* The small history ends here; the large one goes on with its chunks, which
\* are sent without a flush, and history_end.
HistoryReply ==
  /\ Ready(Remote, "history")
  /\ \E kind \in {"history_data", "history_start"} :
       /\ Control(op[Remote].s, kind, op[Remote].h)
       /\ Move(Remote, IF kind = "history_data" THEN "subscribe" ELSE "chunks")
  /\ UNCHANGED <<vars, pty, subs, link, gate, budget, expects, mutedAt>>

HistoryEndFlush ==
  /\ FlushBefore(Remote, "chunks", "history_end")
  /\ UNCHANGED <<pty, subs, link, gate, budget, told>>

HistoryEnd ==
  /\ Ready(Remote, "history_end")
  /\ Control(op[Remote].s, "history_end", op[Remote].h)
  /\ Move(Remote, "subscribe")
  /\ UNCHANGED <<vars, pty, subs, link, gate, budget, expects, mutedAt>>

HistorySubscribe ==
  /\ Ready(Remote, "subscribe")
  /\ subscribed' = [subscribed EXCEPT ![op[Remote].s] = TRUE]
  /\ Done(Remote)
  /\ UNCHANGED <<vars, pty, muted, link, gate, budget, told>>
-----------------------------------------------------------------------------
(* push_pause: FlushAll, then mute.                                        *)

PauseFlush(s) ==
  /\ verified
  /\ Begin("mute", s)
  /\ FlushAll(Remote)
  /\ UNCHANGED <<pty, subs, link, gate, told>>

\* One session, or every subscribed one.
PauseMute ==
  /\ Ready(Remote, "mute")
  /\ \E Targets \in {{op[Remote].s}, {t \in Sessions : subscribed[t]}} :
       /\ muted' = [t \in Sessions |-> muted[t] \/ t \in Targets]
       /\ expects' = [t \in Sessions |->
                        IF t \in Targets THEN {} ELSE expects[t]]
       /\ mutedAt' = [t \in Sessions |-> IF t \in Targets /\ ~muted[t]
                                         THEN seq[t] ELSE mutedAt[t]]
  /\ Done(Remote)
  /\ UNCHANGED <<vars, pty, subscribed, link, gate, budget, controls>>
-----------------------------------------------------------------------------
(* create_session: subscribe, start the PTY, reply.                        *)

CreateSubscribe(s) ==
  /\ verified /\ pty[s] = "none"
  /\ Begin("create", s)
  /\ subscribed' = [subscribed EXCEPT ![s] = TRUE]
  /\ UNCHANGED <<vars, pty, muted, link, gate, told>>

CreateStart ==
  LET s == op[Remote].s IN
  /\ Ready(Remote, "create")
  /\ pty' = [pty EXCEPT ![s] = "running"]
  /\ Move(Remote, "created_flush")
  /\ expects' = [expects EXCEPT ![s] =
                              IF subscribed[s] /\ ~muted[s] /\ Reachable
                              THEN {[h |-> 0, attached |-> TRUE]} ELSE {}]
  /\ UNCHANGED <<vars, subs, link, gate, budget, controls, mutedAt>>

CreateFail ==
  /\ Ready(Remote, "create")
  /\ subscribed' = [subscribed EXCEPT ![op[Remote].s] = FALSE]
  /\ Move(Remote, "error_flush")
  /\ UNCHANGED <<vars, pty, muted, link, gate, budget, told>>

CreateReplyFlush ==
  /\ \/ FlushBefore(Remote, "created_flush", "session_created")
     \/ FlushBefore(Remote, "error_flush", "error")
  /\ UNCHANGED <<pty, subs, link, gate, budget, told>>

\* checkSecCode refuses the request of an app that is not verified (any more).
RefuseRequest(s) ==
  /\ ~verified
  /\ Begin("error_flush", s)
  /\ UNCHANGED <<vars, pty, subs, link, gate, told>>

CreateReply == \/ FinalReply(Remote, "session_created", "session_created")
               \/ FinalReply(Remote, "error", "error")
-----------------------------------------------------------------------------
(* The end of a session: destroy_session, or the process exits.            *)

\* Session.Close: the reader may hold a read it has not numbered yet.
ClosePTY(s) ==
  pty' \in {[pty EXCEPT ![s] = "dead"]} \cup
           IF reader[s] = "read" THEN {[pty EXCEPT ![s] = "last"]} ELSE {}

Destroy(s) ==
  /\ verified /\ pty[s] = "running"
  /\ Begin("destroyed", s)
  /\ ClosePTY(s)
  /\ expects' = [expects EXCEPT ![s] = {}]
  /\ UNCHANGED <<vars, subs, link, gate, controls, mutedAt>>

DestroyUnsubscribe ==
  /\ Ready(Remote, "destroyed")
  /\ subscribed' = [subscribed EXCEPT ![op[Remote].s] = FALSE]
  /\ Done(Remote)
  /\ UNCHANGED <<vars, pty, muted, link, gate, budget, told>>

\* waitExit, once: remove the session from the table and close it.
WaitExit(s) ==
  /\ At(Waiter[s], "idle") /\ pty[s] # "none"
  /\ op' = [op EXCEPT ![Waiter[s]] = [at |-> "on_exit", s |-> s, h |-> 0]]
  /\ IF pty[s] = "running" THEN ClosePTY(s) /\ Fault
                            ELSE UNCHANGED <<pty, budget>>
  /\ expects' = [expects EXCEPT ![s] = {}]
  /\ UNCHANGED <<vars, subs, link, gate, controls, mutedAt>>

\* OnExit forgets the session, then sends session_exit.
OnExit(s) ==
  /\ Ready(Waiter[s], "on_exit")
  /\ subscribed' = [subscribed EXCEPT ![s] = FALSE]
  /\ muted' = [muted EXCEPT ![s] = FALSE]
  /\ Move(Waiter[s], "exit_flush")
  /\ UNCHANGED <<vars, pty, link, gate, budget, told>>

\* Mutant of ExitFlush: session_exit is sent with sendJSONDirect.
ExitNoFlush(s) ==
  /\ Ready(Waiter[s], "exit_flush")
  /\ Move(Waiter[s], "session_exit")
  /\ UNCHANGED <<vars, pty, subs, link, gate, budget, told>>

ExitFlush(s) ==
  /\ FlushBefore(Waiter[s], "exit_flush", "session_exit")
  /\ UNCHANGED <<pty, subs, link, gate, budget, told>>

ExitReply(s) ==
  /\ Ready(Waiter[s], "session_exit")
  /\ Control(s, "session_exit", 0)
  /\ Move(Waiter[s], "gone")
  /\ UNCHANGED <<vars, pty, subs, link, gate, budget, expects, mutedAt>>
-----------------------------------------------------------------------------
(* Takeover, peers and the relay.                                          *)

\* LocalTakeover: unsubscribe the app everywhere, then tell it.
Takeover ==
  /\ At(Local, "idle") /\ Fault
  /\ Move(Local, "kick_flush")
  /\ subscribed' = [s \in Sessions |-> FALSE]
  /\ expects' = Nobody
  /\ UNCHANGED <<vars, pty, muted, link, gate, controls, mutedAt>>

TakeoverFlush ==
  /\ FlushBefore(Local, "kick_flush", "kicked")
  /\ UNCHANGED <<pty, subs, link, gate, budget, told>>

TakeoverReply ==
  /\ Ready(Local, "kicked")
  /\ controls' = [s \in Sessions |-> Append(controls[s],
                    [kind |-> "kicked", h |-> 0, after |-> Len(sent[s])])]
  /\ Done(Local)
  /\ UNCHANGED <<vars, pty, subs, link, gate, budget, expects, mutedAt>>

\* set_sec_code of a local client: the app has to verify again.  Channel,
\* subscriptions and what is buffered stay.
SetSecCode ==
  /\ Fault
  /\ verified' = FALSE
  /\ expects' = Nobody
  /\ UNCHANGED <<vars, pty, subs, relay, tsLoop, gate, op, controls, mutedAt>>

\* One step of the read loop that drops what is buffered.
PeerStep ==
  /\ Reads /\ Fault
  /\ Reset(Remote)
  /\ expects' = Nobody
  /\ UNCHANGED <<pty, relay, tsLoop, gate, op, controls, mutedAt>>

\* A new app connection has to run the handshake again.
PeerOnline ==
  /\ PeerStep
  /\ verified' = FALSE
  /\ UNCHANGED subs

PeerOffline ==
  /\ PeerStep
  /\ subscribed' = [s \in Sessions |-> FALSE]
  /\ UNCHANGED <<muted, verified>>

Kicked ==
  /\ PeerStep
  /\ subscribed' = [s \in Sessions |-> FALSE]
  /\ muted' = [s \in Sessions |-> FALSE]
  /\ UNCHANGED verified

Verify ==
  /\ Reads /\ ~verified
  /\ verified' = TRUE
  /\ UNCHANGED <<vars, pty, subs, relay, tsLoop, gate, op, budget, told>>

\* closeCh is closed by writeMsg, pingLoop or Stop, whatever the read loop does.
RelayClosed ==
  /\ relay = "up" /\ Fault
  /\ relay' = "closed"
  /\ expects' = Nobody
  /\ UNCHANGED <<vars, pty, subs, verified, tsLoop, gate, op, controls,
                 mutedAt>>

\* The read fails, or closeCh is seen between two messages: readLoop's defer.
ReadLoopEnds ==
  /\ Reads
  /\ \/ relay = "up" /\ Fault
     \/ relay = "closed" /\ UNCHANGED budget
  /\ relay' = "dead"
  /\ expects' = Nobody
  /\ UNCHANGED <<vars, pty, subs, verified, tsLoop, gate, op, controls,
                 mutedAt>>

\* tsRelayLoop's cleanup, which does not wait for the read loop.
RelayCleanup ==
  /\ relay # "up" /\ tsLoop = "waits"
  /\ tsLoop' = "cleans"
  /\ subscribed' = [s \in Sessions |-> FALSE]
  /\ UNCHANGED <<vars, pty, muted, verified, relay, gate, op, budget, told>>

RelayUnset ==
  /\ tsLoop = "cleans"
  /\ tsLoop' = "sleeps"
  /\ UNCHANGED <<vars, pty, subs, verified, relay, gate, op, budget, told>>

\* The next connection; a handler of the last one may still be running, and
\* then the new read loop's first message waits for it here.
RelayUp ==
  /\ tsLoop = "sleeps"
  /\ relay' = "up" /\ tsLoop' = "waits"
  /\ UNCHANGED <<vars, pty, subs, verified, gate, op, budget, told>>
-----------------------------------------------------------------------------
EgressNext ==
  \/ \E s \in Sessions :
       \/ ReadPTY(s) \/ CheckSubscribed(s) \/ CheckLink(s)
       \/ DropOutput(s) \/ AddOutput(s)
       \/ HistoryUnmute(s) \/ PauseFlush(s) \/ CreateSubscribe(s) \/ Destroy(s)
       \/ RefuseRequest(s)
       \/ WaitExit(s) \/ OnExit(s) \/ ExitFlush(s) \/ ExitReply(s)
  \/ BatcherStep
  \/ HistorySeal \/ HistoryFlush \/ HistoryReply
  \/ HistoryEndFlush \/ HistoryEnd \/ HistorySubscribe
  \/ PauseMute
  \/ CreateStart \/ CreateFail \/ CreateReplyFlush \/ CreateReply
  \/ DestroyUnsubscribe
  \/ Takeover \/ TakeoverFlush \/ TakeoverReply
  \/ SetSecCode
  \/ PeerOnline \/ PeerOffline \/ Kicked \/ Verify
  \/ RelayClosed \/ ReadLoopEnds \/ RelayCleanup \/ RelayUnset \/ RelayUp

EgressSpec == EgressInit /\ [][EgressNext]_allVars
-----------------------------------------------------------------------------
(* Properties.                                                             *)

Places == {"idle", "seal", "sealed", "history", "chunks", "history_end",
           "subscribe", "mute", "create", "created_flush", "error_flush",
           "session_created", "error", "destroyed", "on_exit", "exit_flush",
           "session_exit", "gone", "kick_flush", "kicked"}

\* Type invariant.
EgressTypeOK ==
  /\ TypeOK
  /\ pty \in [Sessions -> {"none", "running", "last", "dead"}]
  /\ subscribed \in [Sessions -> BOOLEAN]
  /\ muted \in [Sessions -> BOOLEAN]
  /\ verified \in BOOLEAN
  /\ relay \in {"up", "closed", "dead"}
  /\ tsLoop \in {"waits", "cleans", "sleeps"}
  /\ gate \in [Sessions -> {"checks", "subscribed", "open", "shut"}]
  /\ op \in [Clients -> [at : Places, s : Sessions \cup {NoOne}, h : Nat]]
  /\ ops \in 0..MaxOps /\ faults \in 0..MaxFaults
  /\ \A s \in Sessions : \A i \in 1..Len(controls[s]) :
       controls[s][i].after \in 0..Len(sent[s])

\* A session that was created, or whose history was handed out while the app
\* was subscribed (the resume after push_pause), loses no write after that
\* point until the app mutes it, is taken over, has to verify again (a peer
\* change, or set_sec_code at any time), or the link or session ends; nothing
\* is promised by a handler that still runs when one of these has happened.
\* (The comments "Subscribe BEFORE creating PTY" and "so nothing races the
\* unmute" in daemon.go.)
GapFree ==
  \A s \in Sessions : \A e \in expects[s] :
    e.attached => \A w \in lost[s] : w <= e.h

\* Once the mute is set, nothing numbered later is given to the batcher or the
\* channel: at most the write the reader held slips out (sendOutput's checks).
MuteStopsOutput ==
  \A s \in Sessions : muted[s] =>
    \A w \in Carried(s) \cup Entries(jobs[s]) \cup Entries(bufs[s]) :
      w <= mutedAt[s]

\* session_exit overtakes at most one write, the one the reader held when the
\* session was closed: everything Added before OnExit's flush precedes it.
ExitOvertakesOneWrite ==
  \A s \in Sessions : \A i \in 1..Len(controls[s]) :
    controls[s][i].kind = "session_exit" =>
      \A j, k \in (controls[s][i].after + 1)..Len(sent[s]) :
        sent[s][j].data = sent[s][k].data /\ Len(sent[s][j].data) = 1

\* "those must be on the wire before the history message": of the writes a
\* history covers, at most its last one leaves after it, and that one starts
\* a message (handleHistory, SealAt).
HistoryFollowsItsWrites ==
  \A s \in Sessions : \A i \in 1..Len(controls[s]) :
    controls[s][i].kind \in {"history_data", "history_start"} =>
      \A j \in (controls[s][i].after + 1)..Len(sent[s]) :
        sent[s][j].data[1] >= controls[s][i].h
=============================================================================
