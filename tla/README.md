# A TLA+ development of the CLIAnywhere daemon

The daemon (`src/cmd/claw`) keeps terminal sessions alive on a host and shows
them to an app elsewhere.  It talks to the app through a turn server over one
WebSocket, or directly over a WebRTC data channel; everything the two say is
encrypted with keys from a SPAKE2 handshake.  The modules here model the parts
where goroutines meet, TLC checks them on small instances, and TLAPS proves
what matters most for every value of their constants.

    tlc -workers 2 -config MCOutputBatcher.cfg MCOutputBatcher
    tlapm LocalServerProofs.tla

## 1. The system and its parts

| Part | State | Operations | Meets the others through |
|---|---|---|---|
| PTY manager, terminal state (`pty.go`, `terminal.go`) | session table, per session a write counter and a scrollback | create, read loop, wait for exit, destroy, history | `OnData` and `OnExit` callbacks into the daemon; one reader and one waiter goroutine per session |
| Session egress (`daemon.go`: `sendOutput`, `handleHistory`, `handlePushPause`, ...) | `subscribed`, `muted`, `secCodeVerified` | the requests of the app, takeover, peer changes | read loop of the relay, local clients, PTY goroutines |
| Output batcher (`output_batcher.go`) | one buffer per session, `mu`, `sendMu` | `Add`, tick, `FlushSession`, `FlushAll`, `SealAt`, `Reset`, `Stop` | called by PTY readers and by everybody who sends a message; own flusher goroutine |
| Handshake (`secure_handshake.go`) | one slot (`pakeServer`, `pakeTimer`), `secure`, `secCodeVerified`, attempts | `pake_start`, `sec_confirm`, timeout, reset | a read goroutine per transport, timer callbacks, local clients |
| Secure channel (`securechannel.go`, `spake2.go`) | sequence numbers, keys | wrap, unwrap, reset | every sender; the read goroutines |
| Relay connection (`wsrelay.go`) | two bounded queues, `connected`, `closeCh` | send, read, write and ping loops, close | every sender parks on its queues |
| Relay supervisor (`daemon.go`: `startTSRelay`, `tsRelayLoop`, `Stop`) | the running loop, `wsRelay`, access key | connect, reconnect, swap of the key, stop | main and local clients start loops; `Stop` ends them |
| P2P connection (`webrtc.go`) | `rtc`, `pendingICE`, channel mode | offers, candidates, channel switch | signals come over the relay |
| File transfer (`filetransfer.go`) | staged files, active transfers, ack window | request, chunks, ack, cancel, delete | sends binary frames; cancelled by peer changes |
| Proxy tunnels (`proxy_manager.go`) | connection tables | connect, data, close, close all | one goroutine per tunnel |
| Local server (`local_server.go`) | clients, broadcast channel, which client looks at which session | attach, detach, takeover, commands of the user, push of the state | one goroutine per client; PTY readers and handlers write to its channel |
| Terminal emulator (`internal/xterm`) | lines, scrollback, cursor, modes, for the normal and the alternate screen | what a shell writes, resize, serialize | under the lock of the session's `Terminal` |
| Ring logger, key store, binding, lock, entry points, user interface, update check | see `PROJECT.json` | | |

What makes the code hard is that none of these parts owns a goroutine of its
own that serialises it: a PTY reader runs into the batcher, the batcher runs
the channel's lock and the relay's queue, and the relay's read loop runs the
handlers that change what the reader just looked at.  Decisions are taken on
state read under one lock and used after it (`sendOutput`'s checks,
`handleSecConfirm`, `wrapOutgoingJSON`, `startTSRelay`), and messages are
ordered by who comes first to a mutex.  What has to be right about it:

- output reaches the app in order, labelled so that the app can drop
  duplicates, and nothing is lost between a snapshot and what follows it;
- a mute, an exit and a history take effect at a definite place in the output;
- the keys in use belong to the current connection and the flag that admits
  requests stands for them;
- a slow, dead or replaced connection blocks nobody for ever;
- there is one connection, with the key the user set;
- a file that is reported complete went out whole, a transfer always ends, and
  no order of acks, cancels and losses outruns the window or closes twice;
- a tunnel that is open can be closed, and what it reads can be sent;
- an ICE candidate reaches the connection of its offer, and what a lost channel
  owned is cleared by somebody;
- a local client that attaches gets the screen as it is and every write after
  it, once, and leaves nothing behind;
- the stored screen is never indexed outside, and a resize or a replay to a
  client changes no text.

## 2. The modules

`OutputFeed` is the abstract specification of the output path: the reader
numbers writes, the channel is handed contiguous runs of them, each newer than
all before.

`OutputBatcher` models `output_batcher.go`.  `bufs[s]` holds the sequence
numbers in a session's buffer (bytes do not matter, their number does: a
message carries whole writes, and a write may be cut into up to `MaxPieces`
pieces, any way the marshalled size may demand); `age[s]` counts the flusher's
deadlines a buffer has passed; `sendMu` names its holder.  The critical
sections of `mu` are single steps.  `Add` is `AddContiguous`, or, at a gap,
`AddAfterGap`, `FlushSession` and `Insert`, because it releases `mu` in
between.  `SealAt` is two steps: the snapshot runs under `sendMu`, the entries
are taken later.  A holder of `sendMu` then sends its messages one per step
(`Emit`) and returns.

`SessionEgress` extends it with the callers.  `gate[s]` is how far `sendOutput`
is with the write it holds: it reads `subscribed` and `muted`, then
`secCodeVerified` and the relay, then calls `Add`, and everything else may
happen in between.  `op[c]` is the place of a handler: the relay's read loop
(`Remote`), a local takeover (`Local`), the exit goroutine of a session.
`sendJSON` is `FlushBefore` and then the message, which is recorded in
`controls[s]` with the number of outputs that left before it.  A lost relay is
the steps it has in the code, each of them beside a handler that still runs:
`closeCh` is closed (`RelayClosed`), the read loop ends and `connected` goes
with it (`ReadLoopEnds`), `tsRelayLoop` drops the subscriptions
(`RelayCleanup`), then unsets `d.wsRelay` (`RelayUnset`) and makes the next
connection.  `SetSecCode` is the local user's new security code, which clears
`secCodeVerified` at any time and leaves channel and subscriptions; `expects`,
what an app has been promised, ends there.  The handlers
that drop what is buffered (`peer_online`, `peer_offline`, `kicked`) reset the
batcher and change `subscribed`, `muted` and `verified` in one step; what the
reader adds between those assignments is subject to no property, since the app
has been cut off.  A request that `checkSecCode` refuses flushes and sends an
error (`RefuseRequest`).

`Handshake` models `secure_handshake.go` and the handlers that reset it.  A
transport's goroutine handles one message at a time, and there are several.
`at[t]` is where it is; a step is a critical section of `secureMu` or one
atomic access.  A `sec_confirm` reads the slot (`SecConfirm`), verifies outside
the lock and clears the slot (`ClearSlot`), installs the channel, sets the flag
and restores the attempts, one step each.  A timer that `Stop` comes too late
for is in `fired` and its callback will clear the slot whatever is in it.  The
cryptography is its verdict: a tag fits when the state in the slot is the one
of the app's own `pake_start` and the code was right.

`TSRelay` models one WebSocket connection and the sequence numbers of the
frames it carries.  A sender draws a number (`Wrap`), takes its snapshot under
`w.mu`, parks on the queue of its kind of frame; the senders in `Bulk` (tunnels,
transfers) use both, data in binary and their close, cancel or error as text.
`writeLoop` takes text first; the peer refuses a number that does not grow.
The read loop sends only while it handles a message (`Receive`, `Handled`), and
goes on with that when the connection has been closed.  The Go lock's rule that a
waiting writer keeps new readers out is `CanRLock`.  The link is up, silently
dead (it swallows `KernelCap` writes and then the write deadline expires) or
closed.

`TSLoop` models the supervisor: the callers of `startTSRelay`, every loop they
started, the connections those made, the key file, `d.accessKey` and the three
steps of `Stop` that matter to them.

`FileTransfer` models `filetransfer.go`: `ftm.staged` as the arrays it has had
(a handler keeps a pointer into one while a delete shifts it), the staging
directory as the files its names stand for, `ftm.active`, and one record per
sender goroutine with the chunk it is at, its window and how it is parked.
Handlers run in several goroutines; `HandleAck` is look-up, store and poke.
Encryption is `AskKeys` and `Seal`: a frame is left as it is while there are no
keys, and fails only when they went between the two.  So a transfer that is
under way when a new app comes (`peer_online` cancels nothing) goes on in clear.

`ProxyTunnels` models `proxy_manager.go` and `proxydial.go`: the two tables,
one record per request with its goroutine (dialling, registering, reading,
leaving), the handlers that find a tunnel in a table and then write to it, and
`CloseAll`.  What a target sends is so many frames, each of one of three sizes:
one that fits everywhere, one too large for a sealed text message, one too large
for a data channel as well.  A frame that does not fit is dropped, with nobody
told (`refused`); without keys frames are sent in clear.

`P2P` models `startP2PAsAnswerer`, the callbacks of `webrtc.go`, the buffering
of early candidates, `channel_select` and what the ends of the two channels
clear.  An offer names its goroutine and its connection; pion's callbacks come
in any order its connection states allow.  Of the relay it has what the P2P
goroutine can see of it: `linked` is `connected`, and `relay` is how far
`tsRelayLoop` is after `Done`: its look at P2P, the subscriptions, `d.wsRelay`.
A loop that is cancelled by a swap or a stop leaves without clearing and is not
in this module.

`LocalServer` models `local_server.go` with the session table and the
controllers of `pty.go`.  `life` are the incarnations of sessions (the app can
create an id again), `queue` is `broadcastCh` and `writing` what its only
reader is writing.  `controllersMu`, `clientSessionsMu` and `ls.mu` are
modelled where a goroutine can park while it holds them.

`TerminalBuffer` and `Terminal` model `internal/xterm` as the daemon uses it.
A terminal is a record and a handler maps a terminal to a terminal, so the
serializer's output can be written to another terminal within a state
(`Attached`): `Read` produces characters and relative motions, `Write` applies
them with the same handlers.  A line is its cells, a cell is a character that
is empty, ordinary, wide with its second column, or a mark.  `Resize` is
`TallerBy`/`ShorterBy`, `Capped` and the two reflows with their copying.  A
panic of a handler is `dead`; a panic of a resize is recovered as `pty.go`
recovers it.

`SessionEgressProofs`, `HandshakeProofs`, `TSRelayProofs`, `TSLoopProofs`,
`FileTransferProofs`, `ProxyTunnelsProofs`, `P2PProofs` and `LocalServerProofs`
extend the module they are named after with its theorems (section 4); the first
also has those of the batcher, which the egress extends.

Every module's history variables are read by no guard; they say when a
property applies (`lost`, `expects`, `disturbed`, `overlap`, `raced`, `hurt`,
`odd`, `crossed`, `switched`, ...).

## 3. The runs

| Run | Instance | States | Shows |
|---|---|---|---|
| `output_batcher` | 2 sessions (3 writes, 1 write), 1 client, pieces of 2 | 965,482 | `TypeOK`, `WireContract`, `NothingVanishes`, `StraddleOnlyInFlight`, refinement of `OutputFeed`, `EventuallyFlushed` |
| `session_egress` | 1 session, 3 writes, 2 requests, 1 fault | 4.2 M | `GapFree`, `MuteStopsOutput`, `ExitOvertakesOneWrite`, `HistoryFollowsItsWrites` |
| `handshake` | 2 transports, 2 handshakes, 2 resets, 2 attempts | 4.1 M | `SlotHasTimer`, `RefusedOnlyWhenDisturbed`, `ChannelOfItsConnection`, `VerifiedHasChannel` |
| `ts_relay` | read loop and a tunnel; 3 frames, queues of 1 and 2 | 495,648 | `WireKeepsSenderOrder`, `NothingLostWhileUp`, `SendersUnwind`, `DeadLinkNoticed` |
| `ts_loop` | main, 2 clients, 3 connections | 306,130 | `SingleConnection`, `KeyInUseIsTheLastSaved`, `StoppedIsTrue`, `SwapCompletes`, `StopEndsEverything` |
| `file_transfer` | 2 goroutines, a file of 2 chunks, window of 1, 3 ids, 4 events | 701,590 | `WindowHeld`, `NoLostWakeup`, `EndIsComplete`, `DoubleCloseOnlyByDelete`, `TransfersEnd` |
| `proxy_tunnels` | 2 goroutines, 2 requests with one id, 2 frames, 1 event | 962,092 | `OrphansOnlyByReuse`, `RefusedOnlyAfterSwitch`, `ReadersEnd` |
| `p2p` | 2 offers, 3 candidates, 2 events | 9.1 M | `CandidatesReachOffer`, `ModeFollowsConnection`, `LastChannelClears` |
| `local_server` | 2 clients, 2 ids, 2 lives, 2 writes, 3 requests, channel of 1 | 3.3 M | `AttachedSeesEverything`, `ControllersTracked`, `NobodyStuck` |
| `terminal` | 3-4 columns, 2-3 rows, scrollback 2, 11 beginnings, 2 operations | 25,594 | `ScreenWellFormed`, `AttachShowsTheSame`, `ResizeKeepsText` |
| `wrap_nil` | the handshake with a sender that wraps | violation | `WrapFindsChannel` |
| `attach_cursor` | as `terminal` | violation | `AttachRestoresCursor` |

The bounds are the smallest at which every guard is both met and missed: three
writes give a buffer with a gap in it and a snapshot strictly inside; a second
session gives a seal that cuts a buffer it was not taken for; two handshakes
give one that overtakes the other; two resets give a confirm that spans one
and is followed by another; three frames overfill a queue of one while one is
being written; three connections give one that replaces one that replaced
another; two chunks and a window of one park a sender; two requests with one
id replace each other at every point of their dials; two offers overlap, with
candidates on either side, and two events lose both channels; two clients
attach, take over and leave across each
other.  On a screen of four columns a row wraps, holds a wide character at its
end, or is full; two lines of scrollback are enough to be filled, trimmed and
given back; the beginnings in `MCPast` are the states two operations would not
reach, each the result of writing what it names.

### Where the code is not what it says

Two runs check what a comment of the code says and find it refuted; they are
the entries of `findings`:

- `wrap_nil`: `wrapOutgoingJSON` can call a channel that a reset just dropped;
- `attach_cursor`: the cursor of a client that attaches is left of where it
  should be when the last row with text is full.

The other disagreements met while modelling have no run of their own; the
passing property next to each states what the code does guarantee.

- `securechannel.go:9-11`: "a gap only appears after a dropped message".  A
  frame is numbered before it is queued, and `writeLoop` takes text before
  binary: a tunnel's `proxy_close` can overtake its own last data
  (`proxy_manager.go:163`, `171`), a transfer's cancel its chunks, and the peer
  refuses what was overtaken.  So `WireKeepsSenderOrder` is per goroutine and
  kind of frame.
- `proxy_manager.go:139-144`: the size of a tunnel's buffer "stays valid on
  either channel because the smaller of the two limits is what matters".  It is
  the limit of the channel of the moment; what is read for the relay is refused
  by a data channel the app selects later.  `RefusedOnlyAfterSwitch` says that
  this is the only way.
- `proxy_manager.go:337-340`: a piece of a fetch "stays safe" at 20 KB.  It also
  carries all headers of the answer, and a few KB of them take it over the limit
  of `WrapJSON`; the piece is dropped and the fetch goes on.  A WebSocket message
  of more than about 18 KB is dropped, too (`Fits`); no property says that a
  stream is whole.
- `daemon.go:401-402`: subscriptions persist "if TS is still connected".
  `connected` outlives `closeCh` (`wsrelay.go:269-278`, `309-314`) and `d.wsRelay`
  is unset after `tsRelayLoop` looked at P2P (`daemon.go:612-625`), so when both
  channels go together each goroutine can leave the subscriptions to the other's
  channel and nobody clears them.  `LastChannelClears` excepts that case by name
  (`crossed`); every other order clears them.
- A batch can straddle a history snapshot, by one write
  (`StraddleOnlyInFlight`).
- A first attach of the app can miss the writes between its snapshot and its
  subscription (`daemon.go:1123`; `GapFree` is for an app that was subscribed).
- Output can leave after the mute took effect, if its reader had read the flag
  before (`MuteStopsOutput` bounds it by the number of the write).
- `wrapOutgoingBinary` and `wrapOutgoingJSON` return what they are given while
  there are no keys (`secure_handshake.go:226-228`, `266-268`); the comment in
  `sendBytes` (`daemon.go:1667-1669`) has the frame dropped.  Transfers and
  tunnels that are open when a new app comes online send it the rest in clear.
- A new security code leaves the subscriptions: what the shell writes until the
  app has verified again is dropped (`daemon.go:1522`).
- Two callers of `startTSRelay` can leave two loops running (`SingleConnection`
  unless `raced`).
- `file_delete` of an active transfer closes its cancel channel outside
  `cancelOnce`; a second cancel or delete ends the process
  (`DoubleCloseOnlyByDelete`).
- A tunnel replaced by a request with its id is in no table and is closed only
  by its target (`OrphansOnlyByReuse`).
- A new offer, or the timer of one, drops the P2P connection while it is the
  selected channel and leaves the mode at p2p (`unbacked`).
- A controller added while a takeover runs can stay without a client that will
  remove it (`crossed`).  An id that is created again gives the new session's
  clients the old shell's output until that ends, and its end removes the new
  session (`reused`).
- `PTYManager.Resize` replaces `s.History` without a lock when a reflow panics,
  and the write counter starts again; the panic needs a blank first line marked
  as a continuation (`HeadlessBlank`).
- `Print` indexes the line at the cursor without a check: a mark with nothing
  to join, written at a full row, panics (`inputhandler.go:502`), and the read
  loop does not recover.
- The serializer separates an empty row from its continuation by `-` and
  motions; a motion by zero columns is read as one, so a `-` stays in column 0
  (`serialize_addon.go:346`).  Inserting in the middle of a wide character
  leaves its second column, which the serializer skips (`bufferline.go:223`).
  Marks that are cells of their own are dropped.  `Sound` excludes these.
- Origin mode and the scroll region are written after the cursor
  (`serialize_addon.go:64`), and setting either moves it; in origin mode a
  relative motion adds the region's top again (`MoveCursor`).  Tab stops are
  not restored.
- An index past the last line reaches the oldest one, because the list is
  circular (`Slot`), which `ED 1` on the last row and `DECALN` in origin mode
  do.
- Lines of the alternate screen are not cut when it gets narrower.
- `Terminal.Write` drops "erase scrollback" only when a read holds all of it
  (`cmd/claw/terminal.go:46`).

Deadlock is checked for the batcher.  The other systems may really stop: the
session is gone and the app has nothing left to ask, the daemon has ended, the
connection is closed, the program was stopped, a bound is reached.

### Fairness

Go's scheduler runs every goroutine that can run, so steps that wait for
nothing but their turn are weakly fair.  The flusher's tick is strongly fair:
it competes for a `sync.Mutex`, which hands itself to a waiter that has starved
for a millisecond.  Time passes (`Elapse`, `PingTick`).  A parked sender whose
case of a `select` stays ready is served, because the channel queues its
waiters.  `Connect` returns, by its own timeout.  A sender of a file moves:
its channel takes a frame or ends (which `TSRelay` shows of the relay) and the
window's timer fires.  A blocked `Read` of a tunnel returns once its connection
is closed.  Nothing is assumed of the app, the network, users, targets, or of a
transfer's cancel.  `LocalServer` states no fairness: a client may stop reading
for ever, and its writer then waits for ever, because there is no write
deadline.  `NobodyStuck` says instead that with every client reading somebody
can always move.

## 4. The proofs

The first part of `SessionEgressProofs` is about the batcher.  It proves, for
any sets of sessions and clients and any bounds, that `IInv` is an invariant of `BatcherSpec` and from it `TypeOK`,
`WireContract` and `StraddleOnlyInFlight`.  `WireContract` alone is not
inductive: a message is right because of the entries it was packed from.
`OrderInv` says that wire, detached jobs, buffer and the reader's hand hold
ever newer writes, and that the first entry of a job of which a piece is out is
the one the last message ended with; `LockInv` says that only the holder of
`sendMu` has jobs, which is why taking entries cannot meet jobs still to be
sent; `SealInv` says where a snapshot can lie: below a buffer, not inside a
job, and inside a buffer only between the two halves of the seal that took it.
Assumptions: `NoOne` is no goroutine and sessions, clients and the flusher are
distinct.

`HandshakeProofs` proves, for any number of transports, handshakes and resets,
`TypeOK`, `SlotHasTimer`, `ChannelOfItsConnection` and `VerifiedHasChannel`.
The strengthening for the channel is `ConfirmsMarked`: a confirm under way
beside a reset under way is in `overlap`.  So when the reset happens, every
confirm that will install a channel later is marked, and an unmarked one
belongs to the epoch it was started in (`ConfirmCurrent`, `SlotCurrent`).  For
the flag: a confirm that is about to set it has its channel, or a reset has
passed it by and marked it (`MarkHasChannel`), and a reset that is about to
drop the channel has already cleared the flag unless it is `peer_offline`'s
(`ResetUnverifies`).  Frame lemmas (`SlotFrame`, `ChannelFrame`, ...) name the
only actions that touch a group of variables, so each invariant is proved
against those.  Assumption: `HandshakeAssumption`.

The second part of `SessionEgressProofs` proves, for any sets of sessions and
clients and any number of requests and faults, that `EgressSpec` implements
`BatcherSpec`: every handler, exit, takeover, peer change, new code and relay
loss either leaves the batcher alone or takes one of its steps.  The only thing that needs an invariant is that a handler
about a session names one (`Named`); with it the theorems about the batcher
hold of the output path as a whole (`EgressWireContract`).  On top of that it
proves `EgressTypeOK` and `MuteStopsOutput`.  The latter alone is not inductive:
a write that passed `sendOutput`'s check before the mute still reaches the
batcher after it.  `MuteInv` therefore also bounds the write in the reader's
hand (`InHand`), and `HeldGrows` shows that nothing gets into the buffers, the
jobs or the channel from anywhere else.  Assumption: `EgressAssumption` (the
read loop, the local client and the waiters are distinct clients).

Three further theorems are about what an app sees of one session.
`NothingDroppedAfterHistory` (`GapFree`) rests on `PlaceInv`, where each handler
stands relative to the PTY and the link, and `GapInv`: whoever is owed the
writes from a point on is subscribed, not muted, verified and on a relay that
is up and not being cleaned up, the
write in the reader's hand that failed `sendOutput`'s checks lies before that
point, and so does every write dropped.  The second half is what makes it
inductive: the reader may have read `subscribed` long before the handler that
hands out the point.  `ExitKeepsItsPlace` (`ExitOvertakesOneWrite`) needs
`ExitInv`: after the waiter's flush buffer and jobs hold nothing but the last
write of the session.  `HistoryIsFollowed` (`HistoryFollowsItsWrites`) needs
`HistInv`: from the taking of a seal on nothing the history covers is in the
buffer, and none of it is detached once the handler has left the batcher.

Two more about the batcher.  `NoWriteIsLost` (`NothingVanishes`) shows for every
step that what leaves one of sent, jobs, buffer, the reader's hand and `lost`
arrives in another; `EntriesCut` and its neighbours say so of a sequence cut in
two, with a write split between the pieces.  `BatcherFeeds` is the refinement of
`OutputFeed`, `BatcherSpec => FeedSpec`: a read is `Write`, a message with a new
write is `Deliver` of its run, a message that only continues a split write and
every other step is a stutter.  `CarriedBelow` is the reason, and follows from
`OrderInv`.

`NobodyTurnedAway` of the handshake proves `RefusedOnlyWhenDisturbed`.  Its
strengthening `PendingInv` says that an undisturbed handshake that has been
answered owns the slot and its timer, that no older callback waits for
`secureMu`, and that no confirm is being verified against it but its own.

`TSRelayProofs`: a frame is in a sender's hand, on a queue, in the writer's hand
or on the wire, and `OrderInv` says that each place is behind the next for the
frames of one goroutine and kind; with it `WireKeepsOrder`
(`WireKeepsSenderOrder`).  It needs `Routed` (each queue holds one kind), because
`writeLoop` does not take the two in order.  `NothingLost`
(`NothingLostWhileUp`) needs that a connection that is not connected has been
closed.  `RefusedWereOvertaken` says what no run checks: a frame the peer takes
for a replay was overtaken by one it took, of another goroutine or of the other
kind.  Assumption: `RelayAssumption`.

`TSLoopProofs`: `LoopInv` ties the callers of `startTSRelay`, the loops and the
connections together: `OneLoop` (unless two callers raced, one waits at most,
and only for the loop that runs), `OpenIsHeld` (an open connection is that of a
loop that runs), `KeyInUse` and `KeySaved` (who is about to replace a key that
is not the last one).  From it `OneConnection`, `KeyInUseIsSaved`,
`StoppedMeansStopped`, and `NoOrphanConnection`: unless callers raced, an open
connection belongs to the loop in `d`.  Assumption: `LoopAssumption`.

`FileTransferProofs`: `WindowIsHeld` needs that the next chunk lies in the window
of the largest ack received (`InWindow`), since acks are stored by several
goroutines and a smaller one may be stored last.  `WakeupIsKept`
(`NoLostWakeup`) needs `Woken` already at the step between finding the window
shut and parking.  `CancelClosesOnce` (`DoubleCloseOnlyByDelete`) needs that no
task in `ftm.active` has been closed.  `EndMeansComplete` (`EndIsComplete`) needs
that a file on disk has one name (`OneName`), so that a stage under another name
cannot touch what an open descriptor reads, and that an unhurt sender has handed
over every chunk it counted (`Faithful`).  Assumption: `FileTransferAssumption`.

`ProxyTunnelsProofs`: what a table leads to is open (`Listed`), and what is open
is led to or was replaced (`Reachable`); with it `OrphanWasReplaced`
(`OrphansOnlyByReuse`).  `RefusedAfterSwitch` (`RefusedOnlyAfterSwitch`) needs
`FitInv`: while P2P is selected, a tunnel that reads and has not lived through a
switch has a buffer for P2P; the fall-back to the relay only widens what fits.
Assumption: `ProxyAssumption`.

`P2PProofs`: `AnswererMoves`, `PionFacts` and `ConnStep` say once what a step of
`startP2PAsAnswerer` or of pion does to an attempt and to a connection; `Known`
says of which attempts `d.rtc` may be.  `NoCandidateLost` (`CandidatesReachOffer`)
holds while nothing overlapped because the buffer mode is on exactly while an
answer is under way (`Answers`), so a candidate is in the buffer, held by the
attempt, in the read loop's hand or with the connection (`Waiting`).
`ModeIsBacked` needs no strengthening but `Known`.  `LastOneClears`
(`LastChannelClears`) needs `ClearInv`: when `tsRelayLoop` has looked at P2P and
the subscriptions are not dropped, a goroutine has noticed its loss and not yet
looked at the relay, or the connection in use was open once and its goroutine
will notice; unless one of the three exceptions was met (`Plain`).  That in
turn needs `ConnInv`: an attempt whose connection was open finds "ok" in
`connectCh`, so only its timer can give it up.  Assumption: `P2PAssumption`.

`LocalServerProofs` proves, for any clients, session ids and bounds,
`TypeCorrect`, `TrackedCorrect` (`ControllersTracked`) and `SeenCorrect`
(`AttachedSeesEverything`).  `TableInv` and `PlaceInv` say what may be followed:
the table and every handler and reader name incarnations of the right id that
exist, and two incarnations of an id mean that it was reused.  Neither property
is inductive.  A takeover empties the sessions one by one and clears the
clients' tables at the end, so `CtrlInv` adds that while it runs whoever
attaches has crossed it (`EmptyOK`) and that the sessions it is through with
have no controllers but those: when it clears the tables nobody loses the
record of a session it still controls.  It also says that a detach has removed
the controller before it removes the record (`UntrackOK`).  What a client was
given is tied to the session's counter by `SeenInv`: before the first write
after `AddController` the history, sent or still to be sent (`HasHistory`), ends
at the counter, from then on the last write given is the counter; or the write
being broadcast is the one that is missing.  That needs that whoever looks at a
session is its controller (`FeedInv`): a reader's copy of the controllers then
contains it.  `Sorted` divides the steps into creations, removals, steps of
readers and steps of clients, and the `...Facts` lemmas say once what each does
to the tables.  No assumption is used.

Only model-checked: liveness under fairness (`EventuallyFlushed`,
`SendersUnwind`, `DeadLinkNoticed`, `SwapCompletes`, `StopEndsEverything`,
`TransfersEnd`, `ReadersEnd`) and ENABLED (`NobodyStuck`), which are beyond the
prover; and everything about the terminal: `TerminalBuffer` defines the
reflows with RECURSIVE operators, and what they compute would need induction
over lines.

## 5. What is not modelled

- Bytes, JSON, base64 and the arithmetic of SPAKE2 and AES-GCM: data the
  properties do not tell apart, or out of reach.
- Of the terminal: colours and attributes, combining a mark onto a cell,
  character sets, `convertEol`, protected cells, modes only a client acts on,
  the states of the parser, markers, and the user's scroll position.
- Of the local server: requests that only read, the start of the HTTP server,
  the attach client's keys and screen.
- Of the relay connection: the dialogue of `Connect`, and `DrainSendCh`, which
  polls until the queues are empty and nobody empties them after a close with a
  backlog.
- The output path while P2P is selected, and the order across the switch.
- Operations of one component that touch no state of it others see: session
  names, input, lists of directories, the ring logger.
- Go's data races on unlocked fields other than `d.accessKey`, which is stored
  and read as a whole.
- Lock files, binding, autostart, user interface, update check: calls of the
  operating system, or one request and one answer.

## 6. The plan

Done: output batcher and its feed, session egress, handshake, relay
connection, relay supervisor, file transfer, proxy tunnels, P2P connection,
local server, terminal; proofs of the first nine: every safety property the
runs check of them, except `NobodyStuck`, is a theorem.

Models next:

- `ChannelSwitch` on top of the egress and `P2P`: the direct output path of
  P2P, `DrainSendCh`, and the code in force during a handshake.  Properties:
  order of output across the switch, the drain ends, a confirm sets the flag
  only for the code in force.
- A composition of supervisor, connection and handshake over a reconnect.
- The parser of `internal/xterm` and its UTF-8 decoder: what a sequence split
  between two reads does.
- The ring logger's index arithmetic against a reference; `GetRecent` returns
  the oldest lines it has, not the latest (`ring_logger.go:103`).
