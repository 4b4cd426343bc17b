---------------------------- MODULE FileTransfer ----------------------------
(***************************************************************************)
(* filetransfer.go: files are staged by local clients and by the app,      *)
(* listed, requested, sent chunk by chunk under a window of acks (relay)   *)
(* or the data channel's backpressure (P2P), cancelled and deleted.        *)
(* Several goroutines run the handlers: one per transport, one per local   *)
(* client.  A step is a critical section of ftm.mu, an atomic access or a  *)
(* call that hands a message to the channel.                               *)
(***************************************************************************)
EXTENDS Integers, Sequences, FiniteSetsExt

CONSTANTS
  Goroutines,   \* read loops and local clients, which run the handlers
  Paths,        \* names in the staging directory: base name and second
  Blocks,       \* how many chunks the file staged under a path has
  AckWindow,    \* fileAckWindow
  MaxIds,       \* bound on ftm.nextID: files staged and transfers started
  MaxEvents     \* bound on requests and on what happens to the channels

ASSUME FileTransferAssumption ==
  /\ Blocks \in [Paths -> Nat]
  /\ AckWindow \in Nat \ {0}
  /\ {MaxIds, MaxEvents} \subseteq Nat

VARIABLES
  store,      \* the backing arrays ftm.staged has had, the last one in use
  count,      \* len(ftm.staged)
  disk,       \* path |-> the file it names, or Gone; a file is named by the
              \* id of the staging that created it
  content,    \* file |-> chunks in it
  nextID,     \* ftm.nextID
  active,     \* the ids in ftm.active
  task,       \* id |-> the send task
  at,         \* goroutine |-> where its handler is
  mode,       \* d.channelMode, "" counted as "ts"
  up,         \* the channels that would take a frame
  keys,       \* secureActive(): the encrypted channel has its keys
  verified,   \* secCodeVerified, which the requests are gated on
  events,     \* how many requests and changes of mode, up and keys so far
  panicked,   \* a closed channel was closed again: the process is gone
  misdeleted  \* file_delete has named a transfer, not a staged file

vars == <<store, count, disk, content, nextID, active, task, at, mode, up,
          keys, verified, events, panicked, misdeleted>>
stagedVars == <<store, count>>
diskVars == <<disk, content>>
linkVars == <<mode, up, keys, verified>>
envVars == <<linkVars, events>>
Event == events < MaxEvents /\ events' = events + 1
fateVars == <<panicked, misdeleted>>

Gone == 0
Idle == [do |-> "idle"]
Ids == 1..MaxIds
Sends == DOMAIN task

\* ftm.staged as the code sees it.
Staged == IF count = 0 THEN <<>> ELSE SubSeq(store[Len(store)], 1, count)
\* NewFileTransferManager: nothing staged, the directory emptied.
Init ==
  /\ store = <<>> /\ count = 0
  /\ disk = [p \in Paths |-> Gone] /\ content = [f \in Ids |-> 0]
  /\ nextID = 0 /\ active = {} /\ task = <<>>
  /\ at = [g \in Goroutines |-> Idle]
  /\ mode = "ts" /\ up = {"ts"} /\ keys = TRUE /\ verified = TRUE
  /\ events = 0
  /\ panicked = FALSE /\ misdeleted = FALSE

Running(id) == id \in Sends /\ task[id].pc # "done"
\* The tasks with `f' of every running one that `sel' picks changed.
Touch(sel(_), f, v) ==
  [id \in Sends |-> IF sel(id) THEN [task[id] EXCEPT ![f] = v] ELSE task[id]]

-----------------------------------------------------------------------------
(* StageFile: the id is drawn and the destination truncated, then it is    *)
(* filled, then the entry is appended and the list sent.  Two files of one *)
(* base name staged in one second share a path.                            *)
StageFile(g, p) ==
  /\ at[g] = Idle
  /\ Event /\ nextID < MaxIds
  /\ nextID' = nextID + 1
  /\ LET file == IF disk[p] = Gone THEN nextID' ELSE disk[p]
     IN /\ disk' = [disk EXCEPT ![p] = file]
        /\ content' = [content EXCEPT ![file] = 0]
        /\ at' = [at EXCEPT ![g] =
             [do |-> "copy", id |-> nextID', path |-> p, file |-> file]]
        /\ task' = Touch(LAMBDA id: Running(id) /\ task[id].path = p,
                         "hurt", TRUE)
  /\ UNCHANGED <<stagedVars, active, linkVars, fateVars>>

\* append(ftm.staged, e): in place while the array has room, in a new array
\* of twice the size (1, 2, 4, ...) when it is full.
AppendEntry(e) ==
  LET n == Len(store)
      room == IF n = 0 THEN 0 ELSE 2^(n - 1)
  IN IF count < room
     THEN [store EXCEPT ![n] = Append(SubSeq(@, 1, count), e)
                                 \o SubSeq(@, count + 2, Len(@))]
     ELSE Append(store, Append(Staged, e))

StageDone(g) ==
  /\ at[g].do = "copy"
  /\ content' = [content EXCEPT ![at[g].file] = Blocks[at[g].path]]
  /\ store' = AppendEntry([id |-> at[g].id, path |-> at[g].path])
  /\ count' = count + 1
  /\ at' = [at EXCEPT ![g] = Idle]
  /\ UNCHANGED <<disk, nextID, active, task, envVars, fateVars>>

\* io.Copy fails: the destination is removed.
StageFails(g) ==
  /\ at[g].do = "copy"
  /\ disk' = [disk EXCEPT ![at[g].path] = Gone]
  /\ at' = [at EXCEPT ![g] = Idle]
  /\ UNCHANGED <<stagedVars, content, nextID, active, task, envVars,
                 fateVars>>

-----------------------------------------------------------------------------
(* HandleRequest keeps a pointer into the backing array, unlocks, and      *)
(* reads the path through it.                                              *)
HandleRequest(g, id) ==
  /\ Event /\ at[g] = Idle /\ verified
  /\ \E i \in 1..count :
       /\ Staged[i].id = id
       /\ at' = [at EXCEPT ![g] = [do |-> "read", ptr |-> <<Len(store), i>>]]
  /\ UNCHANGED <<stagedVars, diskVars, nextID, active, task, linkVars,
                 fateVars>>

\* Size of the frames: fileChunkLimitFor asks for the channel twice.
ReadPath(g) ==
  /\ at[g].do = "read"
  /\ LET path == store[at[g].ptr[1]][at[g].ptr[2]].path
     IN at' = [at EXCEPT ![g] =
          IF disk[path] = Gone THEN Idle
          ELSE [do |-> "limit", path |-> path, blocks |-> content[disk[path]],
                size |-> IF mode = "p2p" THEN "64K" ELSE "4M"]]
  /\ UNCHANGED <<stagedVars, diskVars, nextID, active, task, envVars,
                 fateVars>>

Capped(size) == IF mode # "p2p" /\ size = "4M" THEN "1M" ELSE size
\* A data channel refuses more than 64K; P2PMaxMessageSize leaves room for the
\* envelope, whether or not there were keys when the chunk's size was set.
Fits(size) == mode # "p2p" \/ size = "64K"

\* The file is there with all its chunks, as it was when its size was read.
Whole(p, blocks) ==
  blocks = Blocks[p] /\ disk[p] # Gone /\ content[disk[p]] = blocks

\* Mutant: the division is not rounded up.
TotalChunksFloor(blocks) == IF blocks <= 1 THEN 1 ELSE blocks - 1

\* An empty file counts one chunk.
TotalChunks(blocks) == IF blocks = 0 THEN 1 ELSE blocks

\* startSendFromStaged: a new id, never that of the staged file.
StartSend(g) ==
  /\ at[g].do = "limit"
  /\ nextID < MaxIds
  /\ nextID' = nextID + 1
  /\ active' = active \cup {nextID'}
  /\ task' = [id \in Sends \cup {nextID'} |->
       IF id \in Sends THEN task[id]
       ELSE [path |-> at[g].path, file |-> Gone, size |-> Capped(at[g].size),
             total |-> TotalChunks(at[g].blocks), idx |-> 0, win |-> FALSE,
             acked |-> 0, notify |-> FALSE, closed |-> FALSE, pc |-> "open",
             frame |-> "raw", sent |-> {}, used |-> 0,
             said |-> "begin", hurt |-> ~Whole(at[g].path, at[g].blocks)]]
  /\ at' = [at EXCEPT ![g] = Idle]
  /\ UNCHANGED <<stagedVars, diskVars, envVars, fateVars>>

-----------------------------------------------------------------------------
(* sendFile, one goroutine per task.                                       *)
Go(id, new) ==
  task' = [task EXCEPT ![id] = [f \in DOMAIN @ |->
             IF f \in DOMAIN new THEN new[f] ELSE @[f]]]
At(id, pc) == id \in Sends /\ task[id].pc = pc
SenderFrame ==
  UNCHANGED <<stagedVars, diskVars, nextID, at, envVars, fateVars>>
Continue(id, new) == Go(id, new) /\ UNCHANGED active /\ SenderFrame

\* The last message, then the deferred delete(ftm.active, task.ID).
Return(id, m) ==
  /\ Go(id, [pc |-> "done", said |-> m])
  /\ active' = active \ {id}
  /\ SenderFrame
\* It ends with an error or a cancel, which sendJSON seals or, without keys,
\* sends in clear, or without a word: no property tells these apart.
Fail(id) == Return(id, "failed")

OpenFile(id) ==
  /\ At(id, "open")
  /\ LET file == disk[task[id].path]
     IN IF file = Gone THEN Fail(id)
        ELSE Continue(id, [pc |-> "window", file |-> file,
                           win |-> mode # "p2p"])

\* Mutant: one chunk too many.
WindowOpenWide(t) == ~t.win \/ t.acked + AckWindow >= t.idx

\* awaitAckWindow: the loop's condition.
WindowOpen(t) == ~t.win \/ t.acked + AckWindow > t.idx

\* Between reading the condition and the select an ack may come in.
Park(id) ==
  \/ /\ At(id, "window") /\ ~WindowOpen(task[id])
     /\ Continue(id, [pc |-> "shut"])
  \/ /\ At(id, "shut")
     /\ Continue(id, [pc |-> "parked"])

Wake(id) ==
  /\ At(id, "parked") /\ task[id].notify
  /\ Continue(id, [pc |-> "window", notify |-> FALSE])

AckTimeout(id) == At(id, "parked") /\ Fail(id)

Cancelled(id) ==
  /\ At(id, "parked") \/ (At(id, "window") /\ WindowOpen(task[id]))
  /\ task[id].closed
  /\ Fail(id)

\* The next piece of the file: a chunk, or its end.
NextRead(t) == IF t.idx < content[t.file] THEN "chunk" ELSE "end"

ReadChunk(id) ==
  /\ At(id, "window") /\ WindowOpen(task[id]) /\ ~task[id].closed
  /\ Continue(id, [pc |-> NextRead(task[id])])

ReadFails(id) ==
  /\ At(id, "window") /\ WindowOpen(task[id]) /\ ~task[id].closed
  /\ Fail(id)

\* sendBytesCancelable: wrapOutgoingBinary, then the channel of the moment.
Holding(id) == At(id, "chunk") \/ At(id, "end")
Ready(id) == Holding(id) /\ task[id].frame = "ready"

\* wrapOutgoingBinary leaves a frame as it is while there are no keys.
AskKeys(id) ==
  /\ Holding(id) /\ task[id].frame = "raw"
  /\ Continue(id, [frame |-> IF keys THEN "asked" ELSE "ready"])

\* Keys reset since it asked: WrapBinary returns nil, and sendFile returns
\* without a word.  (What happens when d.secure is nil by then is in Handshake.)
Seal(id) ==
  /\ Holding(id) /\ task[id].frame = "asked"
  /\ IF keys THEN Continue(id, [frame |-> "ready"]) ELSE Fail(id)

\* A frame the data channel refuses for its size is logged and counts as sent.
AfterChunk(t) ==
  [pc |-> IF t.idx + 1 = t.total THEN "end" ELSE "window",
   frame |-> "raw", idx |-> t.idx + 1,
   sent |-> IF Fits(t.size) THEN t.sent \cup {t.idx} ELSE t.sent,
   hurt |-> t.hurt \/ ~Fits(t.size)]

Deliver(id) ==
  /\ Ready(id) /\ mode \in up
  /\ IF task[id].pc = "chunk" THEN Continue(id, AfterChunk(task[id]))
     ELSE Return(id, "end")

\* Mutant: a sender is released by its cancel only.
NotDeliveredCancel(id) ==
  /\ Ready(id) /\ task[id].closed
  /\ Fail(id)

\* No channel, or the cancel case of the select was taken: nothing is said.
NotDelivered(id) ==
  /\ Ready(id)
  /\ mode \notin up \/ task[id].closed
  /\ Fail(id)

SendFile(id) ==
  \/ OpenFile(id) \/ Park(id) \/ Wake(id) \/ AckTimeout(id) \/ Cancelled(id)
  \/ ReadChunk(id) \/ ReadFails(id)
  \/ AskKeys(id) \/ Seal(id) \/ Deliver(id) \/ NotDelivered(id)

-----------------------------------------------------------------------------
(* Acks, cancels and deletes.                                              *)
\* HandleAck looks the task up, compares, stores and pokes.  The app reports
\* how many chunks it has decrypted; a report may be handled late.
Advances(id, received) == received > task[id].acked

HandleAck(g, id) ==
  /\ at[g] = Idle /\ id \in active
  /\ \E received \in 1..Cardinality(task[id].sent) :
       /\ Advances(id, received)
       /\ at' = [at EXCEPT ![g] =
                   [do |-> "ack", id |-> id, received |-> received]]
       /\ Go(id, [used |-> Max({received, task[id].used})])
  /\ UNCHANGED <<stagedVars, diskVars, nextID, active, envVars, fateVars>>

StoreAck(g) ==
  /\ at[g].do = "ack"
  /\ Go(at[g].id, [acked |-> at[g].received])
  /\ at' = [at EXCEPT ![g] = [do |-> "poke", id |-> at[g].id]]
  /\ UNCHANGED <<stagedVars, diskVars, nextID, active, envVars, fateVars>>

\* Mutant: the poke is not kept for a sender on its way to wait.
PokedParked(t) == t.pc = "parked"

\* The poke is kept in a channel of one place, whether or not anyone waits.
Poked(t) == TRUE

PokeSender(g) ==
  /\ at[g].do = "poke"
  /\ Go(at[g].id, [notify |-> Poked(task[at[g].id])])
  /\ at' = [at EXCEPT ![g] = Idle]
  /\ UNCHANGED <<stagedVars, diskVars, nextID, active, envVars, fateVars>>

\* Cancel and CancelAll take tasks out of ftm.active and close their channels
\* once; a second close, which only HandleDelete leaves room for, panics.
ClosedTwice(ids) == \E id \in ids : task[id].closed
\* Mutant: a cancelled task stays active.
CancelTasksKept(ids) ==
  /\ active' = active
  /\ task' = Touch(LAMBDA id: id \in ids, "closed", TRUE)
  /\ panicked' = ClosedTwice(ids)

CancelTasks(ids) ==
  /\ active' = active \ ids
  /\ task' = Touch(LAMBDA id: id \in ids, "closed", TRUE)
  /\ panicked' = ClosedTwice(ids)

CancelSend(g, id) ==
  /\ Event /\ at[g] = Idle /\ verified /\ id \in active
  /\ CancelTasks({id})
  /\ UNCHANGED <<stagedVars, diskVars, nextID, at, linkVars, misdeleted>>

\* Removing from ftm.staged shifts the array in place.
Remove(i) ==
  LET n == Len(store)
  IN [store EXCEPT ![n] = [j \in DOMAIN @ |->
        IF j \in i..(count - 1) THEN @[j + 1] ELSE @[j]]]

\* Of a staged file: its transfers have other ids and go on.
DeleteStaged(g, id) ==
  /\ Event /\ at[g] = Idle /\ verified
  /\ \E i \in 1..count :
       /\ Staged[i].id = id
       /\ disk' = [disk EXCEPT ![Staged[i].path] = Gone]
       /\ store' = Remove(i)
  /\ count' = count - 1
  /\ UNCHANGED <<content, nextID, active, task, at, linkVars, fateVars>>

\* Of a transfer: its channel is closed, past cancelOnce, and it stays active.
DeleteActive(g, id) ==
  /\ Event /\ at[g] = Idle /\ verified /\ id \in active
  /\ panicked' = ClosedTwice({id})
  /\ task' = Touch(LAMBDA s: s = id, "closed", TRUE)
  /\ misdeleted' = TRUE
  /\ UNCHANGED <<stagedVars, diskVars, nextID, active, at, linkVars>>

-----------------------------------------------------------------------------
(* What happens to the channels and the peer.  Frames a channel still held *)
(* are lost with it: every task that used it is hurt.                      *)
EventFrame == UNCHANGED <<stagedVars, diskVars, nextID, at, misdeleted>>
NoCancel == UNCHANGED <<active, panicked>>

\* Cancels every active task; `lost' is the channel that went down.
CancelAll(lost) ==
  /\ active' = {}
  /\ task' = [id \in Sends |-> [task[id] EXCEPT
                !.closed = @ \/ id \in active,
                !.hurt = @ \/ (Running(id) /\ mode = lost)]]
  /\ panicked' = ClosedTwice(active)

\* The relay connection is lost: transfers on either channel are cancelled.
RelayLost ==
  /\ Event /\ "ts" \in up
  /\ up' = up \ {"ts"} /\ CancelAll("ts")
  /\ UNCHANGED <<mode, keys, verified>> /\ EventFrame

RelayUp ==
  /\ Event /\ up' = up \cup {"ts"} /\ up' # up
  /\ UNCHANGED <<task, mode, keys, verified>> /\ NoCancel /\ EventFrame

\* The data channel opens, for the first time or after a reset.
P2PUp ==
  /\ Event /\ up' = up \cup {"p2p"} /\ up' # up
  /\ UNCHANGED <<task, mode, keys, verified>> /\ NoCancel /\ EventFrame

\* The end of startP2PAsAnswerer.
P2PLost ==
  /\ Event /\ "p2p" \in up
  /\ up' = up \ {"p2p"} /\ mode' = "ts" /\ CancelAll("p2p")
  /\ UNCHANGED <<keys, verified>> /\ EventFrame

\* The app resets the file channel to drop one transfer's backlog, or a new
\* offer replaces the connection: nothing is cancelled.
P2PReset ==
  /\ Event /\ "p2p" \in up
  /\ up' = up \ {"p2p"}
  /\ task' = Touch(LAMBDA id: Running(id) /\ mode = "p2p", "hurt", TRUE)
  /\ UNCHANGED <<mode, keys, verified>> /\ NoCancel /\ EventFrame

\* channel_select; keys belong to one channel.
ChannelSelect(m) ==
  /\ Event /\ mode' = m
  /\ keys' = (keys /\ m # "p2p") /\ verified' = (verified /\ m # "p2p")
  /\ UNCHANGED <<task, up>> /\ NoCancel /\ EventFrame

\* A new app: no transfer is cancelled, what is left of it goes out in clear
\* until there are keys again.
PeerOnline ==
  /\ Event
  /\ keys \/ verified
  /\ keys' = FALSE /\ verified' = FALSE
  /\ UNCHANGED <<task, mode, up>> /\ NoCancel /\ EventFrame

\* A handshake ends: keys of its own, and the flag.
Verified ==
  /\ Event
  /\ ~(keys /\ verified)
  /\ keys' = TRUE /\ verified' = TRUE
  /\ UNCHANGED <<task, mode, up>> /\ NoCancel /\ EventFrame

\* A new security code takes the flag and leaves the keys.
SetSecCode ==
  /\ Event /\ verified /\ verified' = FALSE
  /\ UNCHANGED <<task, mode, up, keys>> /\ NoCancel /\ EventFrame

\* Takes the keys and leaves the flag.
PeerOffline ==
  /\ Event /\ mode # "p2p"
  /\ keys' = FALSE /\ CancelAll("none")
  /\ UNCHANGED <<mode, up, verified>> /\ EventFrame

Kicked ==
  /\ Event /\ mode' = "ts" /\ up' = up \ {"p2p"} /\ CancelAll("p2p")
  /\ UNCHANGED <<keys, verified>> /\ EventFrame

Environment ==
  \/ RelayLost \/ RelayUp \/ P2PUp \/ P2PLost \/ P2PReset
  \/ \E m \in {"ts", "p2p"} : ChannelSelect(m)
  \/ PeerOnline \/ Verified \/ SetSecCode \/ PeerOffline \/ Kicked

\* The send command, req_pending and the old StartSend all stage a file.
RequestStaging(g) == \E p \in Paths : StageFile(g, p)

Handler(g) ==
  \/ RequestStaging(g)
  \/ StageDone(g) \/ StageFails(g)
  \/ \E id \in Ids : HandleRequest(g, id)
  \/ ReadPath(g) \/ StartSend(g)
  \/ \E id \in Ids : HandleAck(g, id) \/ CancelSend(g, id)
  \/ StoreAck(g) \/ PokeSender(g)
  \/ \E id \in Ids : DeleteStaged(g, id) \/ DeleteActive(g, id)

Next ==
  /\ ~panicked
  /\ \/ \E g \in Goroutines : Handler(g)
     \/ \E id \in Ids : SendFile(id)
     \/ Environment

\* A goroutine that can take a step takes it; the timer of the window fires.
\* That the channel accepts a frame or ends is shown in TSRelay.
Fairness == \A id \in Ids : WF_vars(~panicked /\ SendFile(id))

Spec == Init /\ [][Next]_vars /\ Fairness

-----------------------------------------------------------------------------
(* The fields of a send task, and the states of sendFile and the handlers. *)
TaskFields == {"path", "file", "size", "total", "idx", "win", "acked",
               "notify", "closed", "pc", "frame", "sent", "used", "said", "hurt"}
SendStates == {"open", "window", "shut", "parked", "chunk", "end", "done"}

\* A transfer counts its chunks up to their total.
TaskTyped(t) ==
  /\ DOMAIN t = TaskFields
  /\ t.path \in Paths /\ t.file \in 0..nextID /\ t.pc \in SendStates
  /\ t.total \in Nat \ {0} /\ t.idx \in 0..t.total
  /\ t.pc \in {"open", "window", "shut", "parked", "chunk"} => t.idx < t.total
  /\ t.used \in Nat /\ t.acked \in 0..t.used
  /\ t.sent \subseteq 0..(t.idx - 1)

\* What a handler holds on to is of its kind; an entry it points to exists,
\* in whichever array the slice had then.
HandlerTyped(a) ==
  /\ a.do \in {"idle", "copy", "read", "limit", "ack", "poke"}
  /\ a.do = "idle" => a = Idle
  /\ a.do = "copy" =>
       a.id \in 1..nextID /\ a.file \in 1..nextID /\ a.path \in Paths
  /\ a.do = "read" =>
       a.ptr[1] \in DOMAIN store /\ a.ptr[2] \in DOMAIN store[a.ptr[1]]
  /\ a.do = "limit" => a.path \in Paths /\ a.blocks \in Nat
  /\ a.do = "ack" => a.id \in Sends /\ a.received \in 1..task[a.id].used
  /\ a.do = "poke" => a.id \in Sends

(* The variables have their types.                                         *)
TypeOK ==
  /\ store \in Seq(Seq([id : Ids, path : Paths])) /\ count \in Nat
  /\ count > 0 => store # <<>> /\ count <= Len(store[Len(store)])
  /\ disk \in [Paths -> 0..nextID] /\ content \in [Ids -> Nat]
  /\ nextID \in 0..MaxIds /\ active \subseteq Sends
  /\ Sends \subseteq 1..nextID
  /\ \A id \in Sends : TaskTyped(task[id])
  /\ DOMAIN at = Goroutines /\ \A g \in Goroutines : HandlerTyped(at[g])
  /\ mode \in {"ts", "p2p"} /\ up \subseteq {"ts", "p2p"}
  /\ {keys, verified, panicked, misdeleted} \subseteq BOOLEAN

(* On the relay the chunks the app has not decrypted yet never exceed the  *)
(* window, whatever the order in which acks are handled.                   *)
WindowHeld ==
  \A id \in Sends : task[id].win =>
    Cardinality(task[id].sent) <= task[id].used + AckWindow

(* A sender parked on a window that is open has a poke waiting for it, or  *)
(* a handler is about to leave one: it does not sit out the timeout.       *)
NoLostWakeup ==
  \A id \in Sends : (task[id].pc = "parked" /\ WindowOpen(task[id])) =>
    \/ task[id].notify
    \/ \E g \in Goroutines : at[g].do = "poke" /\ at[g].id = id

(* A transfer says that a file is complete only after every chunk of it    *)
(* was handed to the channel, sealed or in clear, whatever becomes of the  *)
(* keys and of the peer, unless frames were lost with a channel or refused *)
(* for their size, or the file was staged anew under its name.             *)
EndIsComplete ==
  \A id \in Sends : (task[id].said = "end" /\ ~task[id].hurt) =>
    task[id].sent = 0..(Blocks[task[id].path] - 1)

(* No sequence of cancels, peer changes and lost channels closes a cancel  *)
(* channel twice, which would end the process, as long as file_delete      *)
(* names staged files.                                                     *)
DoubleCloseOnlyByDelete == panicked => misdeleted

(* Every transfer ends: the window has a timer, and what else a sender     *)
(* waits for is a channel that takes the frame or goes.  There are MaxIds  *)
(* transfers at most, so each of them ends just when the time comes again  *)
(* and again at which none is under way.                                   *)
TransfersEnd ==
  []<>(panicked \/ \A id \in Sends : At(id, "done"))
=============================================================================
