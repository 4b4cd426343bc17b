---------------------------- MODULE LocalServer ----------------------------
(***************************************************************************)
(* local_server.go and the session table and controllers of pty.go: local  *)
(* clients attach to sessions, one goroutine each; the PTY readers         *)
(* broadcast to the controllers; everything for a client passes a bounded  *)
(* channel to a single writer.  Go's locks are modelled where someone can  *)
(* park while holding one: mu, clientSessionsMu, controllersMu.            *)
(*                                                                         *)
(* A client is one WebSocket connection.  A session is an incarnation of   *)
(* its id; the app may create an id that exists.  What the writes of a     *)
(* session are does not matter, their numbers do.                          *)
(***************************************************************************)
EXTENDS Integers, Sequences, FiniteSets, SequencesExt

CONSTANTS
  Clients,     \* connections of local clients
  Ids,         \* session ids
  QueueCap,    \* capacity of broadcastCh
  MaxLives,    \* bound on incarnations
  MaxWrites,   \* bound on their writes
  MaxOps,      \* bound on the requests of clients and the app, and pushes
  MaxStalls    \* bound on how often a client stops reading

ASSUME LocalAssumption ==
  /\ QueueCap \in Nat \ {0}
  /\ {MaxLives, MaxWrites, MaxOps, MaxStalls} \subseteq Nat

VARIABLES
  life,      \* incarnations: id, writes so far, controllers, its goroutines
  table,     \* pm.sessions: id |-> incarnation, or None
  order,     \* pm.order
  queue,     \* broadcastCh: whom a message is for, a client or All
  writing,   \* broadcastLoop: whom it still has to write to, and what it holds
  at,        \* client |-> where its handler is
  tracked,   \* clientSessions
  conns,     \* ls.conns
  muHolder,  \* who holds clientSessionsMu across other steps
  stalled,   \* clients that do not read
  feed,      \* client |-> what it was given of the session it attached last
  ops, stalls,
  reused,    \* ids that were created more than once
  crossed,   \* clients whose attach ran beside a takeover
  down       \* Close was called

vars == <<life, table, order, queue, writing, at, tracked, conns, muHolder,
          stalled, feed, ops, stalls, reused, crossed, down>>
ptyVars == <<life, table, order, reused>>
writerVars == <<queue, writing>>
clientVars == <<at, tracked, conns, muHolder, feed, crossed>>
boundVars == <<stalled, ops, stalls, down>>

None == 0
All == "all"
Lives == DOMAIN life
Gone == [pc |-> "gone"]
Ready == [pc |-> "ready"]
NoFeed == [of |-> None, first |-> 0, last |-> 0, h |-> -1]
NotWriting == [to |-> {}, all |-> FALSE]

\* StartLocalServer, after CreatePool has made one session.
Init ==
  /\ \E id \in Ids :
       /\ table = [i \in Ids |-> IF i = id THEN 1 ELSE None]
       /\ order = <<id>>
       /\ life = <<[id |-> id, n |-> 0, ctrl |-> {}, open |-> TRUE,
                    reader |-> [pc |-> "read"], waiter |-> "wait"]>>
  /\ queue = <<>> /\ writing = NotWriting
  /\ at = [c \in Clients |-> [pc |-> "new"]]
  /\ tracked = [c \in Clients |-> {}] /\ conns = {} /\ muHolder = None
  /\ stalled = {} /\ feed = [c \in Clients |-> NoFeed]
  /\ ops = 0 /\ stalls = 0 /\ reused = {} /\ crossed = {} /\ down = FALSE

Op == ops < MaxOps /\ ops' = ops + 1
Goto(c, place) == at' = [at EXCEPT ![c] = place]
At(c, pc) == at[c].pc = pc
Room == Len(queue) < QueueCap
Send(to) == Room /\ queue' = Append(queue, to)

\* controllersMu is held by the reader that broadcasts to the session.
Free(i) == \A r \in Lives : ~(life[r].reader.pc = "cast" /\ life[r].reader.to = i)
\* RemoveController by id: a session that is gone needs none.
Unlocked(id) == table[id] = None \/ Free(table[id])
Without(id, cs) ==
  IF table[id] = None THEN life
  ELSE [life EXCEPT ![table[id]].ctrl = @ \ cs]

-----------------------------------------------------------------------------
(* Sessions: Create, the read loop, the end.                               *)
\* From a client with a fresh id, or from the app with one of its choice.
Create(id) ==
  /\ Op /\ Len(life) < MaxLives
  /\ life' = Append(life, [id |-> id, n |-> 0, ctrl |-> {}, open |-> TRUE,
                           reader |-> [pc |-> "read"], waiter |-> "wait"])
  /\ table' = [table EXCEPT ![id] = Len(life')]
  /\ order' = Append(order, id)
  /\ reused' = IF \E i \in Lives : life[i].id = id THEN reused \cup {id}
               ELSE reused
  /\ UNCHANGED <<writerVars, clientVars, stalled, stalls, down>>

\* readLoop: a write is numbered by History.Write, then broadcast.
Writes == FoldLeft(LAMBDA sum, r : sum + r.n, 0, life)

Read(i) ==
  /\ life[i].reader.pc = "read" /\ life[i].open /\ Writes < MaxWrites
  /\ life' = [life EXCEPT ![i].n = @ + 1, ![i].reader = [pc |-> "get"]]
  /\ UNCHANGED <<table, order, reused, writerVars, clientVars, boundVars>>

\* sendOutput looks the session up by its id.
Get(i) ==
  /\ life[i].reader.pc = "get"
  /\ LET s == table[life[i].id]
     IN IF s = None THEN life' = [life EXCEPT ![i].reader = [pc |-> "read"]]
        ELSE /\ Free(s)
             /\ life' = [life EXCEPT ![i].reader =
                           [pc |-> "cast", to |-> s, left |-> life[s].ctrl]]
  /\ UNCHANGED <<table, order, reused, writerVars, clientVars, boundVars>>

\* What a controller of session s has been given once it is sent write w of
\* incarnation i; another shell's output under the same id counts as disorder.
Given(c, s, i, w) ==
  IF feed[c].of # s THEN feed
  ELSE [feed EXCEPT ![c].first = IF @ = 0 THEN w ELSE @,
          ![c].last = IF i = s /\ (@ = 0 \/ w = @ + 1) THEN w ELSE -1]

Broadcast(i) ==
  /\ life[i].reader.pc = "cast"
  /\ \E c \in life[i].reader.left :
       /\ Send(c)
       /\ life' = [life EXCEPT ![i].reader.left = @ \ {c}]
       /\ feed' = Given(c, life[i].reader.to, i, life[i].n)
  /\ UNCHANGED <<table, order, reused, writing, at, tracked, conns, muHolder,
                 crossed, boundVars>>

BroadcastDone(i) ==
  /\ life[i].reader.pc = "cast" /\ life[i].reader.left = {}
  /\ life' = [life EXCEPT ![i].reader = [pc |-> "read"]]
  /\ UNCHANGED <<table, order, reused, writerVars, clientVars, boundVars>>

\* Destroy: out of the table, then closed; its waiter follows.
Removed(id) ==
  /\ table' = [table EXCEPT ![id] = None]
  /\ order' = IF Contains(order, id)
              THEN RemoveAt(order, SelectInSeq(order, LAMBDA x: x = id))
              ELSE order

Closed(i) == IF i = None THEN life ELSE [life EXCEPT ![i].open = FALSE]

AppDestroys(id) ==
  /\ Op /\ table[id] # None
  /\ Removed(id) /\ life' = Closed(table[id])
  /\ UNCHANGED <<reused, writerVars, clientVars, stalled, stalls, down>>

\* waitExit removes whatever has the id.
RemovedAtExit(i) == Removed(life[i].id)

\* The shell ends, by itself or because the PTY was closed.
WaitExit(i) ==
  /\ life[i].waiter = "wait" /\ (life[i].open => ops < MaxOps)
  /\ ops' = IF life[i].open THEN ops + 1 ELSE ops
  /\ RemovedAtExit(i)
  /\ life' = [life EXCEPT ![i].open = FALSE, ![i].waiter = "done"]
  /\ UNCHANGED <<reused, writerVars, clientVars, stalled, stalls, down>>

-----------------------------------------------------------------------------
(* The writer and the clients' sockets.                                    *)
\* PushState never waits: a full channel drops it.
PushState ==
  /\ Op
  /\ queue' = IF Room THEN Append(queue, All) ELSE queue
  /\ UNCHANGED <<ptyVars, writing, clientVars, stalled, stalls, down>>

\* ls.mu is held while a broadcast is written.
MuFree == ~writing.all

Holding(to, all) == IF to = {} THEN NotWriting ELSE [to |-> to, all |-> all]

\* Mutant: it looks at the controllers before it writes.
LocksToTake ==
  /\ writing = NotWriting /\ queue # <<>>
  /\ \A i \in Lives : life[i].reader.pc # "cast"

MayTake == writing = NotWriting /\ queue # <<>>

Take ==
  /\ MayTake
  /\ queue' = Tail(queue)
  /\ writing' = IF Head(queue) = All THEN Holding(conns, TRUE)
                ELSE Holding({Head(queue)}, FALSE)
  /\ UNCHANGED <<ptyVars, clientVars, boundVars>>

\* There is no write deadline: a client that does not read keeps the writer.
Write(c) ==
  /\ c \in writing.to \ stalled
  /\ writing' = Holding(writing.to \ {c}, writing.all)
  /\ UNCHANGED <<ptyVars, queue, clientVars, boundVars>>

Stall(c) ==
  /\ stalls < MaxStalls /\ stalls' = stalls + 1
  /\ c \in conns \ stalled /\ stalled' = stalled \cup {c}
  /\ UNCHANGED <<ptyVars, writerVars, clientVars, ops, down>>

\* It reads again, or its connection breaks and writes fail at once.
Resume(c) ==
  /\ stalled' = stalled \ {c} /\ stalled' # stalled
  /\ UNCHANGED <<ptyVars, writerVars, clientVars, ops, stalls, down>>

-----------------------------------------------------------------------------
(* ServeHTTP, one goroutine per client.                                    *)
HandlerFrame == UNCHANGED <<writing, boundVars>>

Connect(c) ==
  /\ At(c, "new") /\ MuFree
  /\ conns' = conns \cup {c} /\ Goto(c, Ready)
  /\ UNCHANGED <<ptyVars, queue, tracked, muHolder, feed, crossed>>
  /\ HandlerFrame

\* status, lists, keys, codes, logs, updates: whatever happens elsewhere, one
\* reply passes the channel.
Request(c) ==
  /\ At(c, "ready") /\ Op
  /\ Goto(c, [pc |-> "reply"])
  /\ UNCHANGED <<ptyVars, writerVars, tracked, conns, muHolder, feed, crossed,
                 stalled, stalls, down>>

Reply(c) ==
  /\ At(c, "reply") /\ Send(c) /\ Goto(c, Ready)
  /\ UNCHANGED <<ptyVars, tracked, conns, muHolder, feed, crossed>>
  /\ HandlerFrame

TakingOver == \E c \in Clients : At(c, "empty")

Attach(c, id) ==
  /\ At(c, "ready") /\ Op
  /\ Goto(c, IF table[id] = None THEN [pc |-> "reply"]
             ELSE [pc |-> "add", id |-> id, s |-> table[id]])
  /\ crossed' = IF TakingOver THEN crossed \cup {c} ELSE crossed
  /\ UNCHANGED <<ptyVars, writerVars, tracked, conns, muHolder, feed,
                 stalled, stalls, down>>

\* AttachLocalSession: the session was looked up before.
AddController(c) ==
  /\ At(c, "add") /\ Free(at[c].s)
  /\ life' = [life EXCEPT ![at[c].s].ctrl = @ \cup {c}]
  /\ feed' = [feed EXCEPT ![c] = [NoFeed EXCEPT !.of = at[c].s]]
  /\ Goto(c, [at[c] EXCEPT !.pc = "table"])
  /\ UNCHANGED <<table, order, reused, queue, tracked, conns, muHolder,
                 crossed>>
  /\ HandlerFrame

\* clientSessionsMu is taken and kept while the other sessions are detached.
LockTable(c) ==
  /\ At(c, "table") /\ muHolder = None
  /\ muHolder' = c /\ Goto(c, [at[c] EXCEPT !.pc = "drop"])
  /\ UNCHANGED <<ptyVars, queue, tracked, conns, feed, crossed>>
  /\ HandlerFrame

\* Mutant: the session it attaches again is dropped with the others.
AllOfThem(c) == tracked[c]

Others(c) == tracked[c] \ {at[c].id}

DropOld(c) ==
  /\ At(c, "drop")
  /\ \E id \in Others(c) :
       /\ Unlocked(id)
       /\ life' = Without(id, {c})
       /\ tracked' = [tracked EXCEPT ![c] = @ \ {id}]
  /\ UNCHANGED <<table, order, reused, queue, at, conns, muHolder, feed,
                 crossed>>
  /\ HandlerFrame

\* Mutant: the new session takes the place of nothing.
TrackedNot(c) == tracked[c]

TrackedNow(c) == tracked[c] \cup {at[c].id}

Track(c) ==
  /\ At(c, "drop") /\ Others(c) = {}
  /\ tracked' = [tracked EXCEPT ![c] = TrackedNow(c)]
  /\ muHolder' = None /\ Goto(c, [at[c] EXCEPT !.pc = "ok"])
  /\ UNCHANGED <<ptyVars, queue, conns, feed, crossed>>
  /\ HandlerFrame

SendOK(c) ==
  /\ At(c, "ok") /\ Send(c) /\ Goto(c, [at[c] EXCEPT !.pc = "history"])
  /\ UNCHANGED <<ptyVars, tracked, conns, muHolder, feed, crossed>>
  /\ HandlerFrame

\* GetHistory looks the id up once more; an empty history is not sent.
GetHistory(c) ==
  /\ At(c, "history")
  /\ LET s == table[at[c].id]
     IN IF s = None \/ life[s].n = 0
        THEN /\ Goto(c, Ready)
             /\ feed' = [feed EXCEPT ![c] =
                           IF s = @.of THEN [@ EXCEPT !.h = 0] ELSE NoFeed]
        ELSE /\ Goto(c, [pc |-> "sendhistory", s |-> s, h |-> life[s].n])
             /\ UNCHANGED feed
  /\ UNCHANGED <<ptyVars, queue, tracked, conns, muHolder, crossed>>
  /\ HandlerFrame

SendHistory(c) ==
  /\ At(c, "sendhistory") /\ Send(c) /\ Goto(c, Ready)
  /\ feed' = [feed EXCEPT ![c] =
                IF at[c].s = @.of THEN [@ EXCEPT !.h = at[c].h] ELSE NoFeed]
  /\ UNCHANGED <<ptyVars, tracked, conns, muHolder, crossed>>
  /\ HandlerFrame

\* Those of cs that looked at session id look at nothing now.
Dropped(id, cs) ==
  [c \in Clients |-> IF c \in cs /\ feed[c].of # None /\ feed[c].of = table[id]
                     THEN NoFeed ELSE feed[c]]

\* detach: the controller first, then the table.
Detach(c, id) ==
  /\ At(c, "ready") /\ Op /\ Unlocked(id)
  /\ life' = Without(id, {c}) /\ feed' = Dropped(id, {c})
  /\ Goto(c, [pc |-> "untrack", id |-> id])
  /\ UNCHANGED <<table, order, reused, writerVars, tracked, conns, muHolder,
                 crossed, stalled, stalls, down>>

Untrack(c) ==
  /\ At(c, "untrack") /\ muHolder = None
  /\ tracked' = [tracked EXCEPT ![c] = @ \ {at[c].id}]
  /\ Goto(c, Ready)
  /\ UNCHANGED <<ptyVars, queue, conns, muHolder, feed, crossed>>
  /\ HandlerFrame

\* DestroySession: its controllers are dropped, then the id is destroyed.
DestroySession(c, id) ==
  /\ At(c, "ready") /\ Op /\ table[id] # None /\ Unlocked(id)
  /\ life' = Without(id, Clients) /\ feed' = Dropped(id, Clients)
  /\ Goto(c, [pc |-> "destroy", id |-> id])
  /\ UNCHANGED <<table, order, reused, writerVars, tracked, conns, muHolder,
                 crossed, stalled, stalls, down>>

Destroy(c) ==
  /\ At(c, "destroy") /\ Goto(c, Ready)
  /\ Removed(at[c].id) /\ life' = Closed(table[at[c].id])
  /\ UNCHANGED <<reused, queue, tracked, conns, muHolder, feed, crossed>>
  /\ HandlerFrame

\* LocalTakeover: the sessions listed now lose their controllers one by one,
\* then the clients' tables are cleared.  (The app's part is SessionEgress.)
Attaching(c) == at[c].pc \in {"add", "table", "drop"}

LocalTakeover(c) ==
  /\ At(c, "ready") /\ Op
  /\ Goto(c, [pc |-> "empty", left |-> ToSet(order)])
  /\ crossed' = crossed \cup {d \in Clients : Attaching(d)}
  /\ UNCHANGED <<ptyVars, writerVars, tracked, conns, muHolder, feed,
                 stalled, stalls, down>>

Empty(c) ==
  /\ At(c, "empty")
  /\ \E id \in at[c].left :
       /\ Unlocked(id)
       /\ life' = Without(id, Clients) /\ feed' = Dropped(id, Clients)
       /\ Goto(c, [at[c] EXCEPT !.left = @ \ {id}])
  /\ UNCHANGED <<table, order, reused, queue, tracked, conns, muHolder,
                 crossed>>
  /\ HandlerFrame

Forget(c) ==
  /\ At(c, "empty") /\ at[c].left = {} /\ muHolder = None
  /\ tracked' = [d \in Clients |-> {}]
  /\ Goto(c, Ready)
  /\ UNCHANGED <<ptyVars, queue, conns, muHolder, feed, crossed>>
  /\ HandlerFrame

\* The connection is closed: the deferred function of ServeHTTP.
Disconnect(c) ==
  /\ At(c, "ready") /\ muHolder = None
  /\ Goto(c, [pc |-> "bye", left |-> tracked[c]])
  /\ tracked' = [tracked EXCEPT ![c] = {}]
  /\ feed' = [feed EXCEPT ![c] = NoFeed]
  /\ UNCHANGED <<ptyVars, queue, conns, muHolder, crossed>>
  /\ HandlerFrame

DetachAll(c) ==
  /\ At(c, "bye")
  /\ \E id \in at[c].left :
       /\ Unlocked(id)
       /\ life' = Without(id, {c})
       /\ Goto(c, [at[c] EXCEPT !.left = @ \ {id}])
  /\ UNCHANGED <<table, order, reused, queue, tracked, conns, muHolder, feed,
                 crossed>>
  /\ HandlerFrame

Leave(c) ==
  /\ At(c, "bye") /\ at[c].left = {} /\ MuFree
  /\ conns' = conns \ {c} /\ Goto(c, Gone)
  /\ stalled' = stalled \ {c}
  /\ UNCHANGED <<ptyVars, writerVars, tracked, muHolder, feed, crossed, ops,
                 stalls, down>>

\* Destroy of the daemon: a send that comes later panics, the process ends.
Close ==
  /\ Op /\ MuFree /\ down' = TRUE
  /\ UNCHANGED <<ptyVars, writerVars, clientVars, stalled, stalls>>

-----------------------------------------------------------------------------
Handler(c) ==
  \/ Connect(c) \/ Reply(c) \/ AddController(c) \/ LockTable(c)
  \/ DropOld(c) \/ Track(c) \/ SendOK(c) \/ GetHistory(c) \/ SendHistory(c)
  \/ Untrack(c) \/ Destroy(c) \/ Empty(c) \/ Forget(c) \/ DetachAll(c)
  \/ Leave(c)

Session(i) == Get(i) \/ Broadcast(i) \/ BroadcastDone(i)

Writer == Take \/ \E c \in Clients : Write(c)

\* What goroutines do that are not waiting for a request, a PTY or a client.
Running ==
  \/ \E c \in Clients : Handler(c)
  \/ \E i \in Lives : Session(i)
  \/ Writer

Requests(c) ==
  \/ Request(c) \/ LocalTakeover(c) \/ Disconnect(c)
  \/ \E id \in Ids : Attach(c, id) \/ Detach(c, id) \/ DestroySession(c, id)

Next ==
  /\ ~down
  /\ \/ Running
     \/ \E c \in Clients : Requests(c) \/ Stall(c) \/ Resume(c)
     \/ \E id \in Ids : Create(id) \/ AppDestroys(id)
     \/ \E i \in Lives : Read(i) \/ WaitExit(i)
     \/ PushState \/ Close

Spec == Init /\ [][Next]_vars

-----------------------------------------------------------------------------
(* A client that attached to a session was given a history and every write *)
(* that is not in it, in order, except the one being broadcast, whatever    *)
(* attaches, detaches, destroys and takeovers run at the same time.  (The  *)
(* writes may start before the history's end and may be sent before it.)   *)
BeingSent(c, i) ==
  \/ life[i].reader.pc = "get"
  \/ life[i].reader.pc = "cast" /\ c \in life[i].reader.left

AttachedSeesEverything ==
  \A c \in Clients : LET f == feed[c]  i == f.of IN
    (/\ i # None /\ f.h >= 0
     /\ table[life[i].id] = i /\ life[i].id \notin reused) =>
       /\ f.last >= 0 /\ f.first <= f.h + 1
       /\ \/ life[i].n \in {f.h, f.last}
          \/ BeingSent(c, i) /\ life[i].n - 1 \in {f.h, f.last}

(* A controller of a listed session belongs to a client that will detach   *)
(* it: it is in clientSessions, or its client is just attaching, detaching *)
(* or leaving.  Not so when the attach ran beside a takeover.              *)
ControllersTracked ==
  \A id \in Ids : table[id] # None =>
    \A c \in life[table[id]].ctrl \ crossed :
      \/ id \in tracked[c]
      \/ at[c].pc \in {"table", "drop"} /\ at[c].id = id
      \/ at[c].pc = "bye" /\ id \in at[c].left

(* As long as every client reads, the locks and the channel never make     *)
(* everybody wait for everybody.                                           *)
Busy ==
  \/ queue # <<>> \/ writing # NotWriting
  \/ \E c \in Clients : at[c].pc \notin {"new", "ready", "gone"}
  \/ \E i \in Lives : life[i].reader.pc # "read"

NobodyStuck == (Busy /\ stalled = {} /\ ~down) => ENABLED Running
=============================================================================
