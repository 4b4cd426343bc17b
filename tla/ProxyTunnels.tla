---------------------------- MODULE ProxyTunnels ----------------------------
(***************************************************************************)
(* proxy_manager.go and proxydial.go: TCP and WebSocket tunnels and HTTP   *)
(* fetches the app asks for.  Every request gets a goroutine that dials,   *)
(* enters the tunnel in the table under the id the app chose and reads     *)
(* from the target; handlers of the app's messages look tunnels up, write  *)
(* to them and close them; the end of a channel closes all.                *)
(*                                                                         *)
(* What a target sends is so many frames, and of a frame its size: 1 fits  *)
(* everywhere, 2 is more than a sealed text message may hold, 3 more than  *)
(* a data channel takes.  A frame that does not fit is dropped, and the    *)
(* stream goes on.                                                         *)
(***************************************************************************)
EXTENDS Integers, Sequences, FiniteSets

CONSTANTS
  Goroutines,   \* the read loops that run handlers
  ConnIds,      \* ids the app gives its tunnels
  HeaderLimit,  \* proxyHeaderLimit, in header lines
  MaxDials,     \* bound on requests
  MaxUnits,     \* bound on the frames of one target
  MaxEvents     \* bound on what happens to channel and peer

ASSUME ProxyAssumption ==
  {HeaderLimit, MaxDials, MaxUnits, MaxEvents} \subseteq Nat

VARIABLES
  conns,    \* pm.conns and pm.wsConns: key |-> tunnel, or None
  tun,      \* the tunnels and fetches so far, one record each
  at,       \* goroutine |-> where its handler is
  mode,     \* d.channelMode, "" counted as "ts"
  up,       \* the selected channel takes frames
  keys,     \* the encrypted channel is active
  verified, \* d.secCodeVerified
  events,
  switched  \* history: the tunnels that had their buffer when P2P was selected

vars == <<conns, tun, at, mode, up, keys, verified, events, switched>>
linkVars == <<mode, up, keys, verified, events, switched>>

None == 0
Idle == [do |-> "idle"]
Keys == {"tcp", "ws"} \X ConnIds
Tunnels == DOMAIN tun
Sizes == 1..3

\* NewProxyManager: empty tables.
Init ==
  /\ conns = [k \in Keys |-> None] /\ tun = <<>>
  /\ at = [g \in Goroutines |-> Idle]
  /\ mode = "ts" /\ up = TRUE /\ keys = TRUE /\ verified = TRUE
  /\ events = 0 /\ switched = {}

Set(i, new) ==
  [tun EXCEPT ![i] = [f \in DOMAIN @ |->
     IF f \in DOMAIN new THEN new[f] ELSE @[f]]]
At(i, pc) == i \in Tunnels /\ tun[i].pc = pc

-----------------------------------------------------------------------------
(* Requests.  The handler only starts the goroutine.                       *)
New(g, key) ==
  /\ at[g] = Idle /\ verified /\ Len(tun) < MaxDials
  /\ tun' = Append(tun, [key |-> key, pc |-> "dial", open |-> FALSE,
        next |-> 1, last |-> MaxUnits, full |-> 1,
        refused |-> FALSE, replaced |-> FALSE])
  /\ UNCHANGED <<conns, at, linkVars>>

HandleConnect(g, id) == New(g, <<"tcp", id>>)
HandleWsConnect(g, id) == New(g, <<"ws", id>>)
HandleHttpFetch(g, id) == New(g, <<"http", id>>)

\* Loopback and, for what the app asks for, private targets are dialled
\* directly; with --proxy everything else goes through CONNECT.
Targets == {"loopback", "private", "public"}
DialRoute(proxy, target) ==
  IF ~proxy \/ target \in {"loopback", "private"} THEN "direct" ELSE "proxy"

\* dialThroughProxy reads a status line, then headers up to a blank line, no
\* more than the limit.  The target's bytes that came along are read next,
\* through bufferedConn.
Replies ==
  {<<status>> \o head :
     status \in {"200", "407", "junk"},
     head \in {<<"blank">>, <<"header", "blank">>, <<"header", "eof">>,
               [k \in 1..(HeaderLimit + 1) |-> "header"] \o <<"blank">>}}
HeadEnd(reply) == {k \in DOMAIN reply : reply[k] = "blank"}
Established(reply) ==
  reply[1] = "200" /\ \E k \in HeadEnd(reply) : k <= HeaderLimit + 2
DialFails(i) ==
  /\ At(i, "dial")
  /\ tun' = Set(i, [pc |-> "done"])
  /\ UNCHANGED <<conns, at, linkVars>>

\* The connection is entered under its id, over one that was there before.
Displaced(t, key) == conns[key] # None /\ t = conns[key]

Register(i) ==
  /\ At(i, "dial") /\ tun[i].key \in Keys
  /\ \E proxy \in BOOLEAN, target \in Targets, reply \in Replies :
       /\ DialRoute(proxy, target) = "proxy" => Established(reply)
       /\ tun' = [t \in Tunnels |->
            IF t # i THEN [tun[t] EXCEPT
              !.replaced = @ \/ Displaced(t, tun[i].key)]
            ELSE [tun[t] EXCEPT !.pc = "announce", !.open = TRUE]]
  /\ conns' = [conns EXCEPT ![tun[i].key] = i]
  /\ UNCHANGED <<at, linkVars>>

\* proxy_connected, then the buffer: its size is that of the channel now.  A
\* WebSocket message may have any size.
\* Mutant: every buffer has the relay's size.
BufferSizeRelay(kind) == 3
BufferSize(kind) == IF kind = "tcp" /\ mode = "p2p" THEN 2 ELSE 3
Announce(i) ==
  /\ At(i, "announce")
  /\ tun' = Set(i, [pc |-> "check", full |-> BufferSize(tun[i].key[1])])
  /\ UNCHANGED <<conns, at, linkVars>>

-----------------------------------------------------------------------------
(* The read loops.                                                         *)
\* What the channel takes: a tunnel's frames are binary, the others are text
\* messages, which WrapJSON refuses to seal above its limit.  Without keys
\* they go out in clear.
Fits(kind, size) ==
  /\ kind # "tcp" /\ keys => size = 1
  /\ mode = "p2p" => size <= 2
\* Nobody is told of a frame that was dropped.
Dropped(i, size) == up /\ ~Fits(tun[i].key[1], size)
Passed(i, size, pc) ==
  [pc |-> pc, next |-> tun[i].next + 1,
   refused |-> tun[i].refused \/ Dropped(i, size)]

Check(i) ==
  /\ At(i, "check")
  /\ tun' = Set(i, [pc |-> IF tun[i].open THEN "read" ELSE "leave"])
  /\ UNCHANGED <<conns, at, linkVars>>

\* One read and its frame.
Read(i) ==
  /\ At(i, "read") /\ tun[i].open /\ tun[i].next <= MaxUnits
  /\ \E size \in 1..tun[i].full : tun' = Set(i, Passed(i, size, "check"))
  /\ UNCHANGED <<conns, at, linkVars>>

\* Mutant: the error of a connection closed here is taken for a timeout.
ReadErrorOpen(i) ==
  /\ At(i, "read") /\ tun[i].open
  /\ tun' = Set(i, [pc |-> "leave"])
  /\ UNCHANGED <<conns, at, linkVars>>
\* The target is done, or the connection was closed here: the app is sent a
\* close in either case.
ReadError(i) ==
  /\ At(i, "read")
  /\ tun' = Set(i, [pc |-> "leave"])
  /\ UNCHANGED <<conns, at, linkVars>>

\* removeConn goes by the id: it takes whatever tunnel is under it.
Closed(i) == IF i = None THEN tun ELSE Set(i, [open |-> FALSE])
Removed(key) ==
  /\ conns' = [conns EXCEPT ![key] = None]
  /\ tun' = Closed(conns[key])

\* The deferred removeConn of readLoop and readWsLoop.
Leave(i) ==
  /\ At(i, "leave")
  /\ LET key == tun[i].key
     IN /\ conns' = [conns EXCEPT ![key] = None]
        /\ tun' = [t \in Tunnels |-> [tun[t] EXCEPT
             !.pc = IF t = i THEN "done" ELSE @,
             !.open = @ /\ t # conns[key]]]
  /\ UNCHANGED <<at, linkVars>>

\* A fetch: the answer in pieces, in no table and cancelled by nobody.  Every
\* piece carries all headers.
Fetched(i) ==
  /\ At(i, "dial") /\ tun[i].key \notin Keys
  /\ \E total \in 1..MaxUnits, full \in Sizes :
       tun' = Set(i, [pc |-> "body", last |-> total, full |-> full])
  /\ UNCHANGED <<conns, at, linkVars>>

\* Only the last piece may be short.
SendPiece(i) ==
  /\ At(i, "body")
  /\ \/ /\ tun[i].next < tun[i].last
        /\ tun' = Set(i, Passed(i, tun[i].full, "body"))
     \/ /\ tun[i].next = tun[i].last
        /\ \E size \in 1..tun[i].full : tun' = Set(i, Passed(i, size, "done"))
  /\ UNCHANGED <<conns, at, linkVars>>

-----------------------------------------------------------------------------
(* Messages for a tunnel.                                                  *)
\* HandleData, HandleWsMessage: looked up under mu, written to without it, and
\* without asking for the security code.
HandleData(g, key) ==
  /\ at[g] = Idle /\ conns[key] # None
  /\ at' = [at EXCEPT ![g] = [do |-> "write", to |-> conns[key], key |-> key]]
  /\ UNCHANGED <<conns, tun, linkVars>>

\* A write fails on a closed connection, and may on one that broke.
WriteData(g) ==
  /\ at[g].do = "write"
  /\ \/ tun[at[g].to].open /\ UNCHANGED <<conns, tun>>
     \/ Removed(at[g].key)
  /\ at' = [at EXCEPT ![g] = Idle]
  /\ UNCHANGED linkVars

HandleClose(g, key) ==
  /\ at[g] = Idle /\ conns[key] # None
  /\ verified \/ key[1] = "ws"
  /\ Removed(key)
  /\ UNCHANGED <<at, linkVars>>

\* Mutant: the tables are emptied and the connections forgotten.
CloseAllForgetting ==
  /\ conns' = [k \in Keys |-> None]
  /\ tun' = tun
\* Both tables are emptied under mu, then the connections are closed.
CloseAll ==
  /\ conns' = [k \in Keys |-> None]
  /\ tun' = [i \in Tunnels |->
       [tun[i] EXCEPT !.open = @ /\ \A k \in Keys : conns[k] # i]]

-----------------------------------------------------------------------------
(* Channel and peer.                                                       *)
Event == events < MaxEvents /\ events' = events + 1

\* Relay lost, data channel lost, peer_offline, kicked: all close all, and
\* peer_offline takes the keys.
ChannelEnds ==
  /\ Event /\ CloseAll
  /\ mode' \in {mode, "ts"} /\ up' \in BOOLEAN /\ keys' \in {keys, FALSE}
  /\ UNCHANGED <<at, verified, switched>>

\* channel_select; the tunnels stay, with their buffers, and for P2P keys and
\* flag go.
Sized == {i \in Tunnels : tun[i].pc \notin {"dial", "announce"}}
ChannelSelect(m) ==
  /\ Event /\ mode' = m /\ up' \in BOOLEAN
  /\ keys' = (keys /\ m # "p2p") /\ verified' = (verified /\ m # "p2p")
  /\ switched' = IF m = "p2p" THEN switched \cup Sized ELSE switched
  /\ UNCHANGED <<conns, tun, at>>

\* A new app: keys and flag go, the tunnels stay and send on in clear.
PeerOnline ==
  /\ Event /\ keys' = FALSE /\ verified' = FALSE
  /\ UNCHANGED <<conns, tun, at, mode, up, switched>>

\* A new security code takes the flag and leaves the keys.
SetSecCode ==
  /\ Event /\ verified' = FALSE
  /\ UNCHANGED <<conns, tun, at, mode, up, keys, switched>>

\* A handshake ends on the selected channel.
Verified ==
  /\ ~(keys /\ verified /\ up) /\ keys' = TRUE /\ verified' = TRUE
  /\ up' = TRUE
  /\ UNCHANGED <<conns, tun, at, mode, events, switched>>

ReadLoop(i) ==
  \/ Announce(i) \/ Check(i) \/ Read(i) \/ ReadError(i) \/ Leave(i)

Handler(g) ==
  \/ \E id \in ConnIds :
       HandleConnect(g, id) \/ HandleWsConnect(g, id) \/ HandleHttpFetch(g, id)
  \/ \E key \in Keys : HandleData(g, key) \/ HandleClose(g, key)
  \/ WriteData(g)

Next ==
  \/ \E g \in Goroutines : Handler(g)
  \/ \E i \in Tunnels :
       DialFails(i) \/ Register(i) \/ ReadLoop(i) \/ Fetched(i) \/ SendPiece(i)
  \/ ChannelEnds \/ (\E m \in {"ts", "p2p"} : ChannelSelect(m))
  \/ PeerOnline \/ SetSecCode \/ Verified

\* A blocked Read returns once its connection is closed.
ReaderMoves(i) ==
  \/ Announce(i) \/ Check(i) \/ Leave(i)
  \/ ReadError(i) /\ ~tun[i].open

Fairness == \A i \in 1..MaxDials : WF_vars(i \in Tunnels /\ ReaderMoves(i))
Spec == Init /\ [][Next]_vars /\ Fairness

-----------------------------------------------------------------------------
(* The variables have their types.                                         *)
TunnelRecords ==
  [key : {"tcp", "ws", "http"} \X ConnIds,
   pc : {"dial", "announce", "check", "read", "leave", "body", "done"},
   open : BOOLEAN, next : 1..(MaxUnits + 1), last : 0..MaxUnits,
   full : Sizes, refused : BOOLEAN, replaced : BOOLEAN]

TypeOK ==
  /\ tun \in Seq(TunnelRecords) /\ Len(tun) <= MaxDials
  /\ conns \in [Keys -> {None} \cup Tunnels]
  /\ at \in [Goroutines ->
               {Idle} \cup [do : {"write"}, to : Tunnels, key : Keys]]
  /\ switched \subseteq Tunnels
  /\ mode \in {"ts", "p2p"} /\ {up, keys, verified} \subseteq BOOLEAN

(* The table and the sockets agree although ids are reused and dials       *)
(* complete late: no handler is led to a tunnel that has been closed, and  *)
(* a connection that is open and in no table, which nothing the app or a   *)
(* lost channel does can close, was replaced by a request with its id.     *)
OrphansOnlyByReuse ==
  /\ \A k \in Keys : conns[k] # None => tun[conns[k]].open
  /\ \A i \in Tunnels :
       (tun[i].open /\ ~tun[i].replaced) => conns[tun[i].key] = i

(* A tunnel's stream loses a frame for its size only if the app selected    *)
(* P2P while the tunnel was open: a buffer sized for P2P stays valid on    *)
(* either channel, and so does every buffer across losses, new apps and    *)
(* fall-backs to the relay, however they fall between the registration,    *)
(* the sizing and the reads (readLoop, proxyPayloadLimitForChannel).       *)
RefusedOnlyAfterSwitch ==
  \A i \in Tunnels :
    tun[i].key[1] = "tcp" /\ tun[i].refused => i \in switched

(* The goroutine of a tunnel that was closed ends.                         *)
ReadersEnd ==
  \A i \in 1..MaxDials :
    (i \in Tunnels /\ tun[i].pc \in {"check", "read"} /\ ~tun[i].open)
      ~> (At(i, "done"))
=============================================================================
