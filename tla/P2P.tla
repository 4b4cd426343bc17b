-------------------------------- MODULE P2P --------------------------------
(***************************************************************************)
(* The P2P connection of the daemon: offers that arrive over the relay,    *)
(* the goroutine startP2PAsAnswerer each of them starts, the buffering of  *)
(* early ICE candidates, the selection of the channel and what is cleared  *)
(* when either channel goes.  pion is external: its callbacks come in any  *)
(* order the state of the connection allows.  An attempt is named by the   *)
(* number of its offer, and so is the WebRTCConn it creates.               *)
(***************************************************************************)
EXTENDS Integers

CONSTANTS
  Trickle,     \* the candidates of the app: of an offer, early or late
  MaxOffers,   \* bound on the offers the app makes
  MaxEvents    \* bound on selections, relay changes and the like

ASSUME P2PAssumption ==
  /\ {MaxOffers, MaxEvents} \subseteq Nat
  /\ Trickle \subseteq (1..MaxOffers) \X {"early", "late"}

VARIABLES
  offers,      \* how many offers have arrived
  attempt,     \* offer |-> its goroutine: pc and the candidates it holds
  conn,        \* offer |-> its WebRTCConn
  rtc,         \* d.rtc, None or the offer whose connection it is
  pendingICE,  \* d.pendingICE
  pendingMode, \* d.pendingICEMode
  reader,      \* the relay's readLoop: Idle, or the candidate it adds
  trickled,    \* the candidates the app has sent
  mode,        \* d.channelMode, "" counted as "ts"
  relay,       \* what tsRelayLoop does: "up" while it waits for Done
  linked,      \* d.wsRelay.connected, until readLoop has returned
  subscribed,  \* d.subscribed is not empty
  events,      \* how many events so far
  odd,         \* what has happened: "overlap", an offer or a candidate came
               \* during another's answer, an answer failed or kicked emptied
               \* the buffer; "replaced", an offer closed a connection in
               \* place, or a timer gave one up that was just made;
               \* "crossed", the P2P goroutine found the relay connected
               \* after tsRelayLoop had found P2P open; "late", a handler of
               \* the relay subscribed after tsRelayLoop had dealt with that
  unbacked     \* p2p is selected without a channel that was ever open, or
               \* the channel was replaced or given up while it was selected

vars == <<offers, attempt, conn, rtc, pendingICE, pendingMode, reader,
          trickled, mode, relay, linked, subscribed, events, odd, unbacked>>

None == 0
Offers == 1..MaxOffers
Idle == [do |-> "idle"]
NoConn == [pc |-> "none", term |-> FALSE, told |-> FALSE,
           connectCh |-> "empty", disconnectCh |-> FALSE, added |-> {}]

Init ==
  /\ offers = 0
  /\ attempt = [o \in Offers |-> [pc |-> "none", held |-> {}]]
  /\ conn = [o \in Offers |-> NoConn]
  /\ rtc = None /\ pendingICE = {} /\ pendingMode = FALSE
  /\ reader = Idle /\ trickled = {}
  /\ mode = "ts" /\ relay = "up" /\ linked = TRUE /\ subscribed = TRUE
  /\ events = 0
  /\ odd = {} /\ unbacked = FALSE

Event == events < MaxEvents /\ events' = events + 1
iceVars == <<pendingICE, pendingMode, reader, trickled, odd>>
relayVars == <<relay, linked>>
channelVars == <<mode, relayVars, subscribed, unbacked>>

At(o, pc) == attempt[o].pc = pc
Answering(o) == attempt[o].pc \in {"begin", "answer", "publish"}
Open(o) == o # None /\ conn[o].term

-----------------------------------------------------------------------------
(* What the app sends over the relay, handled by one read loop.            *)
\* The offer takes what was buffered before it.
Offer ==
  /\ linked /\ reader = Idle /\ offers < MaxOffers
  /\ offers' = offers + 1
  /\ attempt' = [attempt EXCEPT ![offers'] =
                   [pc |-> "begin", held |-> pendingICE]]
  /\ pendingICE' = {} /\ pendingMode' = TRUE
  /\ odd' = odd \cup {"overlap" : o \in {n \in Offers : Answering(n)}}
  /\ UNCHANGED <<conn, rtc, reader, trickled, channelVars, events>>

\* A candidate of the offer that is under way, or of the next one.
Sendable(c) ==
  /\ c \notin trickled
  /\ c[1] = IF c[2] = "early" THEN offers + 1 ELSE offers

\* Mutant: candidates are buffered only until the first connection.
BufferingOnlyNil == rtc = None

Buffering == pendingMode \/ rtc = None

ReceiveICE(c) ==
  /\ linked /\ reader = Idle /\ Sendable(c)
  /\ trickled' = trickled \cup {c}
  /\ IF Buffering
     THEN pendingICE' = pendingICE \cup {c} /\ UNCHANGED reader
     ELSE reader' = [do |-> "add", c |-> c, to |-> rtc] /\ UNCHANGED pendingICE
  \* An early one may find an attempt under way or the last one's connection.
  /\ odd' = IF c[2] = "early" /\ (~Buffering \/ \E o \in Offers : Answering(o))
            THEN odd \cup {"overlap"} ELSE odd
  /\ UNCHANGED <<offers, attempt, conn, rtc, pendingMode, channelVars,
                 events>>

\* AddRemoteICE, after rtcMu was released.
AddICE ==
  /\ reader.do = "add"
  /\ conn' = [conn EXCEPT ![reader.to].added = @ \cup {reader.c}]
  /\ reader' = Idle
  /\ UNCHANGED <<offers, attempt, rtc, pendingICE, pendingMode, trickled,
                 channelVars, events, odd>>

-----------------------------------------------------------------------------
(* startP2PAsAnswerer.                                                     *)
Step(o, from, to) ==
  /\ At(o, from)
  /\ attempt' = [attempt EXCEPT ![o].pc = to]
  /\ UNCHANGED <<offers, events>>

Closed(c, o) ==
  IF o = None THEN c
  ELSE [c EXCEPT ![o].pc = IF @ = "ended" THEN @ ELSE "closed"]

Begin(o) ==
  /\ Step(o, "begin", "answer")
  /\ conn' = Closed(conn, rtc)
  /\ rtc' = None
  /\ unbacked' = (unbacked \/ (mode = "p2p" /\ rtc # None))
  /\ odd' = IF rtc # None THEN odd \cup {"replaced"} ELSE odd
  /\ UNCHANGED <<pendingICE, pendingMode, reader, trickled, mode, relayVars,
                 subscribed>>

\* The answer goes out over the relay, if that is up.
Answered(o) ==
  /\ Step(o, "answer", "publish")
  /\ conn' = [conn EXCEPT ![o].pc =
                IF linked /\ relay = "up" THEN "offered" ELSE "unheard"]
  /\ UNCHANGED <<rtc, iceVars, channelVars>>

\* pendingICEMode stays set and the new connection is never closed.
AnswerFails(o) ==
  /\ Step(o, "answer", "done")
  /\ odd' = odd \cup {"overlap"}
  /\ UNCHANGED <<conn, rtc, pendingICE, pendingMode, reader, trickled,
                 channelVars>>

\* Whatever connection another attempt has put there is overwritten.
Publish(o) ==
  /\ At(o, "publish")
  /\ attempt' = [attempt EXCEPT ![o] =
                   [pc |-> "replay", held |-> @.held \cup pendingICE]]
  /\ rtc' = o
  /\ unbacked' = (unbacked \/ (mode = "p2p" /\ rtc # None))
  /\ pendingICE' = {} /\ pendingMode' = FALSE
  /\ odd' = IF rtc # None THEN odd \cup {"replaced"} ELSE odd
  /\ UNCHANGED <<offers, conn, reader, trickled, mode, relayVars,
                 subscribed, events>>

Replay(o) ==
  /\ At(o, "replay")
  /\ attempt' = [attempt EXCEPT ![o] = [pc |-> "connecting", held |-> {}]]
  /\ UNCHANGED <<offers, events>>
  /\ conn' = [conn EXCEPT ![o].added = @ \cup attempt[o].held]
  /\ UNCHANGED <<rtc, iceVars, channelVars>>

\* WaitConnected: a result, or its timer; with both ready either is taken.
Connected(o) ==
  /\ conn[o].connectCh = "ok"
  /\ Step(o, "connecting", "connected")
  /\ conn' = [conn EXCEPT ![o].connectCh = "empty"]
  /\ UNCHANGED <<rtc, iceVars, channelVars>>

NotConnected(o) ==
  /\ Step(o, "connecting", "giveup")
  /\ conn' = Closed(IF conn[o].connectCh = "error"
                    THEN [conn EXCEPT ![o].connectCh = "empty"] ELSE conn, o)
  /\ odd' = IF conn[o].connectCh = "ok" THEN odd \cup {"replaced"} ELSE odd
  /\ UNCHANGED <<rtc, pendingICE, pendingMode, reader, trickled, channelVars>>

GiveUp(o) ==
  /\ Step(o, "giveup", "done")
  /\ rtc' = IF rtc = o THEN None ELSE rtc
  /\ unbacked' = (unbacked \/ (mode = "p2p" /\ rtc = o))
  /\ UNCHANGED <<conn, iceVars, mode, relayVars, subscribed>>

Disconnected(o) ==
  /\ conn[o].disconnectCh
  /\ Step(o, "connected", "lost")
  /\ conn' = [conn EXCEPT ![o].disconnectCh = FALSE]
  /\ UNCHANGED <<rtc, iceVars, channelVars>>

\* Another connection has taken over: the old goroutine does not interfere.
TakenOver(o) ==
  /\ rtc # o
  /\ Step(o, "lost", "done")
  /\ conn' = Closed(conn, o)
  /\ UNCHANGED <<rtc, iceVars, channelVars>>

Unset(o) ==
  /\ rtc = o
  /\ Step(o, "lost", "mode")
  /\ rtc' = None
  /\ UNCHANGED <<conn, iceVars, channelVars>>

\* Mutant: the mode is not looked at.
AfterModeClose == "close"

AfterMode == IF mode = "p2p" THEN "reset" ELSE "close"

ReadMode(o) ==
  /\ Step(o, "mode", AfterMode)
  /\ UNCHANGED <<conn, rtc, iceVars, channelVars>>

\* channel_failed follows on the relay.
ResetMode(o) ==
  /\ Step(o, "reset", "close")
  /\ mode' = "ts" /\ unbacked' = FALSE
  /\ UNCHANGED <<conn, rtc, iceVars, relayVars, subscribed>>

\* The connection is closed, transfers and tunnels are cancelled.
CloseLost(o) ==
  /\ Step(o, "close", "check")
  /\ conn' = Closed(conn, o)
  /\ UNCHANGED <<rtc, iceVars, channelVars>>

\* Mutant: the subscriptions are left to the relay in any case.
AfterCheckKeep == "done"

\* d.wsRelay is there and connected.
AfterCheck == IF linked /\ relay # "down" THEN "done" ELSE "clear"

CheckRelay(o) ==
  /\ Step(o, "check", AfterCheck)
  /\ odd' = IF AfterCheck = "done" /\ relay = "unset"
            THEN odd \cup {"crossed"} ELSE odd
  /\ UNCHANGED <<conn, rtc, pendingICE, pendingMode, reader, trickled,
                 channelVars>>

ClearSubscribed(o) ==
  /\ Step(o, "clear", "done")
  /\ subscribed' = FALSE
  /\ UNCHANGED <<conn, rtc, iceVars, mode, relayVars, unbacked>>

Answerer(o) ==
  \/ Begin(o) \/ Answered(o) \/ AnswerFails(o) \/ Publish(o) \/ Replay(o)
  \/ Connected(o) \/ NotConnected(o) \/ GiveUp(o) \/ Disconnected(o)
  \/ TakenOver(o) \/ Unset(o) \/ ReadMode(o) \/ ResetMode(o) \/ CloseLost(o)
  \/ CheckRelay(o) \/ ClearSubscribed(o)

-----------------------------------------------------------------------------
(* pion's callbacks.  connectCh and disconnectCh have one place and what   *)
(* finds it taken is dropped.                                              *)
Callback(o, new) ==
  /\ conn' = [conn EXCEPT ![o] = new]
  /\ UNCHANGED <<offers, attempt, rtc, iceVars, channelVars>>
Told(c, result) == IF c.connectCh = "empty" THEN result ELSE c.connectCh

ICEConnected(o) ==
  /\ conn[o].pc = "offered" /\ UNCHANGED events
  /\ Callback(o, [conn[o] EXCEPT !.pc = "up",
                    !.connectCh = Told(conn[o], "ok")])

ICEFailed(o) ==
  /\ conn[o].pc \in {"offered", "unheard", "up"} /\ Event
  /\ Callback(o, [conn[o] EXCEPT !.pc = "failed", !.disconnectCh = TRUE,
                    !.connectCh = Told(conn[o], "error")])

ICEDisconnected(o) ==
  /\ conn[o].pc = "up" /\ ~conn[o].disconnectCh /\ Event
  /\ Callback(o, [conn[o] EXCEPT !.disconnectCh = TRUE])

\* Nothing has been buffered for OnOpen to flush: senders ask Connected first.
TerminalOpens(o) ==
  /\ conn[o].pc = "up" /\ ~conn[o].term /\ ~conn[o].told /\ UNCHANGED events
  /\ Callback(o, [conn[o] EXCEPT !.term = TRUE, !.told = TRUE])

TerminalCloses(o) ==
  /\ conn[o].pc = "up" /\ conn[o].term /\ Event
  /\ Callback(o, [conn[o] EXCEPT !.term = FALSE, !.disconnectCh = TRUE])

\* The state change and OnClose that follow pc.Close.
Close(o) ==
  /\ conn[o].pc = "closed" /\ UNCHANGED events
  /\ Callback(o, [conn[o] EXCEPT !.pc = "ended", !.term = FALSE, !.told = TRUE,
                    !.disconnectCh = TRUE,
                    !.connectCh = Told(conn[o], "error")])

Pion(o) ==
  \/ ICEConnected(o) \/ ICEFailed(o) \/ ICEDisconnected(o)
  \/ TerminalOpens(o) \/ TerminalCloses(o) \/ Close(o)

-----------------------------------------------------------------------------
(* The other handlers and the relay loop.                                  *)
\* Of the app, on either channel.
ChannelSelect(m) ==
  /\ Event /\ mode' = m
  /\ linked \/ Open(rtc)
  /\ unbacked' = (m = "p2p" /\ ~Open(rtc))
  /\ UNCHANGED <<offers, attempt, conn, rtc, iceVars, relayVars, subscribed>>

PeerOffline ==
  /\ Event /\ linked /\ reader = Idle /\ mode # "p2p"
  /\ subscribed' = FALSE
  /\ UNCHANGED <<offers, attempt, conn, rtc, iceVars, mode, relayVars,
                 unbacked>>

\* By a second app.  Its three sections are taken as one step.
Kicked ==
  /\ Event
  /\ conn' = Closed(conn, rtc) /\ rtc' = None
  /\ pendingICE' = {} /\ pendingMode' = FALSE
  /\ odd' = odd \cup {"overlap"}
  /\ mode' = "ts" /\ unbacked' = FALSE /\ subscribed' = FALSE
  /\ UNCHANGED <<offers, attempt, reader, trickled, relayVars>>

\* Over the relay also by a handler that runs while tsRelayLoop cleans up.
Subscribe ==
  /\ Event /\ subscribed' = TRUE
  /\ \/ Open(rtc) /\ UNCHANGED odd
     \/ /\ linked /\ reader = Idle
        /\ odd' = IF relay \in {"unset", "down"} THEN odd \cup {"late"} ELSE odd
  /\ UNCHANGED <<offers, attempt, conn, rtc, pendingICE, pendingMode, reader,
                 trickled, mode, relayVars, unbacked>>

\* The relay connection.  A writer or the ping loop that fails closes closeCh
\* and leaves connected to readLoop, which clears it when it returns and only
\* then closes closeCh if it was the first to end.
RelayStep(from, to) ==
  /\ relay = from /\ relay' = to
  /\ UNCHANGED <<offers, attempt, conn, rtc, iceVars, mode, unbacked>>

RelayClosed ==
  /\ RelayStep("up", "lost")
  /\ IF linked THEN Event ELSE UNCHANGED events
  /\ UNCHANGED <<linked, subscribed>>

ReadLoopEnds ==
  /\ linked /\ reader = Idle /\ linked' = FALSE
  /\ IF relay = "up" THEN Event ELSE UNCHANGED events
  /\ UNCHANGED <<offers, attempt, conn, rtc, iceVars, mode, relay, subscribed,
                 unbacked>>

\* tsRelayLoop, after Done: transfers and tunnels are cancelled, then the
\* subscriptions are dropped unless the P2P connection is open, and only then
\* d.wsRelay is unset.
AfterLoss == IF Open(rtc) THEN "unset" ELSE "clear"

RelayCheck ==
  RelayStep("lost", AfterLoss) /\ UNCHANGED <<linked, subscribed, events>>

RelayClear ==
  /\ RelayStep("clear", "unset")
  /\ subscribed' = FALSE /\ UNCHANGED <<linked, events>>

RelayUnset ==
  RelayStep("unset", "down") /\ UNCHANGED <<linked, subscribed, events>>

RelayUp ==
  /\ RelayStep("down", "up")
  /\ linked' = TRUE /\ UNCHANGED <<subscribed, events>>

-----------------------------------------------------------------------------
Next ==
  \/ Offer \/ AddICE
  \/ \E c \in Trickle : ReceiveICE(c)
  \/ \E o \in Offers : Answerer(o) \/ Pion(o)
  \/ \E m \in {"ts", "p2p"} : ChannelSelect(m)
  \/ PeerOffline \/ Kicked \/ Subscribe
  \/ RelayClosed \/ ReadLoopEnds
  \/ RelayCheck \/ RelayClear \/ RelayUnset \/ RelayUp

Spec == Init /\ [][Next]_vars

-----------------------------------------------------------------------------
(* The connection in use has every candidate the app sent for its offer,   *)
(* whether it came before the offer, while the answer was made or after,   *)
(* unless offers overlapped, an answer failed or the app was kicked.       *)
CandidatesReachOffer ==
  \A c \in trickled :
    (rtc = c[1] /\ "overlap" \notin odd /\ ~At(rtc, "replay")) =>
    c \in conn[rtc].added \/ (reader.do = "add" /\ reader.c = c)

(* p2p does not stay selected when its connection is lost: the goroutine   *)
(* that notices is still to reset the mode.  Not so for a connection that  *)
(* a new offer replaced or that was given up at its timer.                 *)
ModeFollowsConnection ==
  (mode = "p2p" /\ rtc = None /\ ~unbacked) =>
    \E o \in Offers : At(o, "mode") \/ At(o, "reset")

\* Both channels are gone, and whoever noticed is done.
ChannelsGone ==
  /\ relay = "down" /\ rtc = None
  /\ \A o \in Offers : At(o, "none") \/ At(o, "done")

(* When both channels are gone the subscriptions are too: of the two that  *)
(* notice a loss, each leaving them to the other's channel, one drops      *)
(* them.  Not so if the P2P connection was replaced, not lost, if a        *)
(* handler of the relay that was still running subscribed again, or if     *)
(* the P2P goroutine looked at the relay between tsRelayLoop's look at P2P *)
(* and its unsetting d.wsRelay, and found it connected (see below).        *)
LastChannelClears ==
  ChannelsGone /\ odd \cap {"replaced", "late", "crossed"} = {} => ~subscribed
=============================================================================
