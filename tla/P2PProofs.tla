------------------------------- MODULE P2PProofs -------------------------------
(***************************************************************************)
(* Theorems about P2P, for any number of offers, candidates and events:    *)
(* no candidate is lost to the connection it was sent for, p2p does not    *)
(* stay selected behind a lost connection, and the subscriptions end with  *)
(* the last channel.                                                       *)
(***************************************************************************)
EXTENDS P2P, TLAPS

Pcs == {"none", "begin", "answer", "publish", "replay", "connecting",
        "connected", "giveup", "lost", "mode", "reset", "close", "check",
        "clear", "done"}
Attempt == [pc : Pcs, held : SUBSET Trickle]
ConnPcs == {"none", "offered", "unheard", "up", "failed", "closed", "ended"}
Results == {"empty", "ok", "error"}
Conn == [pc : ConnPcs, term : BOOLEAN, told : BOOLEAN, connectCh : Results,
         disconnectCh : BOOLEAN, added : SUBSET Trickle]

RelayStates == {"up", "lost", "clear", "unset", "down"}
Oddities == {"overlap", "replaced", "crossed", "late"}

\* The types of the variables.
TypeOK ==
  /\ offers \in 0..MaxOffers /\ events \in 0..MaxEvents
  /\ attempt \in [Offers -> Attempt]
  /\ conn \in [Offers -> Conn]
  /\ rtc \in Offers \cup {None}
  /\ pendingICE \subseteq Trickle /\ pendingMode \in BOOLEAN
  /\ reader \in {Idle} \cup [do : {"add"}, c : Trickle, to : Offers]
  /\ trickled \subseteq Trickle
  /\ mode \in {"ts", "p2p"} /\ relay \in RelayStates
  /\ linked \in BOOLEAN /\ subscribed \in BOOLEAN /\ unbacked \in BOOLEAN
  /\ odd \subseteq Oddities

-----------------------------------------------------------------------------
(* What an attempt's step does to the attempts.                            *)

\* o goes from one place to another and keeps what it holds.
Moves(o, from, to) ==
  /\ attempt[o].pc = from /\ attempt'[o].pc = to
  /\ attempt'[o].held = attempt[o].held
  /\ \A p \in Offers \ {o} : attempt'[p] = attempt[p]
  /\ attempt' \in [Offers -> Attempt]
  /\ offers' = offers /\ events' = events

LEMMA StepMoves ==
  ASSUME TypeOK, NEW o \in Offers, NEW from, NEW to \in Pcs, Step(o, from, to)
  PROVE  Moves(o, from, to)
<1>1. /\ attempt[o].pc = from
      /\ attempt' = [attempt EXCEPT ![o].pc = to]
      /\ offers' = offers /\ events' = events
  BY DEF Step, At
<1>2. attempt[o] \in Attempt /\ attempt \in [Offers -> Attempt]
  BY DEF TypeOK
<1> DEFINE a == [attempt[o] EXCEPT !.pc = to]
<1>3. a \in Attempt /\ a.pc = to /\ a.held = attempt[o].held
  BY <1>2 DEF Attempt
<1>4. attempt' = [attempt EXCEPT ![o] = a]
  BY <1>1, <1>2
<1> HIDE DEF a
<1> QED BY <1>1, <1>2, <1>3, <1>4 DEF Moves

\* An attempt is somewhere else, with other candidates.
Becomes(o, from, to, held) ==
  /\ attempt[o].pc = from
  /\ attempt'[o].pc = to /\ attempt'[o].held = held
  /\ \A p \in Offers \ {o} : attempt'[p] = attempt[p]
  /\ attempt' \in [Offers -> Attempt]

LEMMA ReplaceBecomes ==
  ASSUME TypeOK, NEW o \in Offers, NEW to \in Pcs, NEW held \in SUBSET Trickle,
         attempt' = [attempt EXCEPT ![o] = [pc |-> to, held |-> held]]
  PROVE  Becomes(o, attempt[o].pc, to, held)
<1>1. [pc |-> to, held |-> held] \in Attempt
  BY DEF Attempt
<1> QED BY <1>1 DEF TypeOK, Becomes

\* The steps of an attempt, and where they take it.
LEMMA AnswererMoves ==
  ASSUME TypeOK, NEW o \in Offers
  PROVE  /\ Begin(o) => Moves(o, "begin", "answer")
         /\ Answered(o) => Moves(o, "answer", "publish")
         /\ AnswerFails(o) => Moves(o, "answer", "done")
         /\ Publish(o) =>
              /\ Becomes(o, "publish", "replay", attempt[o].held \cup pendingICE)
              /\ offers' = offers /\ events' = events
         /\ Replay(o) => /\ Becomes(o, "replay", "connecting", {})
                         /\ offers' = offers /\ events' = events
         /\ Connected(o) => Moves(o, "connecting", "connected")
         /\ NotConnected(o) => Moves(o, "connecting", "giveup")
         /\ GiveUp(o) => Moves(o, "giveup", "done")
         /\ Disconnected(o) => Moves(o, "connected", "lost")
         /\ TakenOver(o) => Moves(o, "lost", "done")
         /\ Unset(o) => Moves(o, "lost", "mode")
         /\ ReadMode(o) => Moves(o, "mode", AfterMode)
         /\ ResetMode(o) => Moves(o, "reset", "close")
         /\ CloseLost(o) => Moves(o, "close", "check")
         /\ CheckRelay(o) => Moves(o, "check", AfterCheck)
         /\ ClearSubscribed(o) => Moves(o, "clear", "done")
<1>1. \A from : \A to \in Pcs : Step(o, from, to) => Moves(o, from, to)
  BY StepMoves
<1>2. AfterMode \in {"reset", "close"} /\ AfterCheck \in {"done", "clear"}
  BY DEF AfterMode, AfterCheck
<1>3. \A to \in Pcs : \A held \in SUBSET Trickle :
        attempt' = [attempt EXCEPT ![o] = [pc |-> to, held |-> held]] =>
          Becomes(o, attempt[o].pc, to, held)
  BY ReplaceBecomes
<1>4. attempt[o].held \subseteq Trickle /\ pendingICE \subseteq Trickle
  <2>1. attempt[o] \in Attempt
    BY DEF TypeOK
  <2> QED BY <2>1 DEF Attempt, TypeOK
<1>5. ASSUME Publish(o)
      PROVE  /\ Becomes(o, "publish", "replay", attempt[o].held \cup pendingICE)
             /\ offers' = offers /\ events' = events
  <2>1. /\ attempt[o].pc = "publish" /\ offers' = offers /\ events' = events
        /\ attempt' = [attempt EXCEPT ![o] =
             [pc |-> "replay", held |-> attempt[o].held \cup pendingICE]]
    BY <1>5 DEF Publish, At, TypeOK
  <2> QED BY <1>3, <1>4, <2>1 DEF Pcs
<1>6. ASSUME Replay(o)
      PROVE  /\ Becomes(o, "replay", "connecting", {})
             /\ offers' = offers /\ events' = events
  <2>1. /\ attempt[o].pc = "replay" /\ offers' = offers /\ events' = events
        /\ attempt' = [attempt EXCEPT ![o] = [pc |-> "connecting", held |-> {}]]
    BY <1>6 DEF Replay, At
  <2> QED BY <1>3, <2>1 DEF Pcs
<1>7. /\ Begin(o) => Step(o, "begin", "answer")
      /\ Answered(o) => Step(o, "answer", "publish")
      /\ AnswerFails(o) => Step(o, "answer", "done")
      /\ Connected(o) => Step(o, "connecting", "connected")
      /\ NotConnected(o) => Step(o, "connecting", "giveup")
      /\ GiveUp(o) => Step(o, "giveup", "done")
      /\ Disconnected(o) => Step(o, "connected", "lost")
      /\ TakenOver(o) => Step(o, "lost", "done")
      /\ Unset(o) => Step(o, "lost", "mode")
      /\ ReadMode(o) => Step(o, "mode", AfterMode)
      /\ ResetMode(o) => Step(o, "reset", "close")
      /\ CloseLost(o) => Step(o, "close", "check")
      /\ CheckRelay(o) => Step(o, "check", AfterCheck)
      /\ ClearSubscribed(o) => Step(o, "clear", "done")
  BY DEF Begin, Answered, AnswerFails, Connected, NotConnected, GiveUp,
     Disconnected, TakenOver, Unset, ReadMode, ResetMode, CloseLost,
     CheckRelay, ClearSubscribed
<1> QED BY <1>1, <1>2, <1>5, <1>6, <1>7 DEF Pcs

\* The offer that arrives is the next one, and it holds what was buffered.
LEMMA OfferBecomes ==
  ASSUME TypeOK, Offer
  PROVE  /\ offers' = offers + 1 /\ offers' \in Offers
         /\ Becomes(offers', attempt[offers'].pc, "begin", pendingICE)
<1>1. /\ offers < MaxOffers /\ offers' = offers + 1
      /\ attempt' = [attempt EXCEPT ![offers'] =
                       [pc |-> "begin", held |-> pendingICE]]
  BY DEF Offer
<1>2. offers' \in Offers
  BY <1>1, P2PAssumption DEF TypeOK, Offers
<1>3. "begin" \in Pcs /\ pendingICE \in SUBSET Trickle
  BY DEF Pcs, TypeOK
<1>4. PICK n \in Offers : n = offers'
  BY <1>2
<1>5. Becomes(n, attempt[n].pc, "begin", pendingICE)
  BY <1>1, <1>3, <1>4, ReplaceBecomes
<1> QED BY <1>1, <1>4, <1>5

-----------------------------------------------------------------------------
(* What a step does to the connections.                                    *)

\* What the properties look at of a connection, and the rest of it.
SameState(p) == /\ conn'[p].pc = conn[p].pc /\ conn'[p].term = conn[p].term
                /\ conn'[p].told = conn[p].told
                /\ conn'[p].connectCh = conn[p].connectCh
SameAdded(p) == conn'[p].added = conn[p].added

\* Close takes a connection to "closed", or leaves it where pion has ended it.
LEMMA ClosedFacts ==
  ASSUME NEW c \in [Offers -> Conn], NEW q \in Offers \cup {None}
  PROVE  /\ Closed(c, q) \in [Offers -> Conn]
         /\ \A p \in Offers :
              /\ p # q => Closed(c, q)[p] = c[p]
              /\ p = q => Closed(c, q)[p].pc \in {"closed", "ended"}
              /\ Closed(c, q)[p].term = c[p].term
              /\ Closed(c, q)[p].told = c[p].told
              /\ Closed(c, q)[p].connectCh = c[p].connectCh
              /\ Closed(c, q)[p].disconnectCh = c[p].disconnectCh
              /\ Closed(c, q)[p].added = c[p].added
<1>1. CASE q = None
  <2>1. Closed(c, q) = c
    BY <1>1 DEF Closed
  <2>2. \A p \in Offers : p # q
    BY <1>1 DEF Offers, None
  <2> QED BY <2>1, <2>2
<1>2. CASE q # None
  <2>1. q \in Offers /\ c[q] \in Conn
    BY <1>2
  <2> DEFINE d == [c[q] EXCEPT !.pc = IF @ = "ended" THEN @ ELSE "closed"]
  <2>2. /\ d \in Conn /\ d.pc \in {"closed", "ended"} /\ d.term = c[q].term
        /\ d.told = c[q].told /\ d.connectCh = c[q].connectCh
        /\ d.disconnectCh = c[q].disconnectCh /\ d.added = c[q].added
    BY <2>1 DEF Conn, ConnPcs
  <2>3. Closed(c, q) = [c EXCEPT ![q] = d]
    BY <1>2, <2>1 DEF Closed
  <2> HIDE DEF d
  <2> QED BY <2>1, <2>2, <2>3
<1> QED BY <1>1, <1>2

\* One connection is replaced by another value of its record.
LEMMA ConnReplaced ==
  ASSUME TypeOK, NEW o \in Offers, NEW d \in Conn,
         conn' = [conn EXCEPT ![o] = d]
  PROVE  /\ conn' \in [Offers -> Conn] /\ conn'[o] = d
         /\ \A p \in Offers \ {o} : conn'[p] = conn[p]
BY DEF TypeOK

LEMMA ConnFields ==
  ASSUME NEW d \in Conn
  PROVE  /\ d.pc \in ConnPcs /\ d.term \in BOOLEAN /\ d.told \in BOOLEAN
         /\ d.connectCh \in Results /\ d.disconnectCh \in BOOLEAN
         /\ d.added \subseteq Trickle
         /\ \A x \in ConnPcs :
              LET e == [d EXCEPT !.pc = x] IN
              /\ e \in Conn /\ e.pc = x /\ e.term = d.term /\ e.told = d.told
              /\ e.connectCh = d.connectCh /\ e.added = d.added
         /\ \A x \in Results :
              LET e == [d EXCEPT !.connectCh = x] IN
              /\ e \in Conn /\ e.connectCh = x /\ e.pc = d.pc
              /\ e.term = d.term /\ e.told = d.told /\ e.added = d.added
         /\ \A x \in BOOLEAN :
              LET e == [d EXCEPT !.disconnectCh = x] IN
              /\ e \in Conn /\ e.connectCh = d.connectCh /\ e.pc = d.pc
              /\ e.term = d.term /\ e.told = d.told /\ e.added = d.added
         /\ \A x \in SUBSET Trickle :
              LET e == [d EXCEPT !.added = x] IN
              /\ e \in Conn /\ e.connectCh = d.connectCh /\ e.pc = d.pc
              /\ e.term = d.term /\ e.told = d.told /\ e.added = x
BY DEF Conn

\* pion's callbacks: one connection, field by field.
LEMMA PionFacts ==
  ASSUME TypeOK, NEW o \in Offers, Pion(o)
  PROVE  /\ conn' \in [Offers -> Conn]
         /\ \A p \in Offers \ {o} : conn'[p] = conn[p]
         /\ SameAdded(o)
         /\ UNCHANGED <<offers, attempt, rtc, iceVars, channelVars>>
         /\ \/ SameState(o)
            \/ /\ conn[o].pc = "offered" /\ conn'[o].pc = "up"
               /\ conn'[o].connectCh = Told(conn[o], "ok")
               /\ conn'[o].term = conn[o].term /\ conn'[o].told = conn[o].told
            \/ /\ conn[o].pc \in {"offered", "unheard", "up"}
               /\ conn'[o].pc = "failed"
               /\ conn'[o].connectCh = Told(conn[o], "error")
               /\ conn'[o].term = conn[o].term /\ conn'[o].told = conn[o].told
            \/ /\ conn[o].pc = "up" /\ conn'[o].pc = "up"
               /\ conn'[o].connectCh = conn[o].connectCh
               /\ conn'[o].term /\ conn'[o].told
            \/ /\ conn[o].pc = "up" /\ conn'[o].pc = "up"
               /\ conn'[o].connectCh = conn[o].connectCh
               /\ ~conn'[o].term /\ conn'[o].told = conn[o].told
            \/ /\ conn[o].pc = "closed" /\ conn'[o].pc = "ended"
               /\ ~conn'[o].term /\ conn'[o].told
         /\ events' \in {events, events + 1} /\ events' \in 0..MaxEvents
<1>0. PICK d \in Conn : d = conn[o]
  BY DEF TypeOK
<1>1. d.pc \in ConnPcs /\ d.term \in BOOLEAN /\ d.told \in BOOLEAN
      /\ d.connectCh \in Results /\ d.disconnectCh \in BOOLEAN
  BY ConnFields
<1>2. events \in 0..MaxEvents /\ (Event => events' \in {events + 1} \cap 0..MaxEvents)
      /\ (UNCHANGED events => events' \in {events} \cap 0..MaxEvents)
  BY P2PAssumption DEF TypeOK, Event
<1>3. ASSUME NEW e \in Conn, Callback(o, e)
      PROVE  /\ conn' \in [Offers -> Conn] /\ conn'[o] = e
             /\ \A p \in Offers \ {o} : conn'[p] = conn[p]
             /\ UNCHANGED <<offers, attempt, rtc, iceVars, channelVars>>
  BY <1>3, ConnReplaced DEF Callback
<1>4. CASE ICEConnected(o)
  <2> DEFINE e == [d EXCEPT !.pc = "up", !.connectCh = Told(d, "ok")]
  <2>1. /\ e \in Conn /\ e.pc = "up" /\ e.connectCh = Told(d, "ok")
        /\ e.term = d.term /\ e.told = d.told /\ e.added = d.added
    BY <1>1 DEF Conn, ConnPcs, Results, Told
  <2>2. Callback(o, e) /\ conn[o].pc = "offered" /\ UNCHANGED events
    BY <1>0, <1>4 DEF ICEConnected
  <2> HIDE DEF e
  <2> QED BY <1>0, <1>2, <1>3, <2>1, <2>2 DEF SameAdded
<1>5. CASE ICEFailed(o)
  <2> DEFINE e == [d EXCEPT !.pc = "failed", !.disconnectCh = TRUE,
                            !.connectCh = Told(d, "error")]
  <2>1. /\ e \in Conn /\ e.pc = "failed" /\ e.connectCh = Told(d, "error")
        /\ e.term = d.term /\ e.told = d.told /\ e.added = d.added
    BY <1>1 DEF Conn, ConnPcs, Results, Told
  <2>2. Callback(o, e) /\ conn[o].pc \in {"offered", "unheard", "up"} /\ Event
    BY <1>0, <1>5 DEF ICEFailed
  <2> HIDE DEF e
  <2> QED BY <1>0, <1>2, <1>3, <2>1, <2>2 DEF SameAdded
<1>6. CASE ICEDisconnected(o)
  <2> DEFINE e == [d EXCEPT !.disconnectCh = TRUE]
  <2>1. /\ e \in Conn /\ e.pc = d.pc /\ e.connectCh = d.connectCh
        /\ e.term = d.term /\ e.told = d.told /\ e.added = d.added
    BY <1>1 DEF Conn
  <2>2. Callback(o, e) /\ Event
    BY <1>0, <1>6 DEF ICEDisconnected
  <2> HIDE DEF e
  <2> QED BY <1>0, <1>2, <1>3, <2>1, <2>2 DEF SameAdded, SameState
<1>7. CASE TerminalOpens(o)
  <2> DEFINE e == [d EXCEPT !.term = TRUE, !.told = TRUE]
  <2>1. /\ e \in Conn /\ e.pc = d.pc /\ e.connectCh = d.connectCh
        /\ e.term /\ e.told /\ e.added = d.added
    BY <1>1 DEF Conn
  <2>2. Callback(o, e) /\ conn[o].pc = "up" /\ UNCHANGED events
    BY <1>0, <1>7 DEF TerminalOpens
  <2> HIDE DEF e
  <2> QED BY <1>0, <1>2, <1>3, <2>1, <2>2 DEF SameAdded
<1>8. CASE TerminalCloses(o)
  <2> DEFINE e == [d EXCEPT !.term = FALSE, !.disconnectCh = TRUE]
  <2>1. /\ e \in Conn /\ e.pc = d.pc /\ e.connectCh = d.connectCh
        /\ ~e.term /\ e.told = d.told /\ e.added = d.added
    BY <1>1 DEF Conn
  <2>2. Callback(o, e) /\ conn[o].pc = "up" /\ Event
    BY <1>0, <1>8 DEF TerminalCloses
  <2> HIDE DEF e
  <2> QED BY <1>0, <1>2, <1>3, <2>1, <2>2 DEF SameAdded
<1>9. CASE Close(o)
  <2> DEFINE e == [d EXCEPT !.pc = "ended", !.term = FALSE, !.told = TRUE,
                            !.disconnectCh = TRUE,
                            !.connectCh = Told(d, "error")]
  <2>1. /\ e \in Conn /\ e.pc = "ended" /\ ~e.term /\ e.told /\ e.added = d.added
    BY <1>1 DEF Conn, ConnPcs, Results, Told
  <2>2. Callback(o, e) /\ conn[o].pc = "closed" /\ UNCHANGED events
    BY <1>0, <1>9 DEF Close
  <2> HIDE DEF e
  <2> QED BY <1>0, <1>2, <1>3, <2>1, <2>2 DEF SameAdded
<1> QED BY <1>4, <1>5, <1>6, <1>7, <1>8, <1>9 DEF Pion

\* Steps other than pion's that touch a connection; the rest leave all alone.
LEMMA ConnFrame ==
  [Next]_vars =>
    \/ UNCHANGED conn
    \/ AddICE \/ Kicked
    \/ \E o \in Offers :
         \/ Begin(o) \/ Answered(o) \/ Replay(o) \/ Connected(o)
         \/ NotConnected(o) \/ Disconnected(o) \/ TakenOver(o) \/ CloseLost(o)
         \/ Pion(o)
BY DEF Next, vars, Answerer, Offer, ReceiveICE, AnswerFails, Publish, GiveUp,
   Unset, ReadMode, ResetMode, CheckRelay, ClearSubscribed, ChannelSelect,
   PeerOffline, Subscribe, RelayStep, RelayClosed, RelayCheck, RelayClear,
   RelayUnset, ReadLoopEnds, RelayUp

\* How the connection of p goes on, and by which step.
Shut(p) == /\ conn'[p].pc \in {"closed", "ended"}
           /\ conn'[p].term = conn[p].term /\ conn'[p].told = conn[p].told

LEMMA ConnStep ==
  ASSUME TypeOK, [Next]_vars, NEW p \in Offers
  PROVE  /\ conn' \in [Offers -> Conn]
         /\ \/ SameState(p)
            \/ /\ Shut(p)
               /\ \/ rtc = p /\ (Kicked \/ \E o \in Offers : Begin(o))
                  \/ NotConnected(p) \/ TakenOver(p) \/ CloseLost(p)
            \/ /\ Answered(p) /\ conn'[p].pc \in {"offered", "unheard"}
               /\ conn'[p].term = conn[p].term /\ conn'[p].told = conn[p].told
               /\ conn'[p].connectCh = conn[p].connectCh
            \/ /\ Connected(p) /\ conn'[p].pc = conn[p].pc
               /\ conn'[p].term = conn[p].term /\ conn'[p].told = conn[p].told
            \/ Pion(p)
<1>0. conn \in [Offers -> Conn] /\ rtc \in Offers \cup {None}
  BY DEF TypeOK
<1>1. CASE UNCHANGED conn
  BY <1>0, <1>1 DEF SameState
<1>2. ASSUME NEW o \in Offers, NEW d \in Conn,
             conn' = [conn EXCEPT ![o] = d]
      PROVE  /\ conn' \in [Offers -> Conn] /\ conn'[o] = d
             /\ p # o => SameState(p)
  BY <1>2, ConnReplaced DEF SameState
<1>3. CASE AddICE
  <2>1. /\ reader.do = "add" /\ reader \in {Idle} \cup [do : {"add"}, c : Trickle, to : Offers]
        /\ conn' = [conn EXCEPT ![reader.to].added = @ \cup {reader.c}]
    BY <1>3 DEF AddICE, TypeOK
  <2>2. reader.to \in Offers /\ reader.c \in Trickle
    BY <2>1 DEF Idle
  <2>3. PICK o \in Offers, d \in Conn : o = reader.to /\ d = conn[o]
    BY <1>0, <2>2
  <2> DEFINE e == [d EXCEPT !.added = d.added \cup {reader.c}]
  <2>4. /\ e \in Conn /\ e.pc = d.pc /\ e.term = d.term /\ e.told = d.told
        /\ e.connectCh = d.connectCh
    BY <2>2, ConnFields
  <2>5. conn' = [conn EXCEPT ![o] = e]
    BY <1>0, <2>1, <2>3
  <2> HIDE DEF e
  <2> QED BY <1>2, <2>3, <2>4, <2>5 DEF SameState
<1>4. CASE Kicked
  <2>1. conn' = Closed(conn, rtc)
    BY <1>4 DEF Kicked
  <2> QED BY <1>0, <1>4, <2>1, ClosedFacts DEF SameState, Shut
<1>5. ASSUME NEW o \in Offers, Begin(o)
      PROVE  /\ conn' \in [Offers -> Conn]
             /\ SameState(p) \/ (Shut(p) /\ rtc = p)
  <2>1. conn' = Closed(conn, rtc)
    BY <1>5 DEF Begin
  <2> QED BY <1>0, <2>1, ClosedFacts DEF SameState, Shut
<1>6. ASSUME NEW o \in Offers, TakenOver(o) \/ CloseLost(o)
      PROVE  /\ conn' \in [Offers -> Conn]
             /\ SameState(p) \/ (Shut(p) /\ o = p)
  <2>1. conn' = Closed(conn, o)
    BY <1>6 DEF TakenOver, CloseLost
  <2> QED BY <1>0, <2>1, ClosedFacts DEF SameState, Shut
<1>7. ASSUME NEW o \in Offers, NotConnected(o)
      PROVE  /\ conn' \in [Offers -> Conn]
             /\ SameState(p) \/ (Shut(p) /\ o = p)
  <2>0. PICK d \in Conn : d = conn[o]
    BY <1>0
  <2> DEFINE e == [d EXCEPT !.connectCh = "empty"]
             c == IF conn[o].connectCh = "error"
                  THEN [conn EXCEPT ![o].connectCh = "empty"] ELSE conn
  <2>1. conn' = Closed(c, o)
    BY <1>7 DEF NotConnected
  <2>a. "empty" \in Results
    BY DEF Results
  <2>2. e \in Conn /\ e.pc = d.pc /\ e.term = d.term /\ e.told = d.told
    BY <2>a, ConnFields
  <2>3. c = IF conn[o].connectCh = "error" THEN [conn EXCEPT ![o] = e] ELSE conn
    BY <1>0, <2>0
  <2> HIDE DEF e, c
  <2>4. /\ c \in [Offers -> Conn] /\ (p # o => c[p] = conn[p])
        /\ c[o].pc = conn[o].pc /\ c[o].term = conn[o].term
        /\ c[o].told = conn[o].told
    BY <1>0, <2>0, <2>2, <2>3
  <2> QED BY <2>1, <2>4, ClosedFacts DEF SameState, Shut
<1>8. ASSUME NEW o \in Offers, Answered(o)
      PROVE  /\ conn' \in [Offers -> Conn]
             /\ \/ SameState(p)
                \/ /\ o = p /\ conn'[p].pc \in {"offered", "unheard"}
                   /\ conn'[p].term = conn[p].term
                   /\ conn'[p].told = conn[p].told
                   /\ conn'[p].connectCh = conn[p].connectCh
  <2>1. PICK x \in {"offered", "unheard"} :
          conn' = [conn EXCEPT ![o].pc = x]
    BY <1>8 DEF Answered
  <2>2. PICK d \in Conn : d = conn[o]
    BY <1>0
  <2> DEFINE e == [d EXCEPT !.pc = x]
  <2>a. x \in ConnPcs
    BY DEF ConnPcs
  <2>3. /\ e \in Conn /\ e.pc = x /\ e.term = d.term /\ e.told = d.told
        /\ e.connectCh = d.connectCh
    BY <2>a, ConnFields
  <2>4. conn' = [conn EXCEPT ![o] = e]
    BY <1>0, <2>1, <2>2
  <2> HIDE DEF e
  <2> QED BY <1>2, <2>2, <2>3, <2>4 DEF SameState
<1>9. ASSUME NEW o \in Offers, Replay(o)
      PROVE  conn' \in [Offers -> Conn] /\ SameState(p)
  <2>1. conn' = [conn EXCEPT ![o].added = @ \cup attempt[o].held]
    BY <1>9 DEF Replay
  <2>2. attempt[o] \in Attempt
    BY DEF TypeOK
  <2>3. PICK d \in Conn, h \in SUBSET Trickle : d = conn[o] /\ h = attempt[o].held
    BY <1>0, <2>2 DEF Attempt
  <2> DEFINE e == [d EXCEPT !.added = d.added \cup h]
  <2>4. /\ e \in Conn /\ e.pc = d.pc /\ e.term = d.term /\ e.told = d.told
        /\ e.connectCh = d.connectCh
    BY ConnFields
  <2>5. conn' = [conn EXCEPT ![o] = e]
    BY <1>0, <2>1, <2>3
  <2> HIDE DEF e
  <2> QED BY <1>2, <2>3, <2>4, <2>5 DEF SameState
<1>10. ASSUME NEW o \in Offers, Connected(o)
       PROVE  /\ conn' \in [Offers -> Conn]
              /\ \/ SameState(p)
                 \/ /\ o = p /\ conn'[p].pc = conn[p].pc
                    /\ conn'[p].term = conn[p].term
                    /\ conn'[p].told = conn[p].told
  <2>1. conn' = [conn EXCEPT ![o].connectCh = "empty"]
    BY <1>10 DEF Connected
  <2>2. PICK d \in Conn : d = conn[o]
    BY <1>0
  <2> DEFINE e == [d EXCEPT !.connectCh = "empty"]
  <2>3. e \in Conn /\ e.pc = d.pc /\ e.term = d.term /\ e.told = d.told
    BY ConnFields DEF Results
  <2>4. conn' = [conn EXCEPT ![o] = e]
    BY <1>0, <2>1, <2>2
  <2> HIDE DEF e
  <2> QED BY <1>2, <2>2, <2>3, <2>4 DEF SameState
<1>11. ASSUME NEW o \in Offers, Disconnected(o)
       PROVE  conn' \in [Offers -> Conn] /\ SameState(p)
  <2>1. conn' = [conn EXCEPT ![o].disconnectCh = FALSE]
    BY <1>11 DEF Disconnected
  <2>2. PICK d \in Conn : d = conn[o]
    BY <1>0
  <2> DEFINE e == [d EXCEPT !.disconnectCh = FALSE]
  <2>3. /\ e \in Conn /\ e.pc = d.pc /\ e.term = d.term /\ e.told = d.told
        /\ e.connectCh = d.connectCh
    BY ConnFields
  <2>4. conn' = [conn EXCEPT ![o] = e]
    BY <1>0, <2>1, <2>2
  <2> HIDE DEF e
  <2> QED BY <1>2, <2>2, <2>3, <2>4 DEF SameState
<1>12. ASSUME NEW o \in Offers, Pion(o)
       PROVE  conn' \in [Offers -> Conn] /\ (p # o => SameState(p))
  BY <1>12, PionFacts DEF SameState
<1> QED BY <1>1, <1>3, <1>4, <1>5, <1>6, <1>7, <1>8, <1>9, <1>10, <1>11,
           <1>12, ConnFrame

\* A connection gets a candidate from the read loop, or those its attempt held.
LEMMA AddedStep ==
  ASSUME TypeOK, [Next]_vars, NEW p \in Offers
  PROVE  /\ conn[p].added \subseteq conn'[p].added
         /\ AddICE /\ reader.to = p => reader.c \in conn'[p].added
         /\ Replay(p) => attempt[p].held \subseteq conn'[p].added
<1>0. conn \in [Offers -> Conn] /\ rtc \in Offers \cup {None}
  BY DEF TypeOK
<1>1. ASSUME NEW q \in Offers \cup {None}, conn' = Closed(conn, q)
      PROVE  SameAdded(p)
  BY <1>0, <1>1, ClosedFacts DEF SameAdded
<1>2. ASSUME NEW o \in Offers, NEW d \in Conn,
             conn' = [conn EXCEPT ![o] = d], d.added = conn[o].added
      PROVE  SameAdded(p)
  BY <1>2, ConnReplaced DEF SameAdded
<1>3. ASSUME AddICE
      PROVE  /\ conn[p].added \subseteq conn'[p].added
             /\ reader.to = p => reader.c \in conn'[p].added
  <2>1. /\ reader.do = "add" /\ reader \in {Idle} \cup [do : {"add"}, c : Trickle, to : Offers]
        /\ conn' = [conn EXCEPT ![reader.to].added = @ \cup {reader.c}]
    BY <1>3 DEF AddICE, TypeOK
  <2>2. reader.to \in Offers /\ reader.c \in Trickle
    BY <2>1 DEF Idle
  <2>3. PICK o \in Offers, d \in Conn : o = reader.to /\ d = conn[o]
    BY <1>0, <2>2
  <2> DEFINE e == [d EXCEPT !.added = d.added \cup {reader.c}]
  <2>4. e \in Conn /\ e.added = d.added \cup {reader.c}
    BY <2>2, ConnFields
  <2>5. conn' = [conn EXCEPT ![o] = e]
    BY <1>0, <2>1, <2>3
  <2> HIDE DEF e
  <2> QED BY <1>0, <2>3, <2>4, <2>5
<1>4. ASSUME NEW o \in Offers, Replay(o)
      PROVE  /\ conn[p].added \subseteq conn'[p].added
             /\ o = p => attempt[p].held \subseteq conn'[p].added
  <2>1. conn' = [conn EXCEPT ![o].added = @ \cup attempt[o].held]
    BY <1>4 DEF Replay
  <2>2. attempt[o] \in Attempt
    BY DEF TypeOK
  <2>3. PICK d \in Conn, h \in SUBSET Trickle : d = conn[o] /\ h = attempt[o].held
    BY <1>0, <2>2 DEF Attempt
  <2> DEFINE e == [d EXCEPT !.added = d.added \cup h]
  <2>4. e \in Conn /\ e.added = d.added \cup h
    BY ConnFields
  <2>5. conn' = [conn EXCEPT ![o] = e]
    BY <1>0, <2>1, <2>3
  <2> HIDE DEF e
  <2> QED BY <1>0, <2>3, <2>4, <2>5
<1>5. ASSUME NEW o \in Offers, NotConnected(o) PROVE SameAdded(p)
  <2>0. PICK d \in Conn : d = conn[o]
    BY <1>0
  <2> DEFINE e == [d EXCEPT !.connectCh = "empty"]
             c == IF conn[o].connectCh = "error"
                  THEN [conn EXCEPT ![o].connectCh = "empty"] ELSE conn
  <2>1. conn' = Closed(c, o)
    BY <1>5 DEF NotConnected
  <2>a. "empty" \in Results
    BY DEF Results
  <2>2. e \in Conn /\ e.added = d.added
    BY <2>a, ConnFields
  <2>3. c = IF conn[o].connectCh = "error" THEN [conn EXCEPT ![o] = e] ELSE conn
    BY <1>0, <2>0
  <2> HIDE DEF e, c
  <2>4. c \in [Offers -> Conn] /\ c[p].added = conn[p].added
    BY <1>0, <2>0, <2>2, <2>3
  <2> QED BY <2>1, <2>4, ClosedFacts DEF SameAdded
<1>6. ASSUME NEW o \in Offers, Answered(o) \/ Connected(o) \/ Disconnected(o)
      PROVE  SameAdded(p)
  <2>1. PICK d \in Conn : d = conn[o]
    BY <1>0
  <2>2. ASSUME NEW x \in ConnPcs, conn' = [conn EXCEPT ![o].pc = x]
        PROVE  SameAdded(p)
    <3> DEFINE e == [d EXCEPT !.pc = x]
    <3>1. e \in Conn /\ e.added = d.added
      BY ConnFields
    <3>2. conn' = [conn EXCEPT ![o] = e]
      BY <1>0, <2>1, <2>2
    <3> HIDE DEF e
    <3> QED BY <1>2, <2>1, <3>1, <3>2
  <2>3. ASSUME NEW x \in Results, conn' = [conn EXCEPT ![o].connectCh = x]
        PROVE  SameAdded(p)
    <3> DEFINE e == [d EXCEPT !.connectCh = x]
    <3>1. e \in Conn /\ e.added = d.added
      BY ConnFields
    <3>2. conn' = [conn EXCEPT ![o] = e]
      BY <1>0, <2>1, <2>3
    <3> HIDE DEF e
    <3> QED BY <1>2, <2>1, <3>1, <3>2
  <2>4. ASSUME NEW x \in BOOLEAN, conn' = [conn EXCEPT ![o].disconnectCh = x]
        PROVE  SameAdded(p)
    <3> DEFINE e == [d EXCEPT !.disconnectCh = x]
    <3>1. e \in Conn /\ e.added = d.added
      BY ConnFields
    <3>2. conn' = [conn EXCEPT ![o] = e]
      BY <1>0, <2>1, <2>4
    <3> HIDE DEF e
    <3> QED BY <1>2, <2>1, <3>1, <3>2
  <2>5. "offered" \in ConnPcs /\ "unheard" \in ConnPcs /\ "empty" \in Results
    BY DEF ConnPcs, Results
  <2> QED BY <1>6, <2>2, <2>3, <2>4, <2>5 DEF Answered, Connected, Disconnected
<1>7. ASSUME NEW o \in Offers, Pion(o) PROVE SameAdded(p)
  BY <1>7, PionFacts DEF SameAdded
<1>8. /\ Kicked => conn' = Closed(conn, rtc)
      /\ \A o \in Offers : /\ Begin(o) => conn' = Closed(conn, rtc)
                           /\ TakenOver(o) \/ CloseLost(o) => conn' = Closed(conn, o)
  BY DEF Kicked, Begin, TakenOver, CloseLost
<1>9. conn[p].added \subseteq conn'[p].added
  BY <1>0, <1>1, <1>3, <1>4, <1>5, <1>6, <1>7, <1>8, ConnFrame DEF SameAdded
<1> QED BY <1>3, <1>4, <1>9

-----------------------------------------------------------------------------
(* Type correctness.                                                       *)

LEMMA TypeInit == Init => TypeOK
<1> SUFFICES ASSUME Init PROVE TypeOK
  OBVIOUS
<1>1. [pc |-> "none", held |-> {}] \in Attempt /\ NoConn \in Conn
  BY DEF Attempt, Pcs, NoConn, Conn, ConnPcs, Results
<1>2. offers \in 0..MaxOffers /\ events \in 0..MaxEvents
  BY P2PAssumption DEF Init
<1>3. attempt \in [Offers -> Attempt] /\ conn \in [Offers -> Conn]
  BY <1>1 DEF Init
<1>4. /\ rtc \in Offers \cup {None} /\ pendingICE \subseteq Trickle
      /\ pendingMode \in BOOLEAN /\ reader = Idle /\ trickled \subseteq Trickle
      /\ mode = "ts" /\ relay \in RelayStates /\ linked \in BOOLEAN
      /\ subscribed \in BOOLEAN /\ unbacked \in BOOLEAN /\ odd \subseteq Oddities
  BY DEF Init, RelayStates
<1> QED BY <1>2, <1>3, <1>4 DEF TypeOK

\* The steps that move an attempt.
LEMMA AttemptFrame ==
  [Next]_vars =>
    \/ UNCHANGED <<attempt, offers>>
    \/ Offer
    \/ \E o \in Offers : Answerer(o)
BY DEF Next, vars, ReceiveICE, AddICE, Pion, ICEConnected, ICEFailed,
   ICEDisconnected, TerminalOpens, TerminalCloses, Close, Callback,
   ChannelSelect, PeerOffline, Kicked, Subscribe, RelayStep, RelayClosed,
   RelayCheck, RelayClear, RelayUnset, ReadLoopEnds, RelayUp

LEMMA AttemptTyped ==
  ASSUME TypeOK, [Next]_vars
  PROVE  attempt' \in [Offers -> Attempt] /\ offers' \in 0..MaxOffers
<1>1. ASSUME NEW o \in Offers, Answerer(o)
      PROVE  attempt' \in [Offers -> Attempt] /\ offers' = offers
  BY <1>1, AnswererMoves DEF Answerer, Moves, Becomes
<1>2. CASE Offer
  <2>1. PICK n \in Offers : n = offers'
    BY <1>2, OfferBecomes
  <2>2. attempt' \in [Offers -> Attempt]
    BY <1>2, OfferBecomes DEF Becomes
  <2> QED BY <2>1, <2>2, P2PAssumption DEF Offers
<1> QED BY <1>1, <1>2, AttemptFrame DEF TypeOK

LEMMA TypeStep ==
  ASSUME TypeOK, [Next]_vars
  PROVE  TypeOK'
<1>1. attempt' \in [Offers -> Attempt] /\ offers' \in 0..MaxOffers
  BY AttemptTyped
<1>2. conn' \in [Offers -> Conn]
  <2>1. CASE Offers = {}
    <3>1. UNCHANGED conn
      BY <2>1, ConnFrame DEF AddICE, Kicked, TypeOK, Closed, None, Idle
    <3> QED BY <3>1 DEF TypeOK
  <2>2. CASE Offers # {}
    BY <2>2, ConnStep
  <2> QED BY <2>1, <2>2
<1>3. events' \in 0..MaxEvents
  <2>1. events' = events \/ Event
    BY DEF Next, vars, Answerer, Offer, AddICE, ReceiveICE, Step, Begin,
       Answered, AnswerFails, Publish, Replay, Connected, NotConnected,
       GiveUp, Disconnected, TakenOver, Unset, ReadMode, ResetMode, CloseLost,
       CheckRelay, ClearSubscribed, Pion, ICEConnected, ICEFailed,
       ICEDisconnected, TerminalOpens, TerminalCloses, Close, ChannelSelect,
       PeerOffline, Kicked, Subscribe, RelayClosed, RelayCheck, RelayClear,
       RelayUnset, ReadLoopEnds, RelayUp
  <2> QED BY <2>1, P2PAssumption DEF TypeOK, Event
<1>4. rtc' \in Offers \cup {None}
  <2>1. \/ rtc' = rtc \/ rtc' = None \/ \E o \in Offers : rtc' = o
    BY DEF Next, vars, iceVars, channelVars, relayVars, Answerer, Offer, AddICE,
       ReceiveICE, Begin, Answered, AnswerFails, Publish, Replay, Connected,
       NotConnected, GiveUp, Disconnected, TakenOver, Unset, ReadMode,
       ResetMode, CloseLost, CheckRelay, ClearSubscribed, Pion, ICEConnected,
       ICEFailed, ICEDisconnected, TerminalOpens, TerminalCloses, Close,
       Callback, ChannelSelect, PeerOffline, Kicked, Subscribe, RelayStep,
       RelayClosed, RelayCheck, RelayClear, RelayUnset, ReadLoopEnds, RelayUp
  <2> QED BY <2>1 DEF TypeOK
<1>5. ASSUME NEW c \in Trickle, ReceiveICE(c)
      PROVE  /\ pendingICE' \subseteq Trickle /\ trickled' \subseteq Trickle
             /\ reader' \in {Idle} \cup [do : {"add"}, c : Trickle, to : Offers]
             /\ odd' \subseteq Oddities /\ pendingMode' \in BOOLEAN
  <2>1. /\ trickled' = trickled \cup {c} /\ pendingMode' = pendingMode
        /\ odd' \in {odd, odd \cup {"overlap"}}
        /\ \/ pendingICE' = pendingICE \cup {c} /\ reader' = reader
           \/ /\ rtc # None /\ pendingICE' = pendingICE
              /\ reader' = [do |-> "add", c |-> c, to |-> rtc]
    BY <1>5 DEF ReceiveICE, Buffering
  <2>2. rtc # None => [do |-> "add", c |-> c, to |-> rtc]
                        \in [do : {"add"}, c : Trickle, to : Offers]
    BY DEF TypeOK
  <2> QED BY <2>1, <2>2 DEF TypeOK, Oddities
<1>6. ASSUME ~\E c \in Trickle : ReceiveICE(c)
      PROVE  /\ pendingICE' \in {pendingICE, {}} /\ trickled' = trickled
             /\ reader' \in {reader, Idle}
             /\ pendingMode' \in {pendingMode, TRUE, FALSE}
  BY <1>6 DEF Next, vars, iceVars, channelVars, relayVars, Answerer, Offer, AddICE,
     Begin, Answered, AnswerFails, Publish, Replay, Connected,
     NotConnected, GiveUp, Disconnected, TakenOver, Unset, ReadMode,
     ResetMode, CloseLost, CheckRelay, ClearSubscribed, Pion, ICEConnected,
     ICEFailed, ICEDisconnected, TerminalOpens, TerminalCloses, Close,
     Callback, ChannelSelect, PeerOffline, Kicked, Subscribe, RelayStep,
     RelayClosed, RelayCheck, RelayClear, RelayUnset, ReadLoopEnds, RelayUp
<1>7. odd' \subseteq odd \cup Oddities
  BY DEF Oddities, Next, vars, iceVars, channelVars, relayVars, Answerer, Offer, AddICE,
     ReceiveICE, Begin, Answered, AnswerFails, Publish, Replay, Connected,
     NotConnected, GiveUp, Disconnected, TakenOver, Unset, ReadMode,
     ResetMode, CloseLost, CheckRelay, ClearSubscribed, Pion, ICEConnected,
     ICEFailed, ICEDisconnected, TerminalOpens, TerminalCloses, Close,
     Callback, ChannelSelect, PeerOffline, Kicked, Subscribe, RelayStep,
     RelayClosed, RelayCheck, RelayClear, RelayUnset, ReadLoopEnds, RelayUp
<1>8. /\ mode' \in {mode, "ts", "p2p"}
      /\ relay' = relay \/ relay' \in RelayStates
      /\ linked' = linked \/ linked' \in BOOLEAN
  BY DEF RelayStates, Next, vars, iceVars, channelVars, relayVars, Answerer, Offer, AddICE,
     ReceiveICE, Begin, Answered, AnswerFails, Publish, Replay, Connected,
     NotConnected, GiveUp, Disconnected, TakenOver, Unset, ReadMode,
     ResetMode, CloseLost, CheckRelay, ClearSubscribed, Pion, ICEConnected,
     ICEFailed, ICEDisconnected, TerminalOpens, TerminalCloses, Close,
     Callback, ChannelSelect, PeerOffline, Kicked, Subscribe, RelayStep,
     RelayClosed, RelayCheck, RelayClear, RelayUnset, ReadLoopEnds, RelayUp, AfterLoss
<1>9. subscribed' \in BOOLEAN
  <2>1. subscribed' = subscribed \/ subscribed' = TRUE \/ subscribed' = FALSE
    BY DEF Next, vars, iceVars, channelVars, relayVars, Answerer, Offer, AddICE,
     ReceiveICE, Begin, Answered, AnswerFails, Publish, Replay, Connected,
     NotConnected, GiveUp, Disconnected, TakenOver, Unset, ReadMode,
     ResetMode, CloseLost, CheckRelay, ClearSubscribed, Pion, ICEConnected,
     ICEFailed, ICEDisconnected, TerminalOpens, TerminalCloses, Close,
     Callback, ChannelSelect, PeerOffline, Kicked, Subscribe, RelayStep,
     RelayClosed, RelayCheck, RelayClear, RelayUnset, ReadLoopEnds, RelayUp
  <2> QED BY <2>1 DEF TypeOK
<1>10. unbacked' \in BOOLEAN
  BY ZenonT(60) DEF TypeOK, Next, vars, iceVars, channelVars, relayVars, Answerer, Offer, AddICE,
     ReceiveICE, Begin, Answered, AnswerFails, Publish, Replay, Connected,
     NotConnected, GiveUp, Disconnected, TakenOver, Unset, ReadMode,
     ResetMode, CloseLost, CheckRelay, ClearSubscribed, Pion, ICEConnected,
     ICEFailed, ICEDisconnected, TerminalOpens, TerminalCloses, Close,
     Callback, ChannelSelect, PeerOffline, Kicked, Subscribe, RelayStep,
     RelayClosed, RelayCheck, RelayClear, RelayUnset, ReadLoopEnds, RelayUp
<1>11. /\ pendingICE' \subseteq Trickle /\ pendingMode' \in BOOLEAN
       /\ reader' \in {Idle} \cup [do : {"add"}, c : Trickle, to : Offers]
       /\ trickled' \subseteq Trickle /\ odd' \subseteq Oddities
       /\ mode' \in {"ts", "p2p"} /\ relay' \in RelayStates
       /\ linked' \in BOOLEAN
  BY <1>5, <1>6, <1>7, <1>8 DEF TypeOK
<1> QED BY <1>1, <1>2, <1>3, <1>4, <1>9, <1>10, <1>11 DEF TypeOK


(* The variables keep their types: P2P.tla as a whole.                     *)
THEOREM P2PTypeCorrect == Spec => []TypeOK
<1>1. Init => TypeOK
  BY TypeInit
<1>2. TypeOK /\ [Next]_vars => TypeOK'
  BY TypeStep
<1> QED BY <1>1, <1>2, PTL DEF Spec

-----------------------------------------------------------------------------
(* Which attempts are under way, and which of them d.rtc may be of.        *)
Known ==
  /\ \A o \in Offers : At(o, "none") <=> o > offers
  /\ rtc # None =>
       attempt[rtc].pc \in {"replay", "connecting", "connected", "lost", "giveup"}

\* An attempt goes on by its own step; the next one begins with its offer.
LEMMA AttemptStep ==
  ASSUME TypeOK, Known, [Next]_vars, NEW p \in Offers
  PROVE  \/ attempt'[p] = attempt[p]
         \/ Answerer(p)
         \/ /\ Offer /\ p = offers' /\ attempt[p].pc = "none"
            /\ attempt'[p].pc = "begin" /\ attempt'[p].held = pendingICE
<1>1. ASSUME NEW o \in Offers, Answerer(o), o # p
      PROVE  attempt'[p] = attempt[p]
  BY <1>1, AnswererMoves DEF Answerer, Moves, Becomes
<1>2. CASE Offer
  <2>1. PICK n \in Offers : n = offers'
    BY <1>2, OfferBecomes
  <2>2. Becomes(n, attempt[n].pc, "begin", pendingICE) /\ n = offers + 1
    BY <1>2, <2>1, OfferBecomes
  <2>3. n > offers
    BY <2>2 DEF TypeOK
  <2> QED BY <1>2, <2>1, <2>2, <2>3 DEF Becomes, Known, At
<1> QED BY <1>1, <1>2, AttemptFrame

\* Another attempt's step leaves this one where it is.
LEMMA OthersStay ==
  ASSUME TypeOK, NEW o \in Offers, NEW p \in Offers, o # p, Answerer(o)
  PROVE  attempt'[p] = attempt[p]
BY AnswererMoves DEF Answerer, Moves, Becomes

\* What becomes of d.rtc.
LEMMA RtcFrame ==
  [Next]_vars =>
    \/ rtc' = rtc
    \/ rtc' = None /\ Kicked
    \/ rtc' = None /\ \E o \in Offers : Begin(o) \/ GiveUp(o) \/ Unset(o)
    \/ \E o \in Offers : rtc' = o /\ Publish(o)
BY DEF Next, vars, iceVars, channelVars, relayVars, Answerer, Offer, AddICE, ReceiveICE,
   Begin, Answered, AnswerFails, Publish, Replay, Connected, NotConnected,
   GiveUp, Disconnected, TakenOver, Unset, ReadMode, ResetMode, CloseLost,
   CheckRelay, ClearSubscribed, Pion, ICEConnected, ICEFailed,
   ICEDisconnected, TerminalOpens, TerminalCloses, Close, Callback,
   ChannelSelect, PeerOffline, Kicked, Subscribe, RelayStep, RelayClosed,
   RelayCheck, RelayClear, RelayUnset, ReadLoopEnds, RelayUp

LEMMA KnownInit == Init => Known
<1> SUFFICES ASSUME Init PROVE Known
  OBVIOUS
<1>1. \A o \in Offers : attempt[o].pc = "none" /\ o > offers
  BY P2PAssumption DEF Init, Offers
<1>2. rtc = None
  BY DEF Init
<1> QED BY <1>1, <1>2 DEF Known, At

LEMMA KnownStep ==
  ASSUME TypeOK, Known, [Next]_vars
  PROVE  Known'
<1>1. ASSUME NEW p \in Offers
      PROVE  attempt'[p].pc = "none" <=> p > offers'
  <2>1. CASE Offer
    <3>1. offers' = offers + 1 /\ offers \in Nat
      BY <2>1, OfferBecomes, P2PAssumption DEF TypeOK
    <3>2. p \in Nat
      BY P2PAssumption DEF Offers
    <3>3. CASE p = offers'
      <4>1. attempt'[p].pc = "begin"
        BY <2>1, <3>3, OfferBecomes DEF Becomes
      <4> QED BY <4>1, <3>1, <3>3
    <3>4. CASE p # offers'
      <4>1. attempt'[p] = attempt[p]
        BY <2>1, <3>4, OfferBecomes DEF Becomes
      <4> QED BY <4>1, <3>1, <3>2, <3>4 DEF Known, At
    <3> QED BY <3>3, <3>4
  <2>2. ASSUME NEW o \in Offers, Answerer(o)
        PROVE  attempt'[p].pc = "none" <=> p > offers'
    <3>1. /\ offers' = offers
          /\ attempt[o].pc # "none" /\ attempt'[o].pc # "none"
      BY <2>2, AnswererMoves DEF Answerer, Moves, Becomes, AfterMode, AfterCheck
    <3> QED BY <2>2, <3>1, OthersStay DEF Known, At
  <2> QED BY <2>1, <2>2, AttemptFrame DEF Known, At
<1>2. ASSUME rtc' # None
      PROVE  attempt'[rtc'].pc
               \in {"replay", "connecting", "connected", "lost", "giveup"}
  <2>1. CASE rtc' = rtc
    <3>1. PICK p \in Offers : p = rtc
      BY <1>2, <2>1 DEF TypeOK
    <3>2. attempt[p].pc \in {"replay", "connecting", "connected", "lost", "giveup"}
      BY <1>2, <2>1, <3>1 DEF Known
    <3>3. CASE Answerer(p)
      <4>1. ~TakenOver(p) /\ ~Unset(p) /\ ~GiveUp(p)
        BY <1>2, <2>1, <3>1 DEF TakenOver, Unset, GiveUp
      <4> QED BY <3>1, <3>2, <3>3, <4>1, <2>1, AnswererMoves
              DEF Answerer, Moves, Becomes
    <3> QED BY <2>1, <3>1, <3>2, <3>3, AttemptStep
  <2>2. ASSUME NEW o \in Offers, rtc' = o, Publish(o)
        PROVE  attempt'[rtc'].pc = "replay"
    <3>1. attempt'[o].pc = "replay"
      BY <2>2, AnswererMoves DEF Becomes
    <3> QED BY <2>2, <3>1
  <2> QED BY <1>2, <2>1, <2>2, RtcFrame
<1> QED BY <1>1, <1>2 DEF Known, At

LEMMA TypesAndAttempts == Spec => [](TypeOK /\ Known)
<1>1. Init => TypeOK /\ Known
  BY TypeInit, KnownInit
<1>2. TypeOK /\ Known /\ [Next]_vars => (TypeOK /\ Known)'
  BY TypeStep, KnownStep
<1> QED BY <1>1, <1>2, PTL DEF Spec

-----------------------------------------------------------------------------
(* The mode.                                                               *)

\* Whoever is about to reset the mode stays about to until it is reset.
LEMMA ResetterStays ==
  ASSUME TypeOK, Known, [Next]_vars, NEW q \in Offers,
         At(q, "mode") \/ At(q, "reset"), mode = "p2p"
  PROVE  \/ attempt'[q].pc \in {"mode", "reset"}
         \/ mode' = "ts"
<1>1. CASE Answerer(q)
  <2>1. ReadMode(q) \/ ResetMode(q)
    BY <1>1, AnswererMoves DEF Answerer, Moves, Becomes, At
  <2>2. ReadMode(q) => attempt'[q].pc = "reset"
    BY AnswererMoves DEF Moves, AfterMode
  <2> QED BY <2>1, <2>2 DEF ResetMode
<1> QED BY <1>1, AttemptStep DEF At

LEMMA ModeStep ==
  ASSUME TypeOK, Known, ModeFollowsConnection, [Next]_vars
  PROVE  ModeFollowsConnection'
<1> SUFFICES ASSUME mode' = "p2p", rtc' = None, ~unbacked'
             PROVE  \E o \in Offers : attempt'[o].pc \in {"mode", "reset"}
  BY DEF ModeFollowsConnection, At
<1>1. CASE \E m \in {"ts", "p2p"} : ChannelSelect(m)
  BY <1>1 DEF ChannelSelect, Open
<1>2. CASE \E o \in Offers : Unset(o)
  BY <1>2, AnswererMoves DEF Moves
<1>3. CASE ~\E m \in {"ts", "p2p"} : ChannelSelect(m)
  <2>1. mode = "p2p"
    BY <1>3 DEF Next, vars, iceVars, channelVars, relayVars, Answerer, Offer, AddICE,
       ReceiveICE, Begin, Answered, AnswerFails, Publish, Replay, Connected,
       NotConnected, GiveUp, Disconnected, TakenOver, Unset, ReadMode,
       ResetMode, CloseLost, CheckRelay, ClearSubscribed, Pion, ICEConnected,
       ICEFailed, ICEDisconnected, TerminalOpens, TerminalCloses, Close,
       Callback, PeerOffline, Kicked, Subscribe, RelayStep, RelayClosed,
       RelayCheck, RelayClear, RelayUnset, ReadLoopEnds, RelayUp
  <2>2. ~unbacked
    <3>1. \/ UNCHANGED unbacked
          \/ \E o \in Offers : Begin(o) \/ Publish(o) \/ GiveUp(o) \/ ResetMode(o)
          \/ Kicked
      BY <1>3 DEF Next, vars, iceVars, channelVars, relayVars, Answerer, Offer, AddICE,
         ReceiveICE, Answered, AnswerFails, Replay, Connected, NotConnected,
         Disconnected, TakenOver, Unset, ReadMode, CloseLost, CheckRelay,
         ClearSubscribed, Pion, ICEConnected, ICEFailed, ICEDisconnected,
         TerminalOpens, TerminalCloses, Close, Callback, PeerOffline,
         Subscribe, RelayStep, RelayClosed, RelayCheck, RelayClear, RelayUnset, ReadLoopEnds, RelayUp
    <3>2. ~Kicked /\ \A o \in Offers : ~ResetMode(o)
      BY DEF Kicked, ResetMode
    <3>3. ASSUME NEW o \in Offers, Begin(o) \/ Publish(o) \/ GiveUp(o)
          PROVE  unbacked => unbacked'
      BY <3>3 DEF Begin, Publish, GiveUp
    <3> QED BY <3>1, <3>2, <3>3
  <2>3. rtc = None \/ \E o \in Offers : Unset(o)
    <3>1. ASSUME NEW o \in Offers, Begin(o) \/ GiveUp(o)
          PROVE  rtc = None
      BY <3>1, <2>1 DEF Begin, GiveUp
    <3>2. ~Kicked
      BY DEF Kicked
    <3>3. ASSUME NEW o \in Offers, rtc' = o PROVE FALSE
      BY <3>3, P2PAssumption DEF Offers, None
    <3> QED BY <3>1, <3>2, <3>3, RtcFrame
  <2> QED BY <1>2, <2>1, <2>2, <2>3, ResetterStays DEF ModeFollowsConnection
<1> QED BY <1>1, <1>3

(* p2p does not stay selected when its connection is lost: from the step   *)
(* of startP2PAsAnswerer that unsets d.rtc to the one that resets the mode *)
(* the goroutine is at one of the two, whatever handler selects the        *)
(* channel, replaces the connection or kicks the app in between.           *)
THEOREM ModeIsBacked == Spec => []ModeFollowsConnection
<1>1. Init => ModeFollowsConnection
  BY DEF Init, ModeFollowsConnection
<1>2. /\ TypeOK /\ Known /\ ModeFollowsConnection /\ [Next]_vars
      => ModeFollowsConnection'
  BY ModeStep
<1> QED BY <1>1, <1>2, TypesAndAttempts, PTL DEF Spec

-----------------------------------------------------------------------------
(* The connections.  What an attempt that still hopes for its connection   *)
(* may find: a channel that was ever opened (told) and is not closed by    *)
(* the daemon has left its result in connectCh.                            *)
Young(o) == attempt[o].pc \in {"none", "begin", "answer"}
Hoping(o) == attempt[o].pc \in {"publish", "replay", "connecting"}

ConnOk(o) ==
  /\ conn[o].term => conn[o].told
  /\ Young(o) => /\ conn[o].pc = "none" /\ ~conn[o].told
                 /\ conn[o].connectCh = "empty"
  /\ ~Young(o) /\ conn[o].pc = "none" => attempt[o].pc = "done"
  /\ Hoping(o) =>
       /\ conn[o].pc \in {"offered", "unheard"} =>
            ~conn[o].told /\ conn[o].connectCh = "empty"
       /\ conn[o].pc = "up" => conn[o].connectCh = "ok"
       /\ conn[o].pc = "failed" /\ conn[o].told => conn[o].connectCh = "ok"
  /\ At(o, "publish") \/ (rtc = o /\ Hoping(o)) =>
       conn[o].pc \notin {"none", "closed", "ended"}
  /\ At(o, "giveup") => conn[o].pc \in {"closed", "ended"}
  /\ At(o, "giveup") /\ rtc = o /\ "replaced" \notin odd => ~conn[o].term
ConnInv == \A o \in Offers : ConnOk(o)

\* What has happened stays recorded.
LEMMA OddGrows == [Next]_vars => odd \subseteq odd'
BY DEF Next, vars, iceVars, channelVars, relayVars, Answerer, Offer, AddICE, ReceiveICE,
   Begin, Answered, AnswerFails, Publish, Replay, Connected, NotConnected,
   GiveUp, Disconnected, TakenOver, Unset, ReadMode, ResetMode, CloseLost,
   CheckRelay, ClearSubscribed, Pion, ICEConnected, ICEFailed,
   ICEDisconnected, TerminalOpens, TerminalCloses, Close, Callback,
   ChannelSelect, PeerOffline, Kicked, Subscribe, RelayStep, RelayClosed,
   RelayCheck, RelayClear, RelayUnset, ReadLoopEnds, RelayUp

\* What an attempt's own step does to its connection.
LEMMA OwnConn ==
  ASSUME TypeOK, Known, NEW p \in Offers
  PROVE  /\ \/ Begin(p) \/ AnswerFails(p) \/ Publish(p) \/ Replay(p)
            \/ GiveUp(p) \/ Disconnected(p) \/ Unset(p) \/ ReadMode(p)
            \/ ResetMode(p) \/ CheckRelay(p) \/ ClearSubscribed(p)
            => SameState(p)
         /\ NotConnected(p) \/ TakenOver(p) \/ CloseLost(p) => Shut(p)
         /\ Answered(p) =>
              /\ conn'[p].pc \in {"offered", "unheard"}
              /\ conn'[p].term = conn[p].term /\ conn'[p].told = conn[p].told
              /\ conn'[p].connectCh = conn[p].connectCh
         /\ Connected(p) =>
              /\ conn'[p].pc = conn[p].pc
              /\ conn'[p].term = conn[p].term /\ conn'[p].told = conn[p].told
<1>0. conn \in [Offers -> Conn] /\ rtc \in Offers \cup {None}
  BY DEF TypeOK
<1>1. PICK d \in Conn : d = conn[p]
  BY <1>0
<1>2. ASSUME \/ AnswerFails(p) \/ Publish(p) \/ GiveUp(p) \/ Unset(p)
             \/ ReadMode(p) \/ ResetMode(p) \/ CheckRelay(p)
             \/ ClearSubscribed(p)
      PROVE  SameState(p)
  BY <1>2 DEF AnswerFails, Publish, GiveUp, Unset, ReadMode, ResetMode,
     CheckRelay, ClearSubscribed, SameState
<1>3. ASSUME Begin(p) PROVE SameState(p)
  <2>1. conn' = Closed(conn, rtc) /\ rtc # p
    BY <1>3 DEF Begin, Step, At, Known, Offers, None
  <2> QED BY <1>0, <2>1, ClosedFacts DEF SameState
<1>4. ASSUME Replay(p) PROVE SameState(p)
  BY <1>0, <1>4 DEF Replay, SameState, Conn
<1>5. ASSUME Disconnected(p) PROVE SameState(p)
  BY <1>0, <1>5 DEF Disconnected, SameState, Conn
<1>6. ASSUME TakenOver(p) \/ CloseLost(p) PROVE Shut(p)
  BY <1>0, <1>6, ClosedFacts DEF TakenOver, CloseLost, Shut
<1>7. ASSUME NotConnected(p) PROVE Shut(p)
  <2> DEFINE e == [d EXCEPT !.connectCh = "empty"]
             c == IF conn[p].connectCh = "error"
                  THEN [conn EXCEPT ![p].connectCh = "empty"] ELSE conn
  <2>1. conn' = Closed(c, p)
    BY <1>7 DEF NotConnected
  <2>2. e \in Conn /\ e.term = d.term /\ e.told = d.told
    BY ConnFields DEF Results
  <2>3. c = IF conn[p].connectCh = "error" THEN [conn EXCEPT ![p] = e] ELSE conn
    BY <1>0, <1>1
  <2> HIDE DEF e, c
  <2>4. c \in [Offers -> Conn] /\ c[p].term = d.term /\ c[p].told = d.told
    BY <1>0, <1>1, <2>2, <2>3
  <2> QED BY <1>1, <2>1, <2>4, ClosedFacts DEF Shut
<1>8. ASSUME Answered(p)
      PROVE  /\ conn'[p].pc \in {"offered", "unheard"}
             /\ conn'[p].term = conn[p].term /\ conn'[p].told = conn[p].told
             /\ conn'[p].connectCh = conn[p].connectCh
  BY <1>0, <1>8 DEF Answered, Conn
<1>9. ASSUME Connected(p)
      PROVE  /\ conn'[p].pc = conn[p].pc
             /\ conn'[p].term = conn[p].term /\ conn'[p].told = conn[p].told
  BY <1>0, <1>9 DEF Connected, Conn
<1> QED BY <1>2, <1>3, <1>4, <1>5, <1>6, <1>7, <1>8, <1>9

LEMMA ConnInvInit == Init => ConnInv
<1> SUFFICES ASSUME Init, NEW o \in Offers PROVE ConnOk(o)
  BY DEF ConnInv
<1>1. attempt[o].pc = "none" /\ conn[o] = NoConn
  BY DEF Init
<1> QED BY <1>1 DEF ConnOk, NoConn, Young, Hoping, At

\* An attempt goes on by its own step.
LEMMA ConnOwnStep ==
  ASSUME TypeOK, Known, ConnInv, [Next]_vars, NEW p \in Offers, Answerer(p)
  PROVE  ConnOk(p)'
<1>1. ConnOk(p) /\ odd \subseteq odd'
  BY OddGrows DEF ConnInv
<1>2. rtc' = p => rtc = p \/ Publish(p)
  BY P2PAssumption, RtcFrame DEF Offers, None
<1>3. CASE Begin(p)
  <2>1. SameState(p) /\ attempt[p].pc = "begin" /\ attempt'[p].pc = "answer"
    BY <1>3, OwnConn, AnswererMoves DEF Moves
  <2> QED BY <1>1, <2>1 DEF ConnOk, SameState, Young, Hoping, At
<1>4. CASE Answered(p)
  <2>1. attempt[p].pc = "answer" /\ attempt'[p].pc = "publish"
    BY <1>4, AnswererMoves DEF Moves
  <2>2. /\ conn'[p].pc \in {"offered", "unheard"}
        /\ conn'[p].term = conn[p].term /\ conn'[p].told = conn[p].told
        /\ conn'[p].connectCh = conn[p].connectCh
    BY <1>4, OwnConn
  <2> QED BY <1>1, <2>1, <2>2 DEF ConnOk, Young, Hoping, At
<1>5. CASE Publish(p)
  <2>1. SameState(p) /\ attempt[p].pc = "publish" /\ attempt'[p].pc = "replay"
    BY <1>5, OwnConn, AnswererMoves DEF Becomes
  <2> QED BY <1>1, <2>1 DEF ConnOk, SameState, Young, Hoping, At
<1>6. CASE Replay(p)
  <2>1. SameState(p) /\ attempt[p].pc = "replay" /\ attempt'[p].pc = "connecting"
    BY <1>6, OwnConn, AnswererMoves DEF Becomes
  <2>2. rtc' = rtc
    BY <1>6 DEF Replay
  <2> QED BY <1>1, <2>1, <2>2 DEF ConnOk, SameState, Young, Hoping, At
<1>7. CASE Connected(p)
  <2>1. attempt[p].pc = "connecting" /\ attempt'[p].pc = "connected"
    BY <1>7, AnswererMoves DEF Moves
  <2>2. /\ conn'[p].pc = conn[p].pc
        /\ conn'[p].term = conn[p].term /\ conn'[p].told = conn[p].told
    BY <1>7, OwnConn
  <2> QED BY <1>1, <2>1, <2>2 DEF ConnOk, Young, Hoping, At
<1>8. CASE NotConnected(p)
  <2>1. attempt[p].pc = "connecting" /\ attempt'[p].pc = "giveup"
    BY <1>8, AnswererMoves DEF Moves
  <2>2. Shut(p) /\ rtc' = rtc
    BY <1>8, OwnConn DEF NotConnected
  <2>3. ASSUME rtc = p, "replaced" \notin odd' PROVE ~conn[p].term
    <3>1. conn[p].connectCh # "ok"
      BY <1>8, <2>3 DEF NotConnected
    <3>2. conn[p].pc \in ConnPcs
      BY ConnFields DEF TypeOK
    <3> QED BY <1>1, <2>1, <2>3, <3>1, <3>2 DEF ConnOk, Hoping, ConnPcs
  <2> QED BY <1>1, <2>1, <2>2, <2>3 DEF ConnOk, Shut, Young, Hoping, At
<1>9. CASE TakenOver(p) \/ CloseLost(p)
  <2>1. /\ attempt[p].pc \in {"lost", "close"} /\ attempt'[p].pc \in {"done", "check"}
        /\ Shut(p)
    BY <1>9, OwnConn, AnswererMoves DEF Moves
  <2> QED BY <1>1, <2>1 DEF ConnOk, Shut, Young, Hoping, At
<1>10. CASE \/ AnswerFails(p) \/ GiveUp(p) \/ Disconnected(p) \/ Unset(p)
            \/ ReadMode(p) \/ ResetMode(p) \/ CheckRelay(p) \/ ClearSubscribed(p)
  <2>1. SameState(p)
    BY <1>10, OwnConn
  <2>2. /\ attempt'[p].pc \in {"done", "lost", "mode", "reset", "close", "clear"}
        /\ attempt'[p].pc = "done" \/ ~Young(p)
        /\ attempt[p].pc # "done"
    BY <1>10, AnswererMoves DEF Moves, AfterMode, AfterCheck, Young
  <2> QED BY <1>1, <2>1, <2>2 DEF ConnOk, SameState, Young, Hoping, At
<1> QED BY <1>3, <1>4, <1>5, <1>6, <1>7, <1>8, <1>9, <1>10 DEF Answerer

LEMMA ConnInvStep ==
  ASSUME TypeOK, Known, ConnInv, [Next]_vars
  PROVE  ConnInv'
<1> SUFFICES ASSUME NEW p \in Offers PROVE ConnOk(p)'
  BY DEF ConnInv
<1>0. ConnOk(p) /\ odd \subseteq odd'
  BY OddGrows DEF ConnInv
<1>1. CASE Offer /\ p = offers' /\ attempt[p].pc = "none" /\ attempt'[p].pc = "begin"
  <2>1. conn' = conn
    BY <1>1 DEF Offer
  <2> QED BY <1>0, <1>1, <2>1 DEF ConnOk, Young, Hoping, At
<1>2. CASE attempt'[p] = attempt[p] /\ ~Answerer(p)
  <2>1. rtc' = p => rtc = p
    BY <1>2, P2PAssumption, RtcFrame DEF Answerer, Offers, None
  <2>2. CASE SameState(p)
    BY <1>0, <1>2, <2>1, <2>2 DEF ConnOk, SameState, Young, Hoping, At
  <2>3. CASE Shut(p) /\ rtc = p /\ (Kicked \/ \E o \in Offers : Begin(o))
    <3>1. rtc' = None /\ p # None
      BY <2>3, P2PAssumption DEF Kicked, Begin, Offers, None
    <3>2. ~Young(p) /\ ~At(p, "publish")
      BY <2>3, <3>1 DEF Known, Young, At
    <3> QED BY <1>0, <1>2, <2>3, <3>1, <3>2 DEF ConnOk, Shut, Young, Hoping, At
  <2>4. CASE Pion(p)
    <3>1. rtc' = rtc /\ odd' = odd
      BY <2>4, PionFacts DEF iceVars
    <3>2. \A r \in {"ok", "error"} :
            /\ conn[p].connectCh = "empty" => Told(conn[p], r) = r
            /\ conn[p].connectCh # "empty" => Told(conn[p], r) = conn[p].connectCh
      BY DEF Told
    <3> QED BY <1>0, <1>2, <2>4, <3>1, <3>2, PionFacts
            DEF ConnOk, SameState, Young, Hoping, At
  <2> QED BY <1>2, <2>2, <2>3, <2>4, ConnStep DEF Answerer
<1> QED BY <1>1, <1>2, AttemptStep, ConnOwnStep

LEMMA Connections == Spec => []ConnInv
<1>1. Init => ConnInv
  BY ConnInvInit
<1>2. TypeOK /\ Known /\ ConnInv /\ [Next]_vars => ConnInv'
  BY ConnInvStep
<1> QED BY <1>1, <1>2, TypesAndAttempts, PTL DEF Spec

-----------------------------------------------------------------------------
(* The subscriptions.                                                      *)

\* A goroutine that has noticed its connection's loss and has yet to look at
\* the relay, or a connection whose goroutine has yet to notice.
Noticing == \E o \in Offers :
              attempt[o].pc \in {"mode", "reset", "close", "check", "clear"}
HeldOpen == /\ rtc # None /\ conn[rtc].told
            /\ attempt[rtc].pc \in {"replay", "connecting", "connected", "lost"}
\* tsRelayLoop has dealt with the subscriptions.
Looked == relay \in {"unset", "down"}
Plain == odd \cap {"replaced", "late", "crossed"} = {}
ClearInv == subscribed /\ Plain /\ Looked => Noticing \/ HeldOpen

\* An open connection in use is held by its goroutine.
LEMMA OpenIsHeld ==
  ASSUME TypeOK, Known, ConnInv, Open(rtc), "replaced" \notin odd
  PROVE  HeldOpen
<1>1. rtc # None /\ conn[rtc].term
  BY DEF Open
<1>2. PICK p \in Offers : p = rtc
  BY <1>1 DEF TypeOK
<1>3. ConnOk(p)
  BY DEF ConnInv
<1> QED BY <1>1, <1>2, <1>3 DEF ConnOk, Known, HeldOpen, At

LEMMA ToldGrows ==
  ASSUME TypeOK, [Next]_vars, NEW p \in Offers, conn[p].told
  PROVE  conn'[p].told
BY ConnStep, PionFacts DEF SameState, Shut

\* The relay's end and the subscriptions: who clears, who subscribes.
LEMMA RelayFrame ==
  ASSUME [Next]_vars, subscribed', Looked', Plain'
  PROVE  /\ Looked \/ (Open(rtc) /\ UNCHANGED <<rtc, conn, attempt>>)
         /\ subscribed \/ (Open(rtc) /\ UNCHANGED <<rtc, conn, attempt>>)
         /\ ~Kicked /\ \A o \in Offers : ~ClearSubscribed(o)
<1>1. relay' = relay \/ RelayClosed \/ RelayCheck \/ RelayClear \/ RelayUnset
      \/ RelayUp
  BY DEF Next, vars, iceVars, channelVars, relayVars, Answerer, Offer, AddICE,
   ReceiveICE, Begin, Answered, AnswerFails, Publish, Replay, Connected,
   NotConnected, GiveUp, Disconnected, TakenOver, Unset, ReadMode, ResetMode,
   CloseLost, CheckRelay, ClearSubscribed, Pion, ICEConnected, ICEFailed,
   ICEDisconnected, TerminalOpens, TerminalCloses, Close, Callback,
   ChannelSelect, PeerOffline, Kicked, Subscribe, ReadLoopEnds
<1>2. subscribed' = subscribed \/ Subscribe
  BY DEF Next, vars, iceVars, channelVars, relayVars, Answerer, Offer, AddICE,
   ReceiveICE, Begin, Answered, AnswerFails, Publish, Replay, Connected,
   NotConnected, GiveUp, Disconnected, TakenOver, Unset, ReadMode, ResetMode,
   CloseLost, CheckRelay, ClearSubscribed, Pion, ICEConnected, ICEFailed,
   ICEDisconnected, TerminalOpens, TerminalCloses, Close, Callback,
   ChannelSelect, PeerOffline, Kicked, RelayClosed, RelayCheck, RelayClear,
   RelayUnset, ReadLoopEnds, RelayUp
<1>3. ~Kicked /\ ~RelayClear /\ ~RelayClosed /\ ~RelayUp
      /\ \A o \in Offers : ~ClearSubscribed(o)
  BY DEF Kicked, RelayClear, RelayClosed, RelayUp, RelayStep, ClearSubscribed,
     Looked
<1>4. Looked \/ (Open(rtc) /\ UNCHANGED <<rtc, conn, attempt>>)
  <2>1. RelayCheck => Open(rtc) /\ UNCHANGED <<rtc, conn, attempt>>
    BY DEF RelayCheck, RelayStep, AfterLoss, Looked
  <2>2. RelayUnset => Looked
    BY DEF RelayUnset, RelayStep, Looked
  <2> QED BY <1>1, <1>3, <2>1, <2>2 DEF Looked
<1>5. Subscribe => Open(rtc) /\ UNCHANGED <<rtc, conn, attempt>>
  BY DEF Subscribe, relayVars, Looked, Plain
<1> QED BY <1>2, <1>3, <1>4, <1>5

LEMMA NoticingStays ==
  ASSUME TypeOK, Known, [Next]_vars, Noticing, Looked, Plain',
         \A o \in Offers : ~ClearSubscribed(o)
  PROVE  Noticing'
<1>1. PICK q \in Offers :
        attempt[q].pc \in {"mode", "reset", "close", "check", "clear"}
  BY DEF Noticing
<1>2. CASE Answerer(q)
  <2>1. ReadMode(q) \/ ResetMode(q) \/ CloseLost(q) \/ CheckRelay(q)
    BY <1>1, <1>2, AnswererMoves DEF Answerer, Moves, Becomes
  <2>2. AfterMode \in {"reset", "close"} /\ (CheckRelay(q) => AfterCheck = "clear")
    BY DEF AfterMode, AfterCheck, CheckRelay, Looked, Plain
  <2>3. attempt'[q].pc \in {"reset", "close", "check", "clear"}
    BY <2>1, <2>2, AnswererMoves DEF Moves
  <2> QED BY <2>3 DEF Noticing
<1> QED BY <1>1, <1>2, AttemptStep DEF Noticing

LEMMA HeldOpenStays ==
  ASSUME TypeOK, Known, ConnInv, [Next]_vars, HeldOpen, ~Kicked,
         "replaced" \notin odd'
  PROVE  Noticing' \/ HeldOpen'
<1>1. PICK p \in Offers : p = rtc
  BY DEF HeldOpen, TypeOK
<1>2. /\ conn[p].told /\ conn'[p].told
      /\ attempt[p].pc \in {"replay", "connecting", "connected", "lost"}
  BY <1>1, ToldGrows DEF HeldOpen
<1>3. ~NotConnected(p)
  <2>1. ConnOk(p) /\ conn[p].pc \in ConnPcs
    BY ConnFields DEF ConnInv, TypeOK
  <2>2. ASSUME NotConnected(p) PROVE FALSE
    <3>1. attempt[p].pc = "connecting" /\ conn[p].connectCh # "ok"
      BY <2>2, AnswererMoves DEF Moves, NotConnected
    <3> QED BY <1>1, <1>2, <2>1, <3>1 DEF ConnOk, Hoping, ConnPcs
  <2> QED BY <2>2
<1>4. Unset(p) => Noticing'
  BY AnswererMoves DEF Moves, Noticing
<1>5. ~Unset(p) =>
        attempt'[p].pc \in {"replay", "connecting", "connected", "lost"}
  <2>1. ASSUME Answerer(p), ~Unset(p)
        PROVE  attempt'[p].pc \in {"replay", "connecting", "connected", "lost"}
    <3>1. ~TakenOver(p)
      BY <1>1 DEF TakenOver
    <3> QED BY <1>2, <1>3, <2>1, <3>1, AnswererMoves DEF Answerer, Moves, Becomes
  <2> QED BY <1>2, <2>1, AttemptStep
<1>6. ~Unset(p) => rtc' = rtc
  <2>1. rtc # None
    BY DEF HeldOpen
  <2>2. ASSUME NEW o \in Offers, Begin(o) \/ Publish(o) PROVE FALSE
    BY <2>1, <2>2 DEF Begin, Publish
  <2>3. ASSUME NEW o \in Offers, GiveUp(o) PROVE rtc' = rtc
    BY <1>1, <1>2, <2>3, AnswererMoves DEF GiveUp, Moves
  <2>4. ASSUME NEW o \in Offers, Unset(o) PROVE o = p
    BY <1>1, <2>4 DEF Unset
  <2> QED BY <2>2, <2>3, <2>4, RtcFrame
<1> QED BY <1>1, <1>2, <1>4, <1>5, <1>6 DEF HeldOpen

LEMMA ClearInvStep ==
  ASSUME TypeOK, Known, ConnInv, ClearInv, [Next]_vars
  PROVE  ClearInv'
<1> SUFFICES ASSUME subscribed', Plain', Looked'
             PROVE  Noticing' \/ HeldOpen'
  BY DEF ClearInv
<1>1. Plain /\ "replaced" \notin odd /\ "replaced" \notin odd'
  BY OddGrows DEF Plain
<1>2. CASE subscribed /\ Looked
  BY <1>1, <1>2, RelayFrame, NoticingStays, HeldOpenStays DEF ClearInv
<1>3. CASE ~(subscribed /\ Looked)
  <2>1. Open(rtc) /\ UNCHANGED <<rtc, conn, attempt>>
    BY <1>3, RelayFrame
  <2> QED BY <1>1, <2>1, OpenIsHeld DEF HeldOpen
<1> QED BY <1>2, <1>3

(* When both channels are gone the subscriptions are too.  tsRelayLoop     *)
(* leaves them to an open P2P connection, and the goroutine of that one    *)
(* leaves them to a connected relay: of the two that notice a loss, one is *)
(* still to drop them, or has, unless the connection was replaced by an    *)
(* offer, a handler of the lost relay subscribed once more, or the P2P     *)
(* goroutine found the relay connected after tsRelayLoop had looked.       *)
THEOREM LastOneClears == Spec => []LastChannelClears
<1>1. Init => ClearInv
  BY DEF Init, ClearInv, Looked
<1>2. TypeOK /\ Known /\ ConnInv /\ ClearInv /\ [Next]_vars => ClearInv'
  BY ClearInvStep
<1>3. ClearInv => LastChannelClears
  BY DEF ClearInv, LastChannelClears, ChannelsGone, Looked, Plain, Noticing,
     HeldOpen, At
<1> QED BY <1>1, <1>2, <1>3, TypesAndAttempts, Connections, PTL DEF Spec

-----------------------------------------------------------------------------
(* The candidates.                                                         *)

\* While offers do not overlap, only the last one's answer may be under way
\* and d.pendingICEMode says so; a candidate is held by the next offer's
\* buffer, by its attempt or by its connection, or it is just being added.
Idling == \A o \in Offers : ~Answering(o)
Adding(c) == reader.do = "add" /\ reader.c = c

Waiting(c) ==
  /\ c[1] > offers => c[1] = offers + 1 /\ c \in pendingICE /\ Idling
  /\ c[1] <= offers /\ Answering(c[1]) => c \in attempt[c[1]].held \cup pendingICE
  /\ rtc = c[1] => \/ c \in conn[rtc].added \/ Adding(c)
                   \/ At(rtc, "replay") /\ c \in attempt[rtc].held

Answers ==
  /\ \A o \in Offers : Answering(o) => o = offers
  /\ pendingMode => ~Idling
  /\ ~Idling => pendingMode
  /\ rtc # None /\ Idling => rtc = offers

ICEInv == "overlap" \notin odd =>
  /\ Answers
  /\ reader.do = "add" => reader.to = reader.c[1]
  /\ \A c \in trickled : Waiting(c)

LEMMA Candidate ==
  ASSUME NEW c \in Trickle
  PROVE  c[1] \in Offers /\ c[1] # None /\ c[2] \in {"early", "late"}
BY P2PAssumption DEF Offers, None

LEMMA ICEInit == Init => ICEInv
<1> SUFFICES ASSUME Init PROVE ICEInv
  OBVIOUS
<1>1. Idling /\ trickled = {} /\ rtc = None /\ pendingMode = FALSE
  BY DEF Init, Idling, Answering
<1>2. reader.do # "add"
  BY DEF Init, Idle
<1> QED BY <1>1, <1>2 DEF ICEInv, Answers, Idling

\* The steps that touch the buffer, the read loop or the order of offers.
LEMMA IceFrame ==
  [Next]_vars =>
    \/ /\ UNCHANGED <<pendingICE, pendingMode, reader, trickled, offers>>
       /\ rtc' = rtc \/ rtc' = None
       /\ UNCHANGED attempt
    \/ Offer \/ AddICE \/ Kicked \/ \E c \in Trickle : ReceiveICE(c)
    \/ \E o \in Offers : Answerer(o)
BY DEF Next, vars, iceVars, channelVars, Pion, ICEConnected, ICEFailed,
   ICEDisconnected, TerminalOpens, TerminalCloses, Close, Callback,
   ChannelSelect, PeerOffline, Subscribe, RelayStep, RelayClosed, RelayCheck,
   RelayClear, RelayUnset, ReadLoopEnds, RelayUp

\* An attempt's step that neither publishes nor fails to answer.
LEMMA QuietAnswerer ==
  ASSUME TypeOK, NEW o \in Offers, Answerer(o), ~Publish(o), ~AnswerFails(o),
         NEW p \in Offers
  PROVE  /\ UNCHANGED <<pendingICE, pendingMode, reader, trickled, offers>>
         /\ rtc' = rtc \/ rtc' = None
         /\ Answering(p) <=> attempt'[p].pc \in {"begin", "answer", "publish"}
         /\ Replay(p) \/ attempt'[p].held = attempt[p].held
         /\ At(p, "replay") => Replay(p) \/ attempt'[p].pc = "replay"
<1>1. UNCHANGED <<pendingICE, pendingMode, reader, trickled, offers>>
      /\ (rtc' = rtc \/ rtc' = None)
  BY DEF Answerer, Begin, Answered, Replay, Connected, NotConnected, GiveUp,
     Disconnected, TakenOver, Unset, ReadMode, ResetMode, CloseLost,
     CheckRelay, ClearSubscribed, Step, iceVars
<1>2. CASE p # o
  BY <1>1, <1>2, OthersStay DEF Answering, At
<1>3. CASE p = o
  <2>1. /\ Answering(p) <=> attempt'[p].pc \in {"begin", "answer", "publish"}
        /\ Replay(p) \/ attempt'[p].held = attempt[p].held
        /\ At(p, "replay") => Replay(p)
    BY <1>3, AnswererMoves
       DEF Answerer, Moves, Becomes, AfterMode, AfterCheck, Answering, At
  <2> QED BY <1>1, <2>1
<1> QED BY <1>2, <1>3

\* Everything ICEInv says while nothing has overlapped.
Tidy == /\ Answers
        /\ reader.do = "add" => reader.to = reader.c[1]
        /\ \A c \in trickled : Waiting(c)

LEMMA TidyOffer ==
  ASSUME TypeOK, Known, Tidy, Offer, [Next]_vars, "overlap" \notin odd'
  PROVE  Tidy'
<1>1. Idling
  BY DEF Offer, Idling
<1>2. PICK n \in Offers : n = offers'
  BY OfferBecomes
<1>3. /\ n = offers + 1 /\ Becomes(n, attempt[n].pc, "begin", pendingICE)
      /\ offers \in Nat
  BY <1>2, OfferBecomes, P2PAssumption DEF TypeOK
<1>4. /\ reader' = Idle /\ reader = Idle /\ pendingMode' = TRUE /\ rtc' = rtc
      /\ conn' = conn /\ trickled' = trickled
  BY DEF Offer, channelVars
<1>5. /\ attempt'[n].pc = "begin" /\ attempt'[n].held = pendingICE
      /\ \A o \in Offers \ {n} : attempt'[o] = attempt[o]
  BY <1>3 DEF Becomes
<1>6. \A o \in Offers : (Answering(o))' <=> o = n
  BY <1>1, <1>5 DEF Idling, Answering
<1>7. Answers'
  BY <1>2, <1>4, <1>6 DEF Answers, Idling
<1>8. rtc # n
  BY <1>3 DEF Known, At, None
<1>9. ASSUME NEW c \in trickled' PROVE Waiting(c)'
  <2>1. c \in Trickle /\ c \in trickled /\ Waiting(c)
    BY <1>4, <1>9 DEF Tidy, TypeOK
  <2>2. c[1] \in Offers /\ c[1] # None /\ c[1] \in Nat
    BY <2>1, Candidate, P2PAssumption DEF Offers
  <2>3. ~(c[1] > offers')
    BY <1>2, <1>3, <2>1, <2>2 DEF Waiting
  <2>4. ASSUME Answering(c[1])' PROVE c \in attempt'[c[1]].held
    <3>1. c[1] = n
      BY <1>6, <2>2, <2>4
    <3> QED BY <1>3, <1>5, <2>1, <3>1 DEF Waiting
  <2>5. ASSUME rtc = c[1]
        PROVE  \/ c \in conn[rtc].added
               \/ attempt'[rtc].pc = "replay" /\ c \in attempt'[rtc].held
    <3>1. ~Adding(c)
      BY <1>4 DEF Adding, Idle
    <3>2. attempt'[rtc] = attempt[rtc]
      BY <1>5, <1>8, <2>2, <2>5
    <3> QED BY <2>1, <2>5, <3>1, <3>2 DEF Waiting, At
  <2> QED BY <1>4, <2>3, <2>4, <2>5 DEF Waiting, At
<1>10. reader'.do # "add"
  BY <1>4 DEF Idle
<1> QED BY <1>7, <1>9, <1>10 DEF Tidy

LEMMA TidyReceive ==
  ASSUME TypeOK, Known, Tidy, [Next]_vars, "overlap" \notin odd',
         NEW c \in Trickle, ReceiveICE(c)
  PROVE  Tidy'
<1>1. /\ reader = Idle /\ Sendable(c) /\ trickled' = trickled \cup {c}
      /\ IF Buffering
         THEN pendingICE' = pendingICE \cup {c} /\ UNCHANGED reader
         ELSE /\ reader' = [do |-> "add", c |-> c, to |-> rtc]
              /\ UNCHANGED pendingICE
      /\ UNCHANGED <<offers, attempt, conn, rtc, pendingMode>>
  BY DEF ReceiveICE
<1>2. c[2] = "early" => Buffering /\ \A o \in Offers : ~Answering(o)
  BY DEF ReceiveICE
<1>3. /\ c[1] \in Offers /\ c[1] # None /\ offers \in Nat
      /\ c[2] \in {"early", "late"}
  BY Candidate, P2PAssumption DEF TypeOK
<1>4. /\ c[2] = "early" => c[1] = offers + 1
      /\ c[2] = "late" => c[1] = offers
  BY <1>1 DEF Sendable
<1>5. Answers'
  BY <1>1 DEF Tidy, Answers, Idling, Answering
<1>6. pendingICE \subseteq pendingICE' /\ (Buffering => c \in pendingICE')
  BY <1>1
<1>7. ~Buffering => rtc = offers /\ rtc # None /\ ~pendingMode
  BY DEF Buffering, Tidy, Answers
<1>8. reader'.do = "add" => reader'.to = reader'.c[1]
  BY <1>1, <1>2, <1>3, <1>4, <1>7 DEF Idle
<1>9. ASSUME NEW b \in trickled PROVE Waiting(b)'
  <2>1. Waiting(b) /\ ~Adding(b)
    BY <1>1 DEF Tidy, Adding, Idle
  <2> QED BY <1>1, <1>6, <2>1 DEF Waiting, At, Answering, Idling
<1>10. Waiting(c)'
  <2>1. ASSUME c[1] > offers
        PROVE  c[1] = offers + 1 /\ c \in pendingICE' /\ Idling
    BY <1>2, <1>3, <1>4, <1>6, <2>1 DEF Idling
  <2>2. ASSUME Answering(c[1]) PROVE c \in pendingICE'
    <3>1. ~Idling
      BY <1>3, <2>2 DEF Idling
    <3> QED BY <1>6, <3>1 DEF Tidy, Answers, Buffering
  <2>3. ASSUME rtc = c[1] PROVE Adding(c)'
    <3>1. ~Answering(rtc) /\ ~(rtc > offers)
      BY <1>3, <2>3 DEF Known, At, Answering
    <3>2. rtc = offers
      BY <1>3, <1>4, <2>3, <3>1
    <3>3. Idling
      BY <3>1, <3>2 DEF Tidy, Answers, Idling
    <3>4. ~Buffering
      BY <1>3, <2>3, <3>3 DEF Buffering, Tidy, Answers
    <3> QED BY <1>1, <3>4 DEF Adding
  <2> QED BY <1>1, <2>1, <2>2, <2>3 DEF Waiting, Answering, Idling
<1> QED BY <1>1, <1>5, <1>8, <1>9, <1>10 DEF Tidy

LEMMA TidyAdd ==
  ASSUME TypeOK, Known, Tidy, [Next]_vars, AddICE
  PROVE  Tidy'
<1>1. /\ reader.do = "add" /\ reader' = Idle
      /\ UNCHANGED <<offers, attempt, rtc, pendingICE, pendingMode, trickled>>
  BY DEF AddICE
<1>2. Answers'
  BY <1>1 DEF Tidy, Answers, Idling, Answering
<1>3. ASSUME NEW c \in trickled PROVE Waiting(c)'
  <2>1. Waiting(c) /\ c \in Trickle
    BY DEF Tidy, TypeOK
  <2>2. ASSUME rtc = c[1], c \in conn[rtc].added \/ Adding(c)
        PROVE  c \in conn'[rtc].added
    <3>1. PICK p \in Offers : p = rtc
      BY <2>1, <2>2, Candidate
    <3>2. Adding(c) => reader.to = p /\ reader.c = c
      BY <2>2, <3>1 DEF Adding, Tidy
    <3> QED BY <2>2, <3>1, <3>2, AddedStep
  <2> QED BY <1>1, <2>1, <2>2 DEF Waiting, At, Answering, Idling
<1>4. reader'.do # "add"
  BY <1>1 DEF Idle
<1> QED BY <1>1, <1>2, <1>3, <1>4 DEF Tidy

LEMMA TidyPublish ==
  ASSUME TypeOK, Known, Tidy, [Next]_vars, NEW o \in Offers, Publish(o)
  PROVE  Tidy'
<1>1. /\ rtc' = o /\ pendingICE' = {} /\ pendingMode' = FALSE
      /\ UNCHANGED <<offers, conn, reader, trickled>>
  BY DEF Publish
<1>2. /\ attempt[o].pc = "publish" /\ attempt'[o].pc = "replay"
      /\ attempt'[o].held = attempt[o].held \cup pendingICE
      /\ \A p \in Offers \ {o} : attempt'[p] = attempt[p]
  BY AnswererMoves DEF Becomes
<1>3. o = offers /\ ~Idling
  BY <1>2 DEF Tidy, Answers, Answering, Idling
<1>4. \A p \in Offers : ~Answering(p)'
  BY <1>2, <1>3 DEF Tidy, Answers, Answering
<1>5. Answers'
  BY <1>1, <1>3, <1>4 DEF Answers, Idling
<1>6. ASSUME NEW c \in trickled PROVE Waiting(c)'
  <2>1. Waiting(c) /\ c \in Trickle
    BY DEF Tidy, TypeOK
  <2>2. c[1] \in Offers
    BY <2>1, Candidate
  <2>3. ~(c[1] > offers)
    BY <1>3, <2>1 DEF Waiting
  <2>4. ASSUME c[1] = o PROVE c \in attempt'[o].held
    <3>1. c[1] <= offers
      BY <1>3, <2>4, P2PAssumption DEF TypeOK
    <3> QED BY <1>2, <2>1, <2>4, <3>1 DEF Waiting, Answering
  <2> QED BY <1>1, <1>2, <1>4, <2>2, <2>3, <2>4 DEF Waiting, At
<1> QED BY <1>1, <1>5, <1>6 DEF Tidy

LEMMA TidyQuiet ==
  ASSUME TypeOK, Known, Tidy, [Next]_vars,
         NEW o \in Offers, Answerer(o), ~Publish(o), ~AnswerFails(o)
  PROVE  Tidy'
<1>1. /\ UNCHANGED <<pendingICE, pendingMode, reader, trickled, offers>>
      /\ rtc' = rtc \/ rtc' = None
  BY QuietAnswerer
<1>2. \A p \in Offers :
        /\ Answering(p)' <=> Answering(p)
        /\ Replay(p) \/ attempt'[p].held = attempt[p].held
        /\ At(p, "replay") => Replay(p) \/ attempt'[p].pc = "replay"
  BY QuietAnswerer DEF Answering
<1>3. Answers'
  BY <1>1, <1>2 DEF Tidy, Answers, Idling
<1>4. ASSUME NEW c \in trickled PROVE Waiting(c)'
  <2>1. Waiting(c) /\ c \in Trickle
    BY DEF Tidy, TypeOK
  <2>2. c[1] \in Offers /\ c[1] # None
    BY <2>1, Candidate
  <2>3. (c[1] > offers)' => (c[1] = offers + 1 /\ c \in pendingICE /\ Idling)'
    BY <1>1, <1>2, <2>1 DEF Waiting, Idling
  <2>4. ASSUME (c[1] <= offers)', Answering(c[1])'
        PROVE  c \in attempt'[c[1]].held \cup pendingICE'
    <3>1. ~Replay(c[1])
      BY <1>2, <2>2, <2>4 DEF Replay, At, Answering
    <3> QED BY <1>1, <1>2, <2>1, <2>2, <2>4, <3>1 DEF Waiting
  <2>5. ASSUME rtc' = c[1]
        PROVE  (\/ c \in conn[rtc].added \/ Adding(c)
                \/ At(rtc, "replay") /\ c \in attempt[rtc].held)'
    <3>1. PICK p \in Offers : p = c[1]
      BY <2>2
    <3>2. rtc = p /\ rtc' = p
      BY <1>1, <2>2, <2>5, <3>1
    <3>3. /\ conn[p].added \subseteq conn'[p].added
          /\ Replay(p) => attempt[p].held \subseteq conn'[p].added
      BY AddedStep
    <3>4. Adding(c) => Adding(c)'
      BY <1>1 DEF Adding
    <3>5. c \in conn[p].added \/ Adding(c) \/ (At(p, "replay") /\ c \in attempt[p].held)
      BY <2>1, <3>1, <3>2 DEF Waiting
    <3>6. /\ Replay(p) \/ attempt'[p].held = attempt[p].held
          /\ At(p, "replay") => Replay(p) \/ attempt'[p].pc = "replay"
      BY <1>2
    <3>7. \/ c \in conn'[p].added \/ Adding(c)'
          \/ attempt'[p].pc = "replay" /\ c \in attempt'[p].held
      BY <3>3, <3>4, <3>5, <3>6
    <3> QED BY <3>2, <3>7 DEF At
  <2> QED BY <2>3, <2>4, <2>5 DEF Waiting
<1> QED BY <1>1, <1>3, <1>4 DEF Tidy

LEMMA TidyFrame ==
  ASSUME TypeOK, Tidy, [Next]_vars, rtc' = rtc \/ rtc' = None,
         UNCHANGED <<pendingICE, pendingMode, reader, trickled, offers, attempt>>
  PROVE  Tidy'
<1>1. Answers'
  BY DEF Tidy, Answers, Idling, Answering
<1>2. ASSUME NEW c \in trickled PROVE Waiting(c)'
  <2>1. Waiting(c) /\ c \in Trickle
    BY DEF Tidy, TypeOK
  <2>2. PICK p \in Offers : p = c[1] /\ p # None
    BY <2>1, Candidate
  <2>3. conn[p].added \subseteq conn'[p].added
    BY AddedStep
  <2>4. rtc' = p => rtc = p
    BY <2>2
  <2> QED BY <2>1, <2>2, <2>3, <2>4 DEF Waiting, Adding, At, Answering, Idling
<1> QED BY <1>1, <1>2 DEF Tidy

LEMMA ICEStep ==
  ASSUME TypeOK, Known, ICEInv, [Next]_vars
  PROVE  ICEInv'
<1> SUFFICES ASSUME "overlap" \notin odd' PROVE Tidy'
  BY DEF ICEInv, Tidy
<1>1. Tidy
  BY OddGrows DEF ICEInv, Tidy
<1>2. ~Kicked /\ \A o \in Offers : ~AnswerFails(o)
  BY DEF Kicked, AnswerFails
<1> QED BY <1>1, <1>2, IceFrame, TidyOffer, TidyReceive, TidyAdd,
           TidyPublish, TidyQuiet, TidyFrame

(* The connection in use gets every candidate the app sent for its offer,  *)
(* whenever it came: handleP2PSignal buffers it, or the read loop is at    *)
(* AddRemoteICE after it let go of rtcMu, or startP2PAsAnswerer replays    *)
(* it.  This is where the buffer mode matters, unless offers overlapped,   *)
(* an answer failed or the app was kicked.                                 *)
THEOREM NoCandidateLost == Spec => []CandidatesReachOffer
<1>1. Init => ICEInv
  BY ICEInit
<1>2. TypeOK /\ Known /\ ICEInv /\ [Next]_vars => ICEInv'
  BY ICEStep
<1>3. TypeOK /\ ICEInv => CandidatesReachOffer
  BY DEF ICEInv, CandidatesReachOffer, Waiting, Adding
<1> QED BY <1>1, <1>2, <1>3, TypesAndAttempts, PTL DEF Spec
=============================================================================
