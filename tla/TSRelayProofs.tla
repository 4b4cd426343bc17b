---------------------------- MODULE TSRelayProofs ----------------------------
(***************************************************************************)
(* Proofs about a turn-server connection, for any set of senders, any      *)
(* capacity of the two queues and any number of frames.                    *)
(***************************************************************************)
EXTENDS TSRelay, TLAPS

-----------------------------------------------------------------------------
(***************************************************************************)
(* Where a frame can be on its way to the peer, and the inductive          *)
(* invariant: at every place, and from place to place, the frames of one   *)
(* goroutine and kind keep their order.                                    *)
(***************************************************************************)
Elems(q) == {q[i] : i \in DOMAIN q}
Hands == {InHand(s) : s \in {x \in Senders : at[x] # Idle}}
Writing == IF writer.pc \in {"lock", "write"} THEN {writer.frame} ELSE {}

\* What a sender that is not idle has in its hands.
Held == [pc : {"wrapped", "snapshot", "parked"},
         seq : 0..(sendSeq - 1), kind : {"text", "binary"}]

\* Frames whose order the wire keeps.
Same(f, g) == f.by = g.by /\ f.kind = g.kind

InOrder(q) ==
    \A i, j \in DOMAIN q : i < j /\ Same(q[i], q[j]) => q[i].seq < q[j].seq
Before(A, B) == \A f \in A, g \in B : Same(f, g) => f.seq < g.seq

Routed ==
    /\ \A f \in Elems(sendCh) : f.kind = "text"
    /\ \A f \in Elems(binaryCh) : f.kind = "binary"
QueuesInOrder == InOrder(sendCh) /\ InOrder(binaryCh)
WriterIsAhead == Before(Writing, Elems(sendCh) \cup Elems(binaryCh))
HandIsBehind ==
    Before(Writing \cup Elems(sendCh) \cup Elems(binaryCh), Hands)

OrderInv ==
    Routed /\ QueuesInOrder /\ WriterIsAhead /\ HandIsBehind
    /\ WireKeepsSenderOrder

\* A connection that is not connected has been closed.
DownIsClosed == ~connected => closed

\* Every number belongs to one frame.
Everything == Underway \cup Delivered \cup dropped
NumberedOnce == \A f, g \in Everything : f.seq = g.seq => f = g

\* recvSeq is the number of a frame the peer took, the largest one.
PeerRemembers ==
    /\ recvSeq # -1 => recvSeq \in SeqsOf(accepted)
    /\ \A f \in Delivered : f.seq <= recvSeq

(***************************************************************************)
(* Every frame the peer takes for a replay was overtaken by a frame that   *)
(* it took, of another goroutine or of the other kind.                     *)
(***************************************************************************)
RejectedWereOvertaken ==
    \A f \in rejected :
        \E g \in accepted : (g.by # f.by \/ g.kind # f.kind) /\ f.seq < g.seq

-----------------------------------------------------------------------------
(***************************************************************************)
(* The operators of the model on sequences.                                *)
(***************************************************************************)
\* A queue that is appended to holds one element more and stays ordered.
LEMMA AppendFacts ==
  ASSUME NEW S, NEW q \in Seq(S), NEW f \in S
  PROVE  /\ QueueFrame(q, f) \in Seq(S)
         /\ Len(QueueFrame(q, f)) = Len(q) + 1
         /\ Elems(QueueFrame(q, f)) = Elems(q) \cup {f}
         /\ InOrder(q) /\ Before(Elems(q), {f}) => InOrder(QueueFrame(q, f))
<1> DEFINE r == Append(q, f)
<1>1. /\ r \in Seq(S) /\ Len(r) = Len(q) + 1 /\ Len(q) \in Nat
      /\ \A i \in 1..Len(q) : r[i] = q[i]
      /\ r[Len(q) + 1] = f
      /\ DOMAIN q = 1..Len(q) /\ DOMAIN r = 1..(Len(q) + 1)
  OBVIOUS
<1> HIDE DEF r
<1>2. Elems(r) = Elems(q) \cup {f}
  BY <1>1 DEF Elems
<1>3. ASSUME InOrder(q), Before(Elems(q), {f}) PROVE InOrder(r)
  <2> SUFFICES ASSUME NEW i \in DOMAIN r, NEW j \in DOMAIN r, i < j,
                      Same(r[i], r[j])
               PROVE  r[i].seq < r[j].seq
    BY DEF InOrder
  <2>1. CASE j = Len(q) + 1
    BY <1>1, <1>3, <2>1 DEF Before, Elems
  <2>2. CASE j # Len(q) + 1
    BY <1>1, <1>3, <2>2 DEF InOrder
  <2> QED BY <2>1, <2>2
<1> QED BY <1>1, <1>2, <1>3 DEF QueueFrame, r

\* The head of an ordered queue is ahead of the rest, which stays ordered.
LEMMA TailFacts ==
  ASSUME NEW S, NEW q \in Seq(S), q # <<>>
  PROVE  /\ Head(q) \in S /\ Tail(q) \in Seq(S)
         /\ Len(Tail(q)) = Len(q) - 1
         /\ Elems(q) = {Head(q)} \cup Elems(Tail(q))
         /\ InOrder(q) => /\ InOrder(Tail(q))
                          /\ Before({Head(q)}, Elems(Tail(q)))
<1> DEFINE r == Tail(q)
<1>1. /\ r \in Seq(S) /\ Len(r) = Len(q) - 1 /\ Len(q) \in Nat \ {0}
      /\ \A i \in 1..(Len(q) - 1) : r[i] = q[i + 1]
      /\ Head(q) = q[1] /\ q[1] \in S
      /\ DOMAIN q = 1..Len(q) /\ DOMAIN r = 1..(Len(q) - 1)
  OBVIOUS
<1> HIDE DEF r
<1>2. /\ \A i \in DOMAIN q : i = 1 \/ (i - 1 \in DOMAIN r /\ q[i] = r[i - 1])
      /\ \A i \in DOMAIN r : i + 1 \in DOMAIN q /\ r[i] = q[i + 1]
      /\ 1 \in DOMAIN q /\ Head(q) = q[1]
  BY <1>1
<1>3. Elems(q) = {Head(q)} \cup Elems(r)
  <2>1. ASSUME NEW f \in Elems(q) PROVE f \in {Head(q)} \cup Elems(r)
    BY <1>2 DEF Elems
  <2>2. ASSUME NEW f \in Elems(r) PROVE f \in Elems(q)
    BY <1>2 DEF Elems
  <2>3. Head(q) \in Elems(q)
    BY <1>2 DEF Elems
  <2> QED BY <2>1, <2>2, <2>3
<1>4. ASSUME InOrder(q) PROVE InOrder(r) /\ Before({Head(q)}, Elems(r))
  <2>1. \A i, j \in DOMAIN r : 1 < i + 1 /\ (i < j => i + 1 < j + 1)
    BY <1>1
  <2>2. InOrder(r)
    BY <1>4, <1>2, <2>1 DEF InOrder
  <2>3. ASSUME NEW i \in DOMAIN r, Same(Head(q), r[i])
        PROVE  Head(q).seq < r[i].seq
    BY <1>4, <1>2, <2>1, <2>3 DEF InOrder
  <2>4. Before({Head(q)}, Elems(r))
    BY <2>3 DEF Before, Elems
  <2> QED BY <2>2, <2>4
<1> QED BY <1>1, <1>3, <1>4 DEF r

-----------------------------------------------------------------------------
(***************************************************************************)
(* Type correctness.                                                       *)
(***************************************************************************)
\* A sender that has a frame is not idle, and its number was given out.
LEMMA HandFacts ==
  ASSUME TypeOK, NEW s \in Senders
  PROVE  /\ at[s] = Idle <=> at[s].pc = "idle"
         /\ at[s] # Idle =>
              /\ at[s] \in Held
              /\ at[s] = [pc |-> at[s].pc, seq |-> at[s].seq,
                          kind |-> at[s].kind]
              /\ at[s].seq \in 0..(sendSeq - 1)
              /\ at[s].kind \in {"text", "binary"}
              /\ at[s].kind \in KindsOf(s)
              /\ InHand(s) \in Frames
<1>1. CASE at[s] = Idle
  BY <1>1 DEF Idle
<1>2. CASE at[s] \in Held
  <2>1. /\ at[s].pc # "idle" /\ at[s].seq \in 0..(sendSeq - 1)
        /\ at[s].kind \in {"text", "binary"}
        /\ at[s] = [pc |-> at[s].pc, seq |-> at[s].seq, kind |-> at[s].kind]
    BY <1>2 DEF Held
  <2>2. at[s] # Idle
    BY <2>1 DEF Idle
  <2>3. at[s].kind \in KindsOf(s)
    BY <2>2 DEF TypeOK
  <2>4. InHand(s) \in Frames
    BY <2>1, <2>3 DEF InHand, Frame, Frames
  <2> QED BY <1>2, <2>1, <2>2, <2>3, <2>4
<1> QED BY <1>1, <1>2 DEF TypeOK, Held

\* writeLoop holds a frame from the moment it took it until it is written.
LEMMA WriterFacts ==
  ASSUME TypeOK
  PROVE  /\ writer.pc \in {"drain", "wait", "done", "lock", "write"}
         /\ writer.pc \in {"lock", "write"} =>
              /\ writer.frame \in Frames
              /\ writer = [pc |-> writer.pc, frame |-> writer.frame]
         /\ Writing \subseteq Frames
<1>1. CASE writer \in [pc : {"drain", "wait", "done"}]
  BY <1>1 DEF Writing
<1>2. CASE writer \in [pc : {"lock", "write"}, frame : Frames]
  BY <1>2 DEF Writing
<1> QED BY <1>1, <1>2 DEF TypeOK

\* No step leaves the types.
LEMMA TypeStep == TypeOK /\ [Next]_vars => TypeOK'
<1> SUFFICES ASSUME TypeOK, [Next]_vars PROVE TypeOK'
  OBVIOUS
<1> USE RelayAssumption DEF peerVars, queueVars, linkVars
<1>0. sendSeq' = sendSeq => Frames' = Frames
  BY DEF Frames
<1>k. ASSUME at' = at
      PROVE  \A s \in Senders : at'[s] # Idle => at'[s].kind \in KindsOf(s)
  BY <1>k DEF TypeOK
<1>1. ASSUME NEW s \in Senders, Wrap(s) PROVE TypeOK'
  <2>1. /\ sendSeq \in Nat /\ sendSeq' = sendSeq + 1
        /\ sendSeq' \in 0..MaxFrames
        /\ 0..(sendSeq - 1) \subseteq 0..(sendSeq' - 1)
        /\ recvSeq' \in -1..(sendSeq' - 1)
    BY <1>1 DEF TypeOK, Wrap
  <2>2. Frames \subseteq Frames'
    BY <2>1 DEF Frames
  <2>3. Seq(Frames) \subseteq Seq(Frames')
    BY <2>2
  <2>a. PICK k \in KindsOf(s) :
          at' = [at EXCEPT ![s] = [pc |-> "wrapped", seq |-> sendSeq, kind |-> k]]
    BY <1>1 DEF Wrap
  <2>b. Held \subseteq Held' /\ k \in {"text", "binary"}
    BY <2>1 DEF Held, KindsOf
  <2>c. [pc |-> "wrapped", seq |-> sendSeq, kind |-> k] \in Held'
    BY <2>1, <2>b DEF Held
  <2>4. at' \in [Senders -> {Idle} \cup Held']
    <3>1. at \in [Senders -> {Idle} \cup Held']
      BY <2>b DEF TypeOK, Held
    <3> QED BY <2>a, <2>c, <3>1
  <2>d. \A x \in Senders : at'[x] # Idle => at'[x].kind \in KindsOf(x)
    BY <2>a DEF TypeOK
  <2>5. writer' \in [pc : {"drain", "wait", "done"}]
                    \cup [pc : {"lock", "write"}, frame : Frames']
    BY <1>1, <2>2 DEF TypeOK, Wrap
  <2> HIDE DEF Frames
  <2>6. sendCh' \in Seq(Frames') /\ binaryCh' \in Seq(Frames')
    BY <1>1, <2>3 DEF TypeOK, Wrap
  <2> QED BY <1>1, <2>1, <2>2, <2>4, <2>5, <2>6, <2>d DEF TypeOK, Wrap, Held
<1>2. ASSUME NEW s \in Senders, RLock(s) \/ Snapshot(s) \/ GiveUp(s)
      PROVE  TypeOK'
  <2>1. at[s].pc # "idle"
    BY <1>2 DEF RLock, Snapshot, GiveUp
  <2>2. at[s] \in Held /\ InHand(s) \in Frames
    BY <2>1, HandFacts
  <2> DEFINE Hold == {Idle} \cup Held
  <2>a. /\ at \in [Senders -> Hold] /\ Idle \in Hold
        /\ [at[s] EXCEPT !.pc = "snapshot"] \in Hold
        /\ [at[s] EXCEPT !.pc = "parked"] \in Hold
    BY <2>2 DEF TypeOK, Held
  <2>b. \/ at' = [at EXCEPT ![s] = Idle]
        \/ at' = [at EXCEPT ![s] = [at[s] EXCEPT !.pc = "snapshot"]]
        \/ at' = [at EXCEPT ![s] = [at[s] EXCEPT !.pc = "parked"]]
    BY <1>2 DEF RLock, Snapshot, GiveUp
  <2>3. at' \in [Senders -> Hold]
    <3> HIDE DEF Hold
    <3> QED BY <2>a, <2>b
  <2>4. dropped' \subseteq Frames
    BY <1>2, <2>2 DEF TypeOK, RLock, Snapshot, GiveUp
  <2>5. \A x \in Senders : at'[x] # Idle => at'[x].kind \in KindsOf(x)
    <3>1. \A x \in Senders \ {s} : at'[x] = at[x]
      BY <2>b DEF TypeOK
    <3>2. at'[s] = Idle \/ at'[s].kind = at[s].kind
      BY <2>b, <2>2 DEF TypeOK, Held
    <3>3. at[s].kind \in KindsOf(s)
      BY <2>1, HandFacts
    <3> QED BY <3>1, <3>2, <3>3 DEF TypeOK
  <2> QED
    BY <1>0, <1>2, <2>3, <2>4, <2>5 DEF TypeOK, RLock, Snapshot, GiveUp, Held
<1>3. ASSUME NEW s \in Senders, Enqueue(s) PROVE TypeOK'
  <2>1. InHand(s) \in Frames
    BY <1>3, HandFacts DEF Enqueue
  <2>2. /\ sendCh' \in Seq(Frames) /\ Len(sendCh') <= TextCap
        /\ binaryCh' \in Seq(Frames) /\ Len(binaryCh') <= BinaryCap
    <3>1. /\ sendCh \in Seq(Frames) /\ Len(sendCh) \in Nat
          /\ binaryCh \in Seq(Frames) /\ Len(binaryCh) \in Nat
          /\ Len(sendCh) <= TextCap /\ Len(binaryCh) <= BinaryCap
      BY DEF TypeOK
    <3> DEFINE f == InHand(s)
    <3>2. /\ QueueFrame(sendCh, f) \in Seq(Frames)
          /\ Len(QueueFrame(sendCh, f)) = Len(sendCh) + 1
          /\ QueueFrame(binaryCh, f) \in Seq(Frames)
          /\ Len(QueueFrame(binaryCh, f)) = Len(binaryCh) + 1
      BY <2>1, <3>1, AppendFacts
    <3>3. \/ /\ Len(binaryCh) < BinaryCap
             /\ binaryCh' = QueueFrame(binaryCh, f) /\ sendCh' = sendCh
          \/ /\ Len(sendCh) < TextCap
             /\ sendCh' = QueueFrame(sendCh, f) /\ binaryCh' = binaryCh
      BY <1>3 DEF Enqueue, Room
    <3> HIDE DEF f, Frames
    <3> QED BY <3>1, <3>2, <3>3
  <2>3. /\ at' \in [Senders -> {Idle} \cup Held]
        /\ \A x \in Senders : at'[x] # Idle => at'[x].kind \in KindsOf(x)
    BY <1>3 DEF TypeOK, Enqueue, Held
  <2> QED
    BY <1>0, <1>3, <2>2, <2>3 DEF TypeOK, Enqueue, Held
<1>4. CASE TakeText \/ TakeBinary
  <2>1. /\ sendCh' \in Seq(Frames) /\ Len(sendCh') <= TextCap
        /\ binaryCh' \in Seq(Frames) /\ Len(binaryCh') <= BinaryCap
        /\ writer' \in [pc : {"lock", "write"}, frame : Frames]
    <3>1. /\ sendCh \in Seq(Frames) /\ Len(sendCh) \in Nat
          /\ binaryCh \in Seq(Frames) /\ Len(binaryCh) \in Nat
          /\ Len(sendCh) <= TextCap /\ Len(binaryCh) <= BinaryCap
      BY DEF TypeOK
    <3>2. CASE TakeText
      <4>1. /\ Head(sendCh) \in Frames /\ Tail(sendCh) \in Seq(Frames)
            /\ Len(Tail(sendCh)) = Len(sendCh) - 1
        BY <3>1, <3>2, TailFacts DEF TakeText
      <4> HIDE DEF Frames
      <4> QED BY <3>1, <3>2, <4>1 DEF TakeText
    <3>3. CASE TakeBinary
      <4>1. /\ Head(binaryCh) \in Frames /\ Tail(binaryCh) \in Seq(Frames)
            /\ Len(Tail(binaryCh)) = Len(binaryCh) - 1
        BY <3>1, <3>3, TailFacts DEF TakeBinary
      <4> HIDE DEF Frames
      <4> QED BY <3>1, <3>3, <4>1 DEF TakeBinary
    <3> QED BY <1>4, <3>2, <3>3
  <2> QED
    BY <1>0, <1>4, <2>1 DEF TypeOK, TakeText, TakeBinary
<1>5. CASE NoText \/ WriterReturns
  BY SMTT(60), <1>0, <1>5 DEF TypeOK, NoText, WriterReturns
<1>6. CASE WriterLock
  <2>1. writer' \in [pc : {"lock", "write"}, frame : Frames]
    BY <1>6, WriterFacts DEF WriterLock
  <2> QED BY <1>0, <1>6, <2>1 DEF TypeOK, WriterLock
<1>7. CASE Write
  <2>1. writer.frame \in Frames
    BY <1>7, WriterFacts DEF Write
  <2>2. writer.frame.seq \in 0..(sendSeq - 1)
    BY <2>1 DEF Frames
  <2>3. /\ recvSeq' \in -1..(sendSeq - 1) /\ accepted' \subseteq Frames
        /\ rejected' \subseteq Frames
    BY <1>7, <2>1, <2>2 DEF TypeOK, Write, Unwrap
  <2>4. /\ swallowed' = swallowed \/ (/\ swallowed < KernelCap
                                      /\ swallowed' = swallowed + 1)
        /\ closed' = closed \/ closed' = TRUE
    BY <1>7 DEF Write
  <2>5. swallowed' \in 0..KernelCap
    BY <2>4 DEF TypeOK
  <2>6. closed' \in BOOLEAN
    BY <2>4 DEF TypeOK
  <2> QED BY <1>0, <1>7, <2>3, <2>5, <2>6 DEF TypeOK, Write
<1>8. CASE \/ CloseConn \/ CloseByOwner \/ Receive \/ Handled \/ ReadFails
           \/ ReaderReturns \/ LinkFails
  BY <1>0, <1>8
     DEF TypeOK, CloseConn, ConnClosed, CloseByOwner, Receive, Handled,
         ReadFails, ReaderReturns, LinkFails
<1>9. CASE Pong \/ PingTick
  <2>1. missed' \in 0..PingLimit
    BY <1>9 DEF TypeOK, Pong, PingTick
  <2>2. closed' \in BOOLEAN /\ pinging' \in BOOLEAN
    BY <1>9, Zenon DEF TypeOK, Pong, PingTick
  <2> QED BY <1>0, <1>9, <2>1, <2>2 DEF TypeOK, Pong, PingTick
<1>10. CASE UNCHANGED vars
  BY <1>0, <1>10 DEF TypeOK, vars
<1> QED
  BY <1>1, <1>2, <1>3, <1>4, <1>5, <1>6, <1>7, <1>8, <1>9, <1>10
     DEF Next, Progress, WriteLoop, Housekeeping

\* The types hold initially.
LEMMA TypeInit == Init => TypeOK
<1> SUFFICES ASSUME Init PROVE TypeOK
  OBVIOUS
<1>1. sendCh \in Seq(Frames) /\ binaryCh \in Seq(Frames)
  BY DEF Init
<1>2. at \in [Senders -> {Idle} \cup
                Held]
  BY DEF Init
<1>6. \A s \in Senders : at[s] = Idle
  BY DEF Init
<1>3. writer \in [pc : {"drain", "wait", "done"}]
  BY DEF Init
<1>4. /\ sendSeq \in 0..MaxFrames /\ recvSeq \in -1..(sendSeq - 1)
      /\ Len(sendCh) <= TextCap /\ Len(binaryCh) <= BinaryCap
      /\ missed \in 0..PingLimit /\ swallowed \in 0..KernelCap
  BY RelayAssumption DEF Init
<1>5. /\ reading \in {"loop", "handling", "exit", "done"}
      /\ link \in {"up", "dead", "closed"}
      /\ connected \in BOOLEAN /\ closed \in BOOLEAN /\ pinging \in BOOLEAN
      /\ accepted \subseteq Frames /\ rejected \subseteq Frames
      /\ dropped \subseteq Frames
  BY DEF Init
<1> QED BY <1>1, <1>2, <1>3, <1>4, <1>5, <1>6 DEF TypeOK, Held

(***************************************************************************)
(* The types of the connection; neither queue outgrows the capacity        *)
(* NewWSTurnRelay makes it with.                                           *)
(***************************************************************************)
THEOREM TypeCorrect == RelaySpec => []TypeOK
BY TypeInit, TypeStep, PTL DEF RelaySpec

-----------------------------------------------------------------------------
(***************************************************************************)
(* How the steps move a frame.                                             *)
(***************************************************************************)
\* The frames under way are in a hand, in a queue or with writeLoop.
LEMMA UnderwayIs ==
  /\ Underway = Hands \cup Elems(sendCh) \cup Elems(binaryCh) \cup Writing
  /\ Underway' = Hands' \cup Elems(sendCh') \cup Elems(binaryCh') \cup Writing'
BY DEF Underway, Hands, Elems, Writing

\* A frame under way is one that was numbered.
LEMMA UnderwayFacts ==
  ASSUME TypeOK
  PROVE  /\ Hands \subseteq Frames /\ Elems(sendCh) \subseteq Frames
         /\ Elems(binaryCh) \subseteq Frames /\ Writing \subseteq Frames
         /\ Underway \subseteq Frames /\ Delivered \subseteq Frames
         /\ Everything \subseteq Frames
<1>1. Hands \subseteq Frames
  BY HandFacts DEF Hands
<1>2. Elems(sendCh) \subseteq Frames /\ Elems(binaryCh) \subseteq Frames
  <2> HIDE DEF Frames
  <2> QED BY DEF TypeOK, Elems
<1>3. Delivered \subseteq Frames /\ dropped \subseteq Frames
  BY DEF TypeOK, Delivered
<1> QED
  BY <1>1, <1>2, <1>3, WriterFacts, UnderwayIs DEF Everything

\* A sender has at most one frame in its hands.
LEMMA OneInHand ==
  ASSUME NEW f \in Hands, NEW g \in Hands, f.by = g.by
  PROVE  f = g
BY DEF Hands, InHand, Frame

\* A frame that is wrapped is the only one of its goroutine.
LEMMA WrapFlow ==
  ASSUME TypeOK, NEW s \in Senders, Wrap(s)
  PROVE  \E k \in KindsOf(s) :
         /\ Hands' = Hands \cup {Frame(s, sendSeq, k)}
         /\ \A g \in Hands : g.by # s
         /\ Writing' = Writing
         /\ UNCHANGED <<sendCh, binaryCh, accepted, rejected, dropped>>
<1>1. PICK k \in KindsOf(s) :
        at' = [at EXCEPT ![s] = [pc |-> "wrapped", seq |-> sendSeq, kind |-> k]]
  BY DEF Wrap
<1>2. /\ at[s] = Idle
      /\ \A x \in Senders \ {s} : at'[x] = at[x]
      /\ at'[s] # Idle /\ at'[s].seq = sendSeq /\ at'[s].kind = k
  BY <1>1, HandFacts DEF Wrap, TypeOK, Idle
<1>3. Hands' = Hands \cup {Frame(s, sendSeq, k)}
  BY <1>2 DEF Hands, InHand
<1>4. \A g \in Hands : g.by # s
  BY <1>2 DEF Hands, InHand, Frame
<1> QED
  BY <1>3, <1>4 DEF Wrap, Writing, peerVars, queueVars

\* A sender that goes on keeps its frame.
LEMMA HoldFlow ==
  ASSUME TypeOK, NEW s \in Senders, at[s] # Idle,
         NEW pc \in {"snapshot", "parked"}, at' = [at EXCEPT ![s].pc = pc]
  PROVE  Hands' = Hands
<1>1. /\ at[s] = [pc |-> at[s].pc, seq |-> at[s].seq, kind |-> at[s].kind]
      /\ \A x \in Senders \ {s} : at'[x] = at[x]
      /\ at'[s] = [at[s] EXCEPT !.pc = pc]
  BY HandFacts DEF TypeOK
<1>2. at'[s] # Idle /\ at'[s].seq = at[s].seq /\ at'[s].kind = at[s].kind
  BY <1>1 DEF Idle
<1> QED BY <1>1, <1>2 DEF Hands, InHand

\* A sender that is done lets go of the one frame it had.
LEMMA LeaveFlow ==
  ASSUME TypeOK, NEW s \in Senders, at[s] # Idle,
         at' = [at EXCEPT ![s] = Idle]
  PROVE  /\ Hands = Hands' \cup {InHand(s)}
         /\ \A g \in Hands' : g.by # s
<1>1. /\ \A x \in Senders \ {s} : at'[x] = at[x]
      /\ at'[s] = Idle
  BY DEF TypeOK
<1> QED BY <1>1 DEF Hands, InHand, Frame

\* The steps that move no frame.
Quiet ==
    \/ NoText \/ WriterReturns \/ WriterLock
    \/ CloseConn \/ CloseByOwner \/ Receive \/ Handled \/ ReadFails
    \/ ReaderReturns \/ Pong \/ PingTick \/ LinkFails
    \/ UNCHANGED vars

LEMMA QuietFlow ==
  ASSUME TypeOK, Quiet
  PROVE  /\ UNCHANGED <<at, sendCh, binaryCh, accepted, rejected, dropped,
                        sendSeq, recvSeq>>
         /\ Hands' = Hands /\ Writing' = Writing
<1>1. UNCHANGED <<at, sendCh, binaryCh, accepted, rejected, dropped,
                  sendSeq, recvSeq>>
  BY DEF Quiet, NoText, WriterReturns, WriterLock, CloseConn, CloseByOwner,
         Receive, Handled, ReadFails, ReaderReturns, Pong, PingTick,
         LinkFails, vars, peerVars, queueVars
<1>2. Writing' = Writing
  <2>1. CASE WriterLock
    BY <2>1, WriterFacts DEF WriterLock, Writing
  <2>2. CASE NoText \/ WriterReturns
    BY <2>2 DEF NoText, WriterReturns, Writing
  <2>3. CASE ~(NoText \/ WriterReturns \/ WriterLock)
    <3>1. writer' = writer
      BY <2>3 DEF Quiet, CloseConn, CloseByOwner, Receive, Handled,
                  ReadFails, ReaderReturns, Pong, PingTick, LinkFails, vars
    <3> QED BY <3>1 DEF Writing
  <2> QED BY <2>1, <2>2, <2>3
<1> QED BY <1>1, <1>2 DEF Hands, InHand

\* What the other steps do.
LEMMA Steps ==
  ASSUME [Next]_vars
  PROVE  \/ \E s \in Senders : \/ Wrap(s) \/ RLock(s) \/ Snapshot(s)
                               \/ Enqueue(s) \/ GiveUp(s)
         \/ TakeText \/ TakeBinary \/ Write
         \/ Quiet
BY DEF Next, Progress, WriteLoop, Housekeeping, Quiet

\* Snapshot and RLock keep the frame, or drop it when not connected.
LEMMA HandStep ==
  ASSUME TypeOK, NEW s \in Senders, RLock(s) \/ Snapshot(s) \/ GiveUp(s)
  PROVE  /\ UNCHANGED <<sendCh, binaryCh, accepted, rejected, sendSeq,
                        recvSeq, writer>>
         /\ \/ Hands' = Hands /\ dropped' = dropped
            \/ /\ Hands = Hands' \cup {InHand(s)}
               /\ dropped' = dropped \cup {InHand(s)}
               /\ ~connected \/ closed \/ at[s].kind = "binary"
<1>1. at[s].pc # "idle" /\ at[s] # Idle
  BY HandFacts DEF RLock, Snapshot, GiveUp
<1>2. UNCHANGED <<sendCh, binaryCh, accepted, rejected, sendSeq, recvSeq,
                  writer>>
  BY DEF RLock, Snapshot, GiveUp, peerVars, queueVars
<1>3. CASE RLock(s)
  BY <1>1, <1>2, <1>3, HoldFlow DEF RLock
<1>4. CASE Snapshot(s)
  BY <1>1, <1>2, <1>4, HoldFlow, LeaveFlow DEF Snapshot
<1>5. CASE GiveUp(s)
  BY <1>1, <1>2, <1>5, LeaveFlow DEF GiveUp, Woken
<1> QED BY <1>3, <1>4, <1>5

\* A frame goes from its sender's hands to the end of its queue.
LEMMA EnqueueFlow ==
  ASSUME TypeOK, OrderInv, NEW s \in Senders, Enqueue(s)
  PROVE  LET f == InHand(s) IN
         /\ Hands = Hands' \cup {f}
         /\ \A g \in Hands' : g.by # s
         /\ UNCHANGED <<accepted, rejected, dropped, sendSeq, recvSeq, writer>>
         /\ \/ /\ Elems(sendCh') = Elems(sendCh) \cup {f}
               /\ binaryCh' = binaryCh /\ f.kind = "text" /\ InOrder(sendCh')
            \/ /\ Elems(binaryCh') = Elems(binaryCh) \cup {f}
               /\ sendCh' = sendCh /\ f.kind = "binary" /\ InOrder(binaryCh')
<1> DEFINE f == InHand(s)
<1>1. at[s] # Idle /\ f \in Frames /\ f \in Hands
  BY HandFacts DEF Enqueue, Hands
<1>2. Hands = Hands' \cup {f} /\ \A g \in Hands' : g.by # s
  BY <1>1, LeaveFlow DEF Enqueue
<1>3. Before(Elems(sendCh), {f}) /\ Before(Elems(binaryCh), {f})
  BY <1>1 DEF OrderInv, HandIsBehind, Before
<1>4. f.kind = at[s].kind /\ f.by = s
  BY DEF InHand, Frame
<1>5. /\ Elems(QueueFrame(sendCh, f)) = Elems(sendCh) \cup {f}
      /\ Elems(QueueFrame(binaryCh, f)) = Elems(binaryCh) \cup {f}
      /\ InOrder(QueueFrame(sendCh, f)) /\ InOrder(QueueFrame(binaryCh, f))
  <2>1. sendCh \in Seq(Frames) /\ binaryCh \in Seq(Frames)
    BY DEF TypeOK
  <2>2. InOrder(sendCh) /\ InOrder(binaryCh)
    BY DEF OrderInv, QueuesInOrder
  <2> HIDE DEF f, Frames
  <2> QED BY <1>1, <1>3, <2>1, <2>2, AppendFacts
<1>6. \/ /\ at[s].kind = "binary"
         /\ binaryCh' = QueueFrame(binaryCh, f) /\ sendCh' = sendCh
      \/ /\ at[s].kind = "text"
         /\ sendCh' = QueueFrame(sendCh, f) /\ binaryCh' = binaryCh
  BY DEF Enqueue
<1>7. UNCHANGED <<accepted, rejected, dropped, sendSeq, recvSeq, writer>>
  BY DEF Enqueue, peerVars
<1> HIDE DEF f
<1>8. \/ /\ Elems(sendCh') = Elems(sendCh) \cup {f}
         /\ binaryCh' = binaryCh /\ f.kind = "text" /\ InOrder(sendCh')
      \/ /\ Elems(binaryCh') = Elems(binaryCh) \cup {f}
         /\ sendCh' = sendCh /\ f.kind = "binary" /\ InOrder(binaryCh')
  BY <1>4, <1>5, <1>6
<1> QED BY <1>2, <1>7, <1>8 DEF f

\* writeLoop takes the oldest frame of a queue.
LEMMA TakeFlow ==
  ASSUME TypeOK, OrderInv, TakeText \/ TakeBinary
  PROVE  \E f \in Frames :
         /\ Writing = {} /\ Writing' = {f}
         /\ UNCHANGED <<at, accepted, rejected, dropped, sendSeq, recvSeq>>
         /\ \/ /\ Elems(sendCh) = {f} \cup Elems(sendCh')
               /\ binaryCh' = binaryCh /\ f.kind = "text"
               /\ InOrder(sendCh') /\ Before({f}, Elems(sendCh'))
            \/ /\ Elems(binaryCh) = {f} \cup Elems(binaryCh')
               /\ sendCh' = sendCh /\ f.kind = "binary"
               /\ InOrder(binaryCh') /\ Before({f}, Elems(binaryCh'))
<1>1. /\ sendCh \in Seq(Frames) /\ binaryCh \in Seq(Frames)
      /\ InOrder(sendCh) /\ InOrder(binaryCh)
  BY DEF TypeOK, OrderInv, QueuesInOrder
<1>2. UNCHANGED <<at, accepted, rejected, dropped, sendSeq, recvSeq>>
  BY DEF TakeText, TakeBinary, peerVars
<1>3. CASE TakeText
  <2> DEFINE f == Head(sendCh)
  <2>1. sendCh # <<>> /\ sendCh' = Tail(sendCh) /\ binaryCh' = binaryCh
    BY <1>3 DEF TakeText
  <2>2. Writing = {} /\ Writing' = {f}
    BY <1>3 DEF TakeText, Writing
  <2>3. /\ f \in Frames /\ Elems(sendCh) = {f} \cup Elems(sendCh')
        /\ InOrder(sendCh') /\ Before({f}, Elems(sendCh'))
    <3> HIDE DEF Frames
    <3> QED BY <1>1, <2>1, TailFacts
  <2>4. f.kind = "text"
    BY <2>3 DEF OrderInv, Routed
  <2> HIDE DEF f, Frames
  <2> QED BY <1>2, <2>1, <2>2, <2>3, <2>4
<1>4. CASE TakeBinary
  <2> DEFINE f == Head(binaryCh)
  <2>1. binaryCh # <<>> /\ binaryCh' = Tail(binaryCh) /\ sendCh' = sendCh
    BY <1>4 DEF TakeBinary
  <2>2. Writing = {} /\ Writing' = {f}
    BY <1>4 DEF TakeBinary, Writing
  <2>3. /\ f \in Frames /\ Elems(binaryCh) = {f} \cup Elems(binaryCh')
        /\ InOrder(binaryCh') /\ Before({f}, Elems(binaryCh'))
    <3> HIDE DEF Frames
    <3> QED BY <1>1, <2>1, TailFacts
  <2>4. f.kind = "binary"
    BY <2>3 DEF OrderInv, Routed
  <2> HIDE DEF f, Frames
  <2> QED BY <1>2, <2>1, <2>2, <2>3, <2>4
<1> QED BY <1>3, <1>4

\* A write delivers the frame to the peer or loses it with the connection.
LEMMA WriteFlow ==
  ASSUME TypeOK, Write
  PROVE  /\ UNCHANGED <<at, sendCh, binaryCh, dropped, sendSeq>>
         /\ Writing' = {} /\ Writing = {writer.frame}
         /\ \/ /\ Delivered' = Delivered /\ (closed' \/ link # "up")
               /\ UNCHANGED <<accepted, rejected, recvSeq>>
            \/ /\ Delivered' = Delivered \cup {writer.frame}
               /\ Unwrap(writer.frame)
<1>1. UNCHANGED <<at, sendCh, binaryCh, dropped, sendSeq>>
  BY DEF Write, queueVars
<1>2. Writing' = {} /\ Writing = {writer.frame}
  BY DEF Write, Writing
<1>3. ASSUME Unwrap(writer.frame)
      PROVE  Delivered' = Delivered \cup {writer.frame}
  BY <1>3 DEF Unwrap, Delivered
<1> QED BY <1>1, <1>2, <1>3 DEF Write, Delivered, peerVars

-----------------------------------------------------------------------------
(***************************************************************************)
(* The frames of one goroutine stay in order.                              *)
(***************************************************************************)
LEMMA OrderStep == TypeOK /\ OrderInv /\ [Next]_vars => OrderInv'
<1> SUFFICES ASSUME TypeOK, OrderInv, [Next]_vars PROVE OrderInv'
  OBVIOUS
<1> DEFINE T == Elems(sendCh)
           B == Elems(binaryCh)
           U == Elems(sendCh')
           C == Elems(binaryCh')
           Ordered ==
             /\ \A f \in U : f.kind = "text"
             /\ \A f \in C : f.kind = "binary"
             /\ InOrder(sendCh') /\ InOrder(binaryCh')
             /\ Before(Writing', U \cup C)
             /\ Before(Writing' \cup U \cup C, Hands')
             /\ Before(Delivered', Underway')
<1>0. /\ \A f \in T : f.kind = "text"
      /\ \A f \in B : f.kind = "binary"
      /\ InOrder(sendCh) /\ InOrder(binaryCh)
      /\ Before(Writing, T \cup B)
      /\ Before(Writing \cup T \cup B, Hands)
      /\ Before(Delivered, Underway)
  BY DEF OrderInv, Routed, QueuesInOrder, WriterIsAhead, HandIsBehind,
         WireKeepsSenderOrder, Before, Same
<1>a. Ordered => OrderInv'
  BY DEF OrderInv, Routed, QueuesInOrder, WriterIsAhead, HandIsBehind,
         WireKeepsSenderOrder, Before, Same
<1>b. /\ Underway = Hands \cup T \cup B \cup Writing
      /\ Underway' = Hands' \cup U \cup C \cup Writing'
  BY UnderwayIs
<1>c. sendCh' = sendCh => U = T
  OBVIOUS
<1>d. binaryCh' = binaryCh => C = B
  OBVIOUS
<1>e. UNCHANGED <<accepted, rejected>> => Delivered' = Delivered
  BY DEF Delivered
<1> HIDE DEF T, B, U, C
<1>1. ASSUME NEW s \in Senders, Wrap(s) PROVE Ordered
  <2>0. PICK k \in KindsOf(s) :
          /\ Hands' = Hands \cup {Frame(s, sendSeq, k)} /\ Writing' = Writing
          /\ UNCHANGED <<sendCh, binaryCh, accepted, rejected>>
    BY <1>1, WrapFlow
  <2> DEFINE f == Frame(s, sendSeq, k)
  <2>1. /\ Hands' = Hands \cup {f} /\ Writing' = Writing
        /\ sendCh' = sendCh /\ binaryCh' = binaryCh
        /\ Delivered' = Delivered
    BY <2>0, <1>e
  <2>2. U = T /\ C = B /\ Underway' = Underway \cup {f}
    BY <2>1, <1>b, <1>c, <1>d
  <2>3. \A g \in Underway \cup Delivered : g.seq < f.seq
    BY UnderwayFacts DEF Frames, Frame, TypeOK
  <2> HIDE DEF f
  <2> QED BY <1>0, <1>b, <2>1, <2>2, <2>3 DEF Before, Same
<1>2. ASSUME NEW s \in Senders, RLock(s) \/ Snapshot(s) \/ GiveUp(s)
      PROVE  Ordered
  <2>1. /\ Hands' \subseteq Hands /\ writer' = writer
        /\ sendCh' = sendCh /\ binaryCh' = binaryCh
        /\ Delivered' = Delivered
    BY <1>2, <1>e, HandStep
  <2>2. U = T /\ C = B /\ Writing' = Writing /\ Underway' \subseteq Underway
    BY <2>1, <1>b, <1>c, <1>d DEF Writing
  <2> QED BY <1>0, <2>1, <2>2 DEF Before, Same
<1>3. ASSUME NEW s \in Senders, Enqueue(s) PROVE Ordered
  <2> DEFINE f == InHand(s)
  <2>1. /\ Hands = Hands' \cup {f}
        /\ \A g \in Hands' : g.by # f.by
        /\ writer' = writer /\ Delivered' = Delivered
        /\ \/ /\ U = T \cup {f} /\ binaryCh' = binaryCh
              /\ f.kind = "text" /\ InOrder(sendCh')
           \/ /\ C = B \cup {f} /\ sendCh' = sendCh
              /\ f.kind = "binary" /\ InOrder(binaryCh')
    BY <1>3, <1>e, EnqueueFlow DEF InHand, Frame, T, B, U, C
  <2> HIDE DEF f
  <2>2. Writing' = Writing /\ Underway' = Underway
    BY <2>1, <1>b, <1>c, <1>d DEF Writing
  <2> QED BY <1>0, <1>c, <1>d, <2>1, <2>2 DEF Before, Same
<1>4. ASSUME TakeText \/ TakeBinary PROVE Ordered
  <2>1. PICK f \in Frames :
          /\ Writing = {} /\ Writing' = {f}
          /\ Hands' = Hands /\ Delivered' = Delivered
          /\ \/ /\ T = {f} \cup U /\ binaryCh' = binaryCh /\ f.kind = "text"
                /\ InOrder(sendCh') /\ Before({f}, U)
             \/ /\ B = {f} \cup C /\ sendCh' = sendCh /\ f.kind = "binary"
                /\ InOrder(binaryCh') /\ Before({f}, C)
    BY <1>4, <1>e, TakeFlow DEF Hands, InHand, T, B, U, C
  <2>2. Underway' = Underway
    BY <2>1, <1>b, <1>c, <1>d
  <2>3. \A g \in U \cup C : Same(f, g) => f.seq < g.seq
    BY <1>0, <1>c, <1>d, <2>1 DEF Before, Same
  <2> QED BY <1>0, <1>c, <1>d, <2>1, <2>2, <2>3 DEF Before, Same
<1>5. ASSUME Write PROVE Ordered
  <2> DEFINE f == writer.frame
  <2>1. /\ Hands' = Hands /\ Writing' = {} /\ Writing = {f}
        /\ sendCh' = sendCh /\ binaryCh' = binaryCh
        /\ Delivered' \subseteq Delivered \cup {f}
    BY <1>5, WriteFlow DEF Hands, InHand
  <2>2. U = T /\ C = B
    BY <2>1, <1>c, <1>d
  <2> HIDE DEF f
  <2> QED BY <1>0, <1>b, <2>1, <2>2 DEF Before, Same
<1>6. ASSUME Quiet PROVE Ordered
  <2>1. /\ Hands' = Hands /\ Writing' = Writing
        /\ sendCh' = sendCh /\ binaryCh' = binaryCh
        /\ Delivered' = Delivered
    BY <1>6, <1>e, QuietFlow
  <2>2. U = T /\ C = B /\ Underway' = Underway
    BY <2>1, <1>b, <1>c, <1>d
  <2> QED BY <1>0, <2>1, <2>2
<1> QED
  <2> HIDE DEF Ordered
  <2> QED BY <1>a, <1>1, <1>2, <1>3, <1>4, <1>5, <1>6, Steps

LEMMA OrderInit == Init => OrderInv
<1> SUFFICES ASSUME Init PROVE OrderInv
  OBVIOUS
<1>1. /\ Elems(sendCh) = {} /\ Elems(binaryCh) = {} /\ Writing = {}
      /\ Hands = {} /\ Delivered = {} /\ DOMAIN sendCh = {}
      /\ DOMAIN binaryCh = {}
  BY DEF Init, Elems, Writing, Hands, Delivered
<1> QED
  BY <1>1 DEF OrderInv, Routed, QueuesInOrder, InOrder, WriterIsAhead,
     HandIsBehind, Before, WireKeepsSenderOrder

(***************************************************************************)
(* The frames of one goroutine and one kind reach the peer in the order    *)
(* they were wrapped, however the senders, the two queues, writeLoop and a *)
(* failing link interleave (SendRaw, SendBinaryCancelable, writeLoop).     *)
(***************************************************************************)
THEOREM WireKeepsOrder == RelaySpec => []WireKeepsSenderOrder
<1>1. Init => TypeOK /\ OrderInv
  BY TypeInit, OrderInit
<1>2. TypeOK /\ OrderInv /\ [Next]_vars => (TypeOK /\ OrderInv)'
  BY TypeStep, OrderStep
<1>3. OrderInv => WireKeepsSenderOrder
  BY DEF OrderInv
<1> QED BY <1>1, <1>2, <1>3, PTL DEF RelaySpec

-----------------------------------------------------------------------------
(***************************************************************************)
(* Nothing is lost while the connection works.                             *)
(***************************************************************************)
\* A link that failed and a connection that was closed stay so.
LEMMA NeverReopened ==
  ASSUME [Next]_vars
  PROVE  (closed => closed') /\ (link # "up" => link' # "up")
BY DEF Next, Progress, WriteLoop, Housekeeping, vars, linkVars, Wrap, RLock,
   Snapshot, Enqueue, GiveUp, TakeText, NoText, TakeBinary, WriterReturns,
   WriterLock, Write, CloseConn, ConnClosed, CloseByOwner, Receive,
   Handled, ReadFails, ReaderReturns, Pong, PingTick, LinkFails

\* readLoop's defer closes the connection it takes down.
LEMMA DownStep == TypeOK /\ DownIsClosed /\ [Next]_vars => DownIsClosed'
<1> SUFFICES ASSUME TypeOK, DownIsClosed, [Next]_vars PROVE DownIsClosed'
  OBVIOUS
<1>1. connected' = connected \/ closed' = TRUE
  BY DEF Next, Progress, WriteLoop, Housekeeping, vars, linkVars, Wrap, RLock,
     Snapshot, Enqueue, GiveUp, TakeText, NoText, TakeBinary, WriterReturns,
     WriterLock, Write, CloseConn, CloseByOwner, Receive,
     Handled, ReadFails, ReaderReturns, Pong, PingTick, LinkFails
<1>2. closed => closed'
  BY NeverReopened
<1> QED BY <1>1, <1>2 DEF DownIsClosed

\* A step numbers one frame more, or moves the frames there are; one is lost
\* only with the link or the connection.
LEMMA EverythingStep ==
  ASSUME TypeOK, OrderInv, DownIsClosed, [Next]_vars
  PROVE  \/ /\ sendSeq' = sendSeq + 1 /\ dropped' = dropped
            /\ \E f \in Frames' : /\ f.seq = sendSeq
                                  /\ Everything' = Everything \cup {f}
         \/ /\ sendSeq' = sendSeq /\ Everything' \subseteq Everything
            /\ Everything' = Everything \/ closed' \/ link' # "up"
            /\ \/ \A f \in dropped' : f \in dropped \/ f.kind = "binary"
               \/ closed'
<1> DEFINE T == Elems(sendCh)
           B == Elems(binaryCh)
           U == Elems(sendCh')
           C == Elems(binaryCh')
<1>a. /\ Everything = Hands \cup T \cup B \cup Writing
                      \cup Delivered \cup dropped
      /\ Everything' = Hands' \cup U \cup C \cup Writing'
                       \cup Delivered' \cup dropped'
  BY UnderwayIs DEF Everything
<1>b. sendCh' = sendCh => U = T
  OBVIOUS
<1>c. binaryCh' = binaryCh => C = B
  OBVIOUS
<1>d. UNCHANGED <<accepted, rejected>> => Delivered' = Delivered
  BY DEF Delivered
<1>e. writer' = writer => Writing' = Writing
  BY DEF Writing
<1>f. at' = at => Hands' = Hands
  BY DEF Hands, InHand
<1> HIDE DEF T, B, U, C
<1>1. ASSUME NEW s \in Senders, Wrap(s)
      PROVE  /\ sendSeq' = sendSeq + 1 /\ dropped' = dropped
             /\ \E f \in Frames' : /\ f.seq = sendSeq
                                   /\ Everything' = Everything \cup {f}
  <2>0. PICK k \in KindsOf(s) :
          /\ Hands' = Hands \cup {Frame(s, sendSeq, k)} /\ Writing' = Writing
          /\ UNCHANGED <<sendCh, binaryCh, accepted, rejected, dropped>>
    BY <1>1, WrapFlow
  <2>1. Frame(s, sendSeq, k) \in Frames' /\ sendSeq' = sendSeq + 1
    BY <1>1 DEF Wrap, Frames, Frame, TypeOK, KindsOf
  <2>2. Everything' = Everything \cup {Frame(s, sendSeq, k)}
    BY <2>0, <1>a, <1>b, <1>c, <1>d
  <2>3. Frame(s, sendSeq, k).seq = sendSeq
    BY DEF Frame
  <2> HIDE DEF Frames
  <2> QED BY <1>1, <2>1, <2>2, <2>3 DEF Wrap
<1>2. ASSUME NEW s \in Senders, RLock(s) \/ Snapshot(s) \/ GiveUp(s)
      PROVE  /\ sendSeq' = sendSeq /\ Everything' = Everything
             /\ \/ \A f \in dropped' : f \in dropped \/ f.kind = "binary"
                \/ closed'
  <2>1. Everything' = Everything /\ sendSeq' = sendSeq
    BY <1>2, <1>a, <1>b, <1>c, <1>d, <1>e, HandStep
  <2>2. closed => closed'
    BY NeverReopened
  <2>3. InHand(s).kind = at[s].kind
    BY DEF InHand, Frame
  <2> QED BY <1>2, <2>1, <2>2, <2>3, HandStep DEF DownIsClosed
<1>3. ASSUME NEW s \in Senders, Enqueue(s)
      PROVE  /\ sendSeq' = sendSeq /\ Everything' = Everything
             /\ dropped' = dropped
  BY <1>3, <1>a, <1>b, <1>c, <1>d, <1>e, EnqueueFlow DEF T, B, U, C
<1>4. ASSUME TakeText \/ TakeBinary
      PROVE  /\ sendSeq' = sendSeq /\ Everything' = Everything
             /\ dropped' = dropped
  BY <1>4, <1>a, <1>b, <1>c, <1>d, <1>f, TakeFlow DEF T, B, U, C
<1>5. ASSUME Write
      PROVE  /\ sendSeq' = sendSeq /\ Everything' \subseteq Everything
             /\ Everything' = Everything \/ closed' \/ link' # "up"
             /\ dropped' = dropped
  <2>1. link' = link
    BY <1>5 DEF Write
  <2> QED BY <1>5, <1>a, <1>b, <1>c, <1>f, <2>1, WriteFlow
<1>6. ASSUME Quiet
      PROVE  /\ sendSeq' = sendSeq /\ Everything' = Everything
             /\ dropped' = dropped
  BY <1>6, <1>a, <1>b, <1>c, <1>d, QuietFlow
<1> QED BY <1>1, <1>2, <1>3, <1>4, <1>5, <1>6, Steps

\* No two frames have the same number.
LEMMA NumberedStep ==
  TypeOK /\ OrderInv /\ DownIsClosed /\ NumberedOnce /\ [Next]_vars
    => NumberedOnce'
<1> SUFFICES ASSUME TypeOK, OrderInv, DownIsClosed, NumberedOnce, [Next]_vars
             PROVE  NumberedOnce'
  OBVIOUS
<1>1. \A f \in Everything : f.seq < sendSeq
  BY UnderwayFacts DEF Frames, TypeOK
<1>2. CASE \E f \in Frames' : /\ f.seq = sendSeq
                              /\ Everything' = Everything \cup {f}
  BY <1>1, <1>2 DEF NumberedOnce, TypeOK
<1>3. CASE Everything' \subseteq Everything
  BY <1>3 DEF NumberedOnce
<1> QED BY <1>2, <1>3, EverythingStep

\* While the link is up and the connection open the numbers in use have no
\* gap, and only binary frames were given up.
LEMMA NothingLostStep ==
  /\ TypeOK /\ OrderInv /\ DownIsClosed /\ NothingLostWhileUp /\ [Next]_vars
  => NothingLostWhileUp'
<1> SUFFICES ASSUME TypeOK, OrderInv, DownIsClosed, NothingLostWhileUp,
                    [Next]_vars, (link = "up")', ~closed'
             PROVE  /\ SeqsOf(Everything') = 0..(sendSeq' - 1)
                    /\ \A f \in dropped' : f.kind = "binary"
  BY DEF NothingLostWhileUp, Everything
<1>1. /\ SeqsOf(Everything) = 0..(sendSeq - 1)
      /\ \A f \in dropped : f.kind = "binary"
  BY NeverReopened DEF NothingLostWhileUp, Everything
<1>2. CASE /\ sendSeq' = sendSeq + 1 /\ dropped' = dropped
           /\ \E f \in Frames' : /\ f.seq = sendSeq
                                 /\ Everything' = Everything \cup {f}
  <2>1. PICK f \in Frames' : /\ f.seq = sendSeq
                             /\ Everything' = Everything \cup {f}
    BY <1>2
  <2>2. SeqsOf(Everything') = SeqsOf(Everything) \cup {sendSeq}
    BY <2>1 DEF SeqsOf
  <2>3. sendSeq \in Nat
    BY DEF TypeOK
  <2>4. 0..(sendSeq + 1 - 1) = (0..(sendSeq - 1)) \cup {sendSeq}
    BY <2>3
  <2>5. sendSeq' - 1 = sendSeq + 1 - 1
    BY <1>2, <2>3
  <2>6. SeqsOf(Everything') = 0..(sendSeq' - 1)
    BY <1>1, <2>2, <2>4, <2>5
  <2>7. \A g \in dropped' : g.kind = "binary"
    BY <1>1, <1>2
  <2> QED BY <2>6, <2>7
<1>3. CASE /\ sendSeq' = sendSeq /\ Everything' = Everything
           /\ \A f \in dropped' : f \in dropped \/ f.kind = "binary"
  BY <1>1, <1>3
<1> QED BY <1>2, <1>3, EverythingStep

\* The peer's number is the largest it has seen, and of a frame it took.
LEMMA PeerStep ==
  TypeOK /\ PeerRemembers /\ [Next]_vars => PeerRemembers'
<1> SUFFICES ASSUME TypeOK, PeerRemembers, [Next]_vars PROVE PeerRemembers'
  OBVIOUS
<1>1. CASE UNCHANGED peerVars
  BY <1>1 DEF PeerRemembers, peerVars, Delivered
<1>2. CASE Write /\ Unwrap(writer.frame)
  <2>1. writer.frame.seq \in Nat /\ recvSeq \in Int
    BY <1>2, WriterFacts DEF Write, Frames, TypeOK
  <2>2. \A f \in Delivered : f.seq \in Nat
    BY UnderwayFacts DEF Frames
  <2>3. CASE writer.frame.seq <= recvSeq
    BY <1>2, <2>1, <2>2, <2>3
       DEF PeerRemembers, Unwrap, Delivered, SeqsOf
  <2>4. CASE ~(writer.frame.seq <= recvSeq)
    BY <1>2, <2>1, <2>2, <2>4
       DEF PeerRemembers, Unwrap, Delivered, SeqsOf
  <2> QED BY <2>3, <2>4
<1> QED
  BY <1>1, <1>2
     DEF Next, Progress, WriteLoop, Housekeeping, vars, Wrap, RLock,
     Snapshot, Enqueue, GiveUp, TakeText, NoText, TakeBinary, WriterReturns,
     WriterLock, Write, CloseConn, CloseByOwner, Receive,
     Handled, ReadFails, ReaderReturns, Pong, PingTick, LinkFails

\* A frame is refused because the peer has taken a later one, and that one
\* is not of the same goroutine and kind.
LEMMA RejectedStep ==
  /\ TypeOK /\ OrderInv /\ NumberedOnce /\ PeerRemembers
  /\ RejectedWereOvertaken /\ [Next]_vars
  => RejectedWereOvertaken'
<1> SUFFICES ASSUME TypeOK, OrderInv, NumberedOnce, PeerRemembers,
                    RejectedWereOvertaken, [Next]_vars
             PROVE  RejectedWereOvertaken'
  OBVIOUS
<1>1. CASE UNCHANGED peerVars
  BY <1>1 DEF RejectedWereOvertaken, peerVars
<1>2. CASE Write /\ Unwrap(writer.frame)
  <2> DEFINE f == writer.frame
  <2>1. /\ f \in Underway /\ f \in Frames /\ recvSeq \in Int
        /\ accepted \subseteq Delivered /\ accepted \subseteq Everything
        /\ f \in Everything /\ accepted \subseteq Frames
    BY <1>2, WriterFacts, UnderwayIs
       DEF Write, Writing, Everything, Delivered, TypeOK
  <2>2. f.seq \in Nat /\ \A g \in accepted : g.seq \in Nat
    BY <2>1 DEF Frames
  <2>3. ASSUME f.seq <= recvSeq
        PROVE  \E g \in accepted :
                 (g.by # f.by \/ g.kind # f.kind) /\ f.seq < g.seq
    <3>1. PICK g \in accepted : g.seq = recvSeq
      BY <2>2, <2>3 DEF PeerRemembers, SeqsOf
    <3>2. g.by # f.by \/ g.kind # f.kind
      <4>1. g.by = f.by /\ g.kind = f.kind => g.seq < f.seq
        BY <2>1 DEF OrderInv, WireKeepsSenderOrder
      <4> QED BY <2>2, <2>3, <3>1, <4>1
    <3>3. g.seq # f.seq
      BY <2>1, <3>2 DEF NumberedOnce
    <3> QED BY <2>1, <2>2, <2>3, <3>1, <3>2, <3>3
  <2>4. accepted \subseteq accepted'
    BY <1>2 DEF Unwrap
  <2>5. \/ rejected' = rejected
        \/ f.seq <= recvSeq /\ rejected' = rejected \cup {f}
    BY <1>2 DEF Unwrap
  <2> HIDE DEF f
  <2> QED BY <2>3, <2>4, <2>5 DEF RejectedWereOvertaken
<1> QED
  BY <1>1, <1>2
     DEF Next, Progress, WriteLoop, Housekeeping, vars, Wrap, RLock,
     Snapshot, Enqueue, GiveUp, TakeText, NoText, TakeBinary, WriterReturns,
     WriterLock, Write, CloseConn, CloseByOwner, Receive,
     Handled, ReadFails, ReaderReturns, Pong, PingTick, LinkFails

LEMMA FlowInit ==
  Init => /\ DownIsClosed /\ NumberedOnce /\ PeerRemembers
          /\ NothingLostWhileUp /\ RejectedWereOvertaken
<1> SUFFICES ASSUME Init
             PROVE  /\ DownIsClosed /\ NumberedOnce /\ PeerRemembers
                    /\ NothingLostWhileUp /\ RejectedWereOvertaken
  OBVIOUS
<1>1. Everything = {} /\ Delivered = {} /\ rejected = {} /\ dropped = {}
  <2>1. Elems(sendCh) = {} /\ Elems(binaryCh) = {}
    BY DEF Init, Elems
  <2>2. Hands = {} /\ Writing = {}
    BY DEF Init, Hands, Writing
  <2> QED BY <2>1, <2>2, UnderwayIs DEF Init, Everything, Delivered
<1>2. 0..(0 - 1) = {}
  OBVIOUS
<1> QED
  BY <1>1, <1>2
     DEF Init, DownIsClosed, NumberedOnce, PeerRemembers, NothingLostWhileUp,
         RejectedWereOvertaken, Everything, SeqsOf

(***************************************************************************)
(* While the link is up and nobody has closed the connection every number  *)
(* given out is with its sender, in a queue, with writeLoop or at the      *)
(* peer, and only a cancelled transfer gave frames up (SendJSON, SendRaw,  *)
(* SendBinaryCancelable).                                                  *)
(***************************************************************************)
THEOREM NothingLost == RelaySpec => []NothingLostWhileUp
<1> DEFINE Inv == TypeOK /\ OrderInv /\ DownIsClosed /\ NothingLostWhileUp
<1>1. Init => Inv
  BY TypeInit, OrderInit, FlowInit
<1>2. Inv /\ [Next]_vars => Inv'
  BY TypeStep, OrderStep, DownStep, NothingLostStep
<1>3. Inv => NothingLostWhileUp
  OBVIOUS
<1> QED BY <1>1, <1>2, <1>3, PTL DEF RelaySpec

(***************************************************************************)
(* A frame the peer refuses as a replay was overtaken by one it took, of   *)
(* another goroutine or of the other kind: within one goroutine's frames   *)
(* of one kind nothing is ever refused because of themselves (WrapJSON and *)
(* WrapBinary number under c.mu, the two queues come after, and writeLoop  *)
(* takes text first).                                                      *)
(***************************************************************************)
THEOREM RefusedWereOvertaken == RelaySpec => []RejectedWereOvertaken
<1> DEFINE Inv == /\ TypeOK /\ OrderInv /\ DownIsClosed /\ NumberedOnce
                  /\ PeerRemembers /\ RejectedWereOvertaken
<1>1. Init => Inv
  BY TypeInit, OrderInit, FlowInit
<1>2. Inv /\ [Next]_vars => Inv'
  BY TypeStep, OrderStep, DownStep, NumberedStep, PeerStep, RejectedStep
<1>3. Inv => RejectedWereOvertaken
  OBVIOUS
<1> QED BY <1>1, <1>2, <1>3, PTL DEF RelaySpec

=============================================================================
