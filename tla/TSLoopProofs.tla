---------------------------- MODULE TSLoopProofs ----------------------------
(***************************************************************************)
(* Proofs about the supervisor of the relay connection, for any number of  *)
(* local clients and of connections.                                       *)
(***************************************************************************)
EXTENDS TSLoop, FiniteSetTheorems, TLAPS

-----------------------------------------------------------------------------
(***************************************************************************)
(* The inductive invariant, in parts.                                      *)
(***************************************************************************)
\* Once a call has reached startTSRelay there is a key, and main carries the
\* one it loaded.
KeyOf(c) == IF c = Main THEN call[c].key ELSE c

KeyKnown ==
    /\ loops # <<>> \/ (\E c \in Callers : call[c].pc \in {"start", "wait"})
         => accessKey \in Clients
    /\ At(Main, "store") => call[Main] \in [pc : {"store"}, key : Clients]

CurrentIsSet == current = None <=> loops = <<>>

\* Unless two callers raced, one of them waits at most, for the loop that
\* runs, and no other loop does.
OneLoop ==
    ~raced =>
        /\ \A c, d \in Callers : At(c, "wait") /\ At(d, "wait") => c = d
        /\ \A c \in Callers : At(c, "wait") => call[c].old = current
        /\ \A l \in Live : l = current

\* An open connection is the one of a loop that still runs.
Holds(l, r) == loops[l].pc \in {"replace", "wait"} /\ loops[l].relay = r
OpenIsHeld == \A r \in Open : \E l \in LoopIds : Holds(l, r)

\* The key a loop connects or has connected with.
UsesKey(l, k) ==
    /\ loops[l].pc = "connect" => loops[l].key = k
    /\ loops[l].pc \in {"replace", "wait"} => relays[loops[l].relay].key = k

\* A loop runs with accessKey, unless a call is about to replace it.
KeyInUse ==
    ~raced =>
        \/ \E c \in Callers : call[c].pc \in {"start", "wait"}
        \/ \A l \in Live : UsesKey(l, accessKey)

\* Calls that do not overlap leave the saved key in accessKey.
KeySaved ==
    ~crossed =>
        /\ \A c \in Callers : At(c, "store") => KeyOf(c) = saved
        /\ \/ accessKey \in {NoKey, saved}
           \/ \E c \in Callers : At(c, "store")
        /\ \A c, d \in Callers : InCall(c) /\ InCall(d) => c = d

LoopInv ==
    /\ TypeOK /\ KeyKnown /\ CurrentIsSet
    /\ OneLoop /\ OpenIsHeld /\ KeyInUse /\ KeySaved /\ StoppedIsTrue

-----------------------------------------------------------------------------
(***************************************************************************)
(* What the types say.                                                     *)
(***************************************************************************)
CallStates(L) ==
    [pc : {"idle", "store", "start", "done"}]
    \cup [pc : {"store"}, key : Clients] \cup [pc : {"wait"}, old : L]
LoopStates(R) ==
    [pc : {"check", "dial", "sleep", "done"}]
    \cup [pc : {"connect"}, key : Clients]
    \cup [pc : {"replace", "wait"}, relay : R]
RelayStates == [key : Clients, open : BOOLEAN]
DoneCallers == {c \in Callers : At(c, "done")}

\* The type invariant in terms of these sets.
LEMMA Types ==
  TypeOK <=>
    /\ saved \in {NoKey} \cup Clients /\ accessKey \in {NoKey} \cup Clients
    /\ call \in [Callers -> CallStates(LoopIds)]
    /\ current \in LoopIds \cup {None}
    /\ loops \in Seq(LoopStates(RelayIds))
    /\ Len(loops) <= Cardinality(DoneCallers)
    /\ cancelled \subseteq LoopIds
    /\ relays \in Seq(RelayStates)
    /\ wsRelay \in RelayIds \cup {None}
    /\ connState \in {"", "connecting", "connected", "stopped"}
    /\ stop \in {"no", "cancel", "close", "done"}
    /\ raced \in BOOLEAN /\ crossed \in BOOLEAN /\ fatal \in BOOLEAN
BY DEF TypeOK, CallStates, LoopStates, RelayStates, DoneCallers

\* A caller that waits remembers a loop there is.
LEMMA CallFacts ==
  ASSUME TypeOK, NEW c \in Callers
  PROVE  /\ call[c] \in CallStates(LoopIds)
         /\ call[c].pc \in {"idle", "store", "start", "done", "wait"}
         /\ At(c, "wait") => call[c].old \in LoopIds
<1>1. call[c] \in CallStates(LoopIds)
  BY Types
<1>2. CASE call[c] \in [pc : {"idle", "store", "start", "done"}]
  BY <1>1, <1>2 DEF At
<1>3. CASE call[c] \in [pc : {"store"}, key : Clients]
  BY <1>1, <1>3 DEF At
<1>4. CASE call[c] \in [pc : {"wait"}, old : LoopIds]
  BY <1>1, <1>4 DEF At
<1> QED BY <1>1, <1>2, <1>3, <1>4 DEF CallStates

\* What a state of a loop holds, whatever the connections.
LEMMA StateFacts ==
  ASSUME NEW R, NEW x \in LoopStates(R)
  PROVE  /\ x.pc \in {"check", "dial", "sleep", "done", "connect",
                      "replace", "wait"}
         /\ x.pc = "connect" => x.key \in Clients
         /\ x.pc \in {"replace", "wait"} => x.relay \in R
<1>1. CASE x \in [pc : {"check", "dial", "sleep", "done"}]
  BY <1>1
<1>2. CASE x \in [pc : {"connect"}, key : Clients]
  BY <1>2
<1>3. CASE x \in [pc : {"replace", "wait"}, relay : R]
  BY <1>3
<1> QED BY <1>1, <1>2, <1>3 DEF LoopStates

\* A loop that connects has a key, one that is connected a connection.
LEMMA LoopFacts ==
  ASSUME TypeOK, NEW l \in LoopIds
  PROVE  /\ loops[l] \in LoopStates(RelayIds)
         /\ loops[l].pc \in {"check", "dial", "sleep", "done", "connect",
                             "replace", "wait"}
         /\ loops[l].pc = "connect" => loops[l].key \in Clients
         /\ loops[l].pc \in {"replace", "wait"} => loops[l].relay \in RelayIds
<1>1. loops \in Seq(LoopStates(RelayIds))
  BY Types
<1>2. loops[l] \in LoopStates(RelayIds)
  BY <1>1 DEF LoopIds
<1> QED BY <1>2, StateFacts

\* More loops, and more connections, only add states.
LEMMA StatesGrow ==
  /\ \A L, M : L \subseteq M => CallStates(L) \subseteq CallStates(M)
  /\ \A R, Q : R \subseteq Q => LoopStates(R) \subseteq LoopStates(Q)
BY DEF CallStates, LoopStates

\* The states the steps put a caller or a loop in.
LEMMA MakeState ==
  /\ \A L : \A pc \in {"idle", "store", "start", "done"} :
        [pc |-> pc] \in CallStates(L)
  /\ \A L : \A k \in Clients : [pc |-> "store", key |-> k] \in CallStates(L)
  /\ \A L : \A o \in L : [pc |-> "wait", old |-> o] \in CallStates(L)
  /\ \A R : \A pc \in {"check", "dial", "sleep", "done"} :
        [pc |-> pc] \in LoopStates(R)
  /\ \A R : \A k \in Clients : [pc |-> "connect", key |-> k] \in LoopStates(R)
  /\ \A R : \A r \in R : \A pc \in {"replace", "wait"} :
        [pc |-> pc, relay |-> r] \in LoopStates(R)
BY DEF CallStates, LoopStates

-----------------------------------------------------------------------------
(***************************************************************************)
(* The operators of the model.                                             *)
(***************************************************************************)
\* A sequence with one element replaced.
LEMMA ExceptFacts ==
  ASSUME NEW S, NEW q \in Seq(S), NEW i \in DOMAIN q, NEW x \in S, NEW r,
         r = [q EXCEPT ![i] = x]
  PROVE  /\ r \in Seq(S) /\ DOMAIN r = DOMAIN q /\ Len(r) = Len(q)
         /\ r[i] = x /\ \A j \in DOMAIN q \ {i} : r[j] = q[j]
OBVIOUS

\* A sequence with one element more.
LEMMA AppendFacts ==
  ASSUME NEW S, NEW q \in Seq(S), NEW x \in S, NEW r, r = Append(q, x)
  PROVE  /\ r \in Seq(S) /\ Len(r) = Len(q) + 1 /\ Len(q) \in Nat
         /\ DOMAIN q = 1..Len(q) /\ DOMAIN r = DOMAIN q \cup {Len(r)}
         /\ Len(r) \notin DOMAIN q
         /\ r[Len(r)] = x /\ \A j \in DOMAIN q : r[j] = q[j]
OBVIOUS

\* Closing connections keeps them and their keys.
LEMMA ClosingFacts ==
  ASSUME TypeOK, NEW S, NEW q, q = Closing(S)
  PROVE  /\ q \in Seq(RelayStates) /\ DOMAIN q = RelayIds
         /\ \A r \in RelayIds :
              /\ q[r].key = relays[r].key
              /\ q[r].open <=> relays[r].open /\ r \notin S
<1>1. relays \in Seq(RelayStates)
  BY Types
<1>2. /\ DOMAIN relays = 1..Len(relays) /\ Len(relays) \in Nat
      /\ \A r \in 1..Len(relays) : relays[r] \in RelayStates
  BY <1>1
<1>3. /\ DOMAIN q = 1..Len(relays)
      /\ \A r \in 1..Len(relays) :
            q[r] = [relays[r] EXCEPT !.open = @ /\ r \notin S]
  BY <1>2 DEF Closing, RelayIds
<1>4. \A r \in 1..Len(relays) :
        /\ q[r] \in RelayStates
        /\ q[r].key = relays[r].key
        /\ q[r].open <=> relays[r].open /\ r \notin S
  BY ZenonT(60), <1>2, <1>3 DEF RelayStates
<1>5. q = [r \in 1..Len(relays) |-> q[r]]
  BY <1>2 DEF Closing, RelayIds
<1>6. q \in Seq(RelayStates)
  <2> HIDE DEF RelayStates
  <2> QED BY <1>2, <1>4, <1>5
<1> QED BY <1>2, <1>3, <1>4, <1>6 DEF RelayIds

\* There is one more caller done for every loop started.
LEMMA DoneGrows ==
  ASSUME TypeOK, NEW c \in Callers, ~At(c, "done"),
         DoneCallers' = DoneCallers \cup {c}
  PROVE  Len(loops) + 1 <= Cardinality(DoneCallers')
<1>1. IsFiniteSet(Callers)
  BY LoopAssumption, FS_AddElement DEF Callers
<1>2. IsFiniteSet(DoneCallers)
  BY <1>1, FS_Subset DEF DoneCallers
<1>3. c \notin DoneCallers
  BY DEF DoneCallers
<1>4. Cardinality(DoneCallers') = Cardinality(DoneCallers) + 1
  BY <1>2, <1>3, FS_AddElement
<1>5. Cardinality(DoneCallers) \in Nat
  BY <1>2, FS_CardinalityType
<1>6. Len(loops) <= Cardinality(DoneCallers)
  BY Types
<1>7. Len(loops) \in Nat
  <2>1. loops \in Seq(LoopStates(RelayIds))
    BY Types
  <2> QED BY <2>1
<1> QED BY <1>4, <1>5, <1>6, <1>7

-----------------------------------------------------------------------------
(***************************************************************************)
(* What the steps do, as far as the invariant depends on it.               *)
(***************************************************************************)
\* A step of a loop changes that loop alone, never a caller; it opens a
\* connection only to hold it and forgets one only when it is closed.
LEMMA LoopStep ==
  ASSUME TypeOK, KeyKnown, NEW l \in LoopIds, Loop(l)
  PROVE  /\ UNCHANGED loopFrame
         /\ LoopIds' = LoopIds /\ Len(loops') = Len(loops)
         /\ loops[l].pc # "done"
         /\ \A m \in LoopIds \ {l} : loops'[m] = loops[m]
         /\ relays' \in Seq(RelayStates) /\ RelayIds \subseteq RelayIds'
         /\ loops' \in Seq(LoopStates(RelayIds'))
         /\ \A r \in RelayIds : /\ relays'[r].key = relays[r].key
                                /\ relays'[r].open => relays[r].open
         /\ \A r \in RelayIds' : relays'[r].open =>
              \/ r \notin RelayIds /\ Holds(l, r)'
              \/ r \in RelayIds /\ (Holds(l, r) => Holds(l, r)')
         /\ UsesKey(l, accessKey) => UsesKey(l, accessKey)'
<1> DEFINE S == LoopStates(RelayIds)
<1>0. /\ loops \in Seq(S) /\ relays \in Seq(RelayStates)
      /\ DOMAIN loops = LoopIds /\ DOMAIN relays = RelayIds
  BY Types DEF LoopIds, RelayIds
<1>1. accessKey \in Clients
  BY DEF KeyKnown, LoopIds
<1>2. /\ UNCHANGED loopFrame /\ loops[l].pc # "done"
  BY DEF Loop, LeaveAtTop, Connecting, Dial, ConnectOK, ConnectFatal,
     ConnectFails, ReplaceRelay, LeaveConnected, Disconnected, LeaveAsleep,
     WakeUp, Step, Done
<1> DEFINE Effect ==
      /\ LoopIds' = LoopIds /\ Len(loops') = Len(loops)
      /\ \A m \in LoopIds \ {l} : loops'[m] = loops[m]
      /\ relays' \in Seq(RelayStates) /\ RelayIds \subseteq RelayIds'
      /\ loops' \in Seq(LoopStates(RelayIds'))
      /\ \A r \in RelayIds : /\ relays'[r].key = relays[r].key
                             /\ relays'[r].open => relays[r].open
      /\ \A r \in RelayIds' : relays'[r].open =>
           \/ r \notin RelayIds /\ Holds(l, r)'
           \/ r \in RelayIds /\ (Holds(l, r) => Holds(l, r)')
      /\ UsesKey(l, accessKey) => UsesKey(l, accessKey)'
<1> HIDE DEF S
<1>3. ASSUME NEW x \in S, loops' = [loops EXCEPT ![l] = x]
      PROVE  /\ LoopIds' = LoopIds /\ Len(loops') = Len(loops)
             /\ \A m \in LoopIds \ {l} : loops'[m] = loops[m]
             /\ loops' \in Seq(S) /\ loops'[l] = x
  BY <1>0, <1>3, ExceptFacts DEF LoopIds
\* The steps between two connections.
<1>4. ASSUME NEW x \in S, loops' = [loops EXCEPT ![l] = x],
             loops[l].pc \notin {"replace", "wait"},
             x.pc \notin {"replace", "wait"},
             x.pc = "connect" => x.key = accessKey, relays' = relays
      PROVE  Effect
  <2>1. RelayIds' = RelayIds /\ loops' \in Seq(LoopStates(RelayIds'))
    BY <1>3, <1>4 DEF RelayIds, S
  <2>2. \A r \in RelayIds : ~Holds(l, r)
    BY <1>4 DEF Holds
  <2>3. UsesKey(l, accessKey)'
    BY <1>2, <1>3, <1>4 DEF UsesKey, loopFrame, keyVars
  <2> QED BY <1>0, <1>3, <1>4, <2>1, <2>2, <2>3
<1>5. CASE \/ LeaveAtTop(l) \/ Connecting(l) \/ Dial(l) \/ ConnectFatal(l)
           \/ ConnectFails(l) \/ LeaveAsleep(l) \/ WakeUp(l)
  <2>1. PICK x \in S :
          /\ loops' = [loops EXCEPT ![l] = x]
          /\ x.pc \notin {"replace", "wait"}
          /\ x.pc = "connect" => x.key = accessKey
    <3>1. CASE Dial(l)
      <4>1. [pc |-> "connect", key |-> accessKey] \in S
        BY <1>1, MakeState DEF S
      <4> QED BY <3>1, <4>1 DEF Dial, Step, DialKey
    <3>2. CASE \/ LeaveAtTop(l) \/ Connecting(l) \/ ConnectFatal(l)
               \/ ConnectFails(l) \/ LeaveAsleep(l) \/ WakeUp(l)
      <4>1. \A pc \in {"check", "dial", "sleep", "done"} : [pc |-> pc] \in S
        BY MakeState DEF S
      <4> QED
        BY <3>2, <4>1
           DEF LeaveAtTop, Connecting, ConnectFatal, ConnectFails,
               LeaveAsleep, WakeUp, Step, Done
    <3> QED BY <1>5, <3>1, <3>2
  <2>2. loops[l].pc \notin {"replace", "wait"} /\ relays' = relays
    BY <1>5
       DEF LeaveAtTop, Connecting, Dial, ConnectFatal, ConnectFails,
           LeaveAsleep, WakeUp, Step
  <2>3. Effect
    BY <1>4, <2>1, <2>2
  <2> QED BY <1>2, <2>3
<1>6. CASE ConnectOK(l)
  <2>0. PICK n : n = Len(relays) + 1
    OBVIOUS
  <2> DEFINE x == [pc |-> "replace", relay |-> n]
             y == [key |-> loops[l].key, open |-> TRUE]
  <2>1. /\ loops' = [loops EXCEPT ![l] = x] /\ relays' = Append(relays, y)
        /\ loops[l].pc = "connect"
    BY <1>6, <2>0 DEF ConnectOK, Step
  <2>2. y \in RelayStates
    BY <2>1, LoopFacts DEF RelayStates
  <2>3. /\ relays' \in Seq(RelayStates) /\ RelayIds' = RelayIds \cup {n}
        /\ n \notin RelayIds /\ relays'[n] = y
        /\ \A r \in RelayIds : relays'[r] = relays[r]
    <3> HIDE DEF y, RelayStates
    <3> QED BY <1>0, <2>0, <2>1, <2>2, AppendFacts DEF RelayIds
  <2>4. x \in LoopStates(RelayIds') /\ loops \in Seq(LoopStates(RelayIds'))
    <3>1. LoopStates(RelayIds) \subseteq LoopStates(RelayIds')
      BY <2>3, StatesGrow
    <3>2. x \in LoopStates(RelayIds')
      BY <2>3, MakeState
    <3> QED BY <1>0, <3>1, <3>2 DEF S
  <2>5. /\ LoopIds' = LoopIds /\ Len(loops') = Len(loops)
        /\ \A m \in LoopIds \ {l} : loops'[m] = loops[m]
        /\ loops' \in Seq(LoopStates(RelayIds')) /\ loops'[l] = x
    <3> HIDE DEF x
    <3> QED BY <2>1, <2>4, ExceptFacts DEF LoopIds
  <2>6. Holds(l, n)' /\ \A r \in RelayIds : ~Holds(l, r)
    BY <2>1, <2>5 DEF Holds
  <2>7. UsesKey(l, accessKey) => UsesKey(l, accessKey)'
    <3>1. /\ loops'[l].pc = "replace" /\ loops'[l].relay = n
          /\ relays'[n].key = loops[l].key /\ accessKey' = accessKey
      BY <1>2, <2>3, <2>5 DEF loopFrame, keyVars
    <3> QED BY <2>1, <3>1 DEF UsesKey
  <2>8. Effect
    BY <2>3, <2>5, <2>6, <2>7
  <2> QED BY <1>2, <2>8
\* The steps of a loop that is connected.
<1>7. ASSUME NEW x \in S, loops' = [loops EXCEPT ![l] = x],
             loops[l].pc \in {"replace", "wait"}, NEW D,
             relays' = Closing(D),
             \/ loops[l].relay \in D /\ x.pc \in {"done", "sleep"}
             \/ x.pc = "wait" /\ x.relay = loops[l].relay
      PROVE  Effect
  <2>1. loops[l].relay \in RelayIds
    BY <1>7, LoopFacts
  <2>2. /\ relays' \in Seq(RelayStates) /\ RelayIds' = RelayIds
        /\ \A r \in RelayIds : /\ relays'[r].key = relays[r].key
                               /\ relays'[r].open <=>
                                     relays[r].open /\ r \notin D
    BY <1>7, ClosingFacts DEF RelayIds
  <2>3. loops' \in Seq(LoopStates(RelayIds'))
    BY <1>3, <1>7, <2>2 DEF S
  <2>4. \A r \in RelayIds : relays'[r].open => (Holds(l, r) => Holds(l, r)')
    BY <1>3, <1>7, <2>2 DEF Holds
  <2>5. UsesKey(l, accessKey) => UsesKey(l, accessKey)'
    BY <1>2, <1>3, <1>7, <2>1, <2>2 DEF UsesKey, loopFrame, keyVars
  <2> QED BY <1>3, <1>7, <2>2, <2>3, <2>4, <2>5
<1>8. CASE ReplaceRelay(l)
  <2> DEFINE r == loops[l].relay
             x == [pc |-> "wait", relay |-> r]
  <2>1. /\ loops' = [loops EXCEPT ![l] = x] /\ loops[l].pc = "replace"
        /\ relays' = Closing({wsRelay} \ {r})
    BY <1>8 DEF ReplaceRelay, Step
  <2>2. x \in S /\ x.pc = "wait" /\ x.relay = r
    BY <2>1, LoopFacts, MakeState DEF S
  <2> HIDE DEF x
  <2>3. Effect
    BY <1>7, <2>1, <2>2
  <2> QED BY <1>2, <2>3
<1>9. CASE LeaveConnected(l)
  <2>1. /\ loops' = [loops EXCEPT ![l] = Done] /\ loops[l].pc = "wait"
        /\ relays' = Closing({loops[l].relay})
    BY <1>9 DEF LeaveConnected, Step, OwnRelayClosed
  <2>2. Done \in S /\ Done.pc = "done"
    BY MakeState DEF S, Done
  <2>3. Effect
    BY <1>7, <2>1, <2>2
  <2> QED BY <1>2, <2>3
<1>10. CASE Disconnected(l)
  <2> DEFINE r == loops[l].relay
             x == [pc |-> "sleep"]
  <2>1. /\ loops' = [loops EXCEPT ![l] = x] /\ loops[l].pc = "wait"
        /\ relays' = relays /\ ~relays[r].open
    BY <1>10 DEF Disconnected, Step
  <2>2. x \in S /\ x.pc = "sleep"
    BY MakeState DEF S
  <2> HIDE DEF x
  <2>3. RelayIds' = RelayIds /\ loops' \in Seq(LoopStates(RelayIds'))
    BY <1>3, <2>1, <2>2 DEF RelayIds, S
  <2>4. \A q \in RelayIds : relays[q].open => ~Holds(l, q)
    BY <2>1 DEF Holds
  <2>5. UsesKey(l, accessKey)'
    BY <1>3, <2>1, <2>2 DEF UsesKey
  <2>6. Effect
    BY <1>0, <1>3, <2>1, <2>2, <2>3, <2>4, <2>5
  <2> QED BY <1>2, <2>6
<1> QED BY <1>5, <1>6, <1>8, <1>9, <1>10 DEF Loop

\* A step of a caller changes that caller alone.
LEMMA CallerMoves ==
  ASSUME TypeOK, NEW c \in Callers, NEW x, LoopIds \subseteq LoopIds',
         x \in CallStates(LoopIds'), call' = [call EXCEPT ![c] = x]
  PROVE  /\ call' \in [Callers -> CallStates(LoopIds')]
         /\ call'[c] = x
         /\ \A d \in Callers \ {c} : call'[d] = call[d]
         /\ x.pc # "done" /\ ~At(c, "done") => DoneCallers' = DoneCallers
         /\ x.pc = "done" => DoneCallers' = DoneCallers \cup {c}
<1>1. call \in [Callers -> CallStates(LoopIds)]
  BY Types
<1>2. call \in [Callers -> CallStates(LoopIds')]
  BY <1>1, StatesGrow
<1>3. /\ call' \in [Callers -> CallStates(LoopIds')]
      /\ call'[c] = x
      /\ \A d \in Callers \ {c} : call'[d] = call[d]
  BY <1>2
<1> QED BY <1>3 DEF DoneCallers, At

\* A new loop has just begun; the others and the connections are untouched.
LEMMA NewLoopFacts ==
  ASSUME TypeOK, NewLoop = loops', relays' = relays
  PROVE  /\ loops' \in Seq(LoopStates(RelayIds'))
         /\ LoopIds' = LoopIds \cup {Len(loops')}
         /\ Len(loops') \notin LoopIds /\ Len(loops') = Len(loops) + 1
         /\ loops' # <<>> /\ loops'[Len(loops')] = [pc |-> "check"]
         /\ \A m \in LoopIds : loops'[m] = loops[m]
<1> DEFINE S == LoopStates(RelayIds)
<1>1. loops \in Seq(S) /\ [pc |-> "check"] \in S
  BY Types, MakeState
<1>2. S = LoopStates(RelayIds')
  BY DEF RelayIds
<1>3. loops' = Append(loops, [pc |-> "check"])
  BY DEF NewLoop
<1> HIDE DEF S
<1>4. /\ loops' \in Seq(S) /\ LoopIds' = LoopIds \cup {Len(loops')}
      /\ Len(loops') \notin LoopIds /\ Len(loops') = Len(loops) + 1
      /\ loops'[Len(loops')] = [pc |-> "check"]
      /\ \A m \in LoopIds : loops'[m] = loops[m]
      /\ Len(loops) \in Nat
  BY <1>1, <1>3, AppendFacts DEF LoopIds
<1>5. loops' # <<>>
  BY <1>4
<1> QED BY <1>2, <1>4, <1>5

\* The steps that give a caller a key.
LEMMA KeyStep ==
  ASSUME LoopInv, NEW c \in Callers,
         SaveKey(c) \/ (c = Main /\ LoadKey) \/ StoreKey(c)
  PROVE  LoopInv'
<1> USE DEF LoopInv
<1>1. /\ UNCHANGED <<current, loops, cancelled, relays, wsRelay, connState,
                     stop, raced, fatal>>
      /\ LoopIds' = LoopIds /\ RelayIds' = RelayIds
  BY DEF SaveKey, LoadKey, StoreKey, ghostVars, LoopIds, RelayIds
<1>2. /\ ~At(c, "done") /\ ~At(c, "wait") /\ ~At(c, "start")
      /\ call[c].pc \in {"idle", "store"}
  BY DEF SaveKey, LoadKey, StoreKey, At
<1>3. /\ saved \in {NoKey} \cup Clients
      /\ (c = Main /\ StoreKey(c)) => call[c].key \in Clients
      /\ c # Main => c \in Clients
      /\ Main \in Callers /\ NoKey \notin Callers /\ Clients \subseteq Callers
  <2>1. (c = Main /\ StoreKey(c)) => call[c].key \in Clients
    BY DEF KeyKnown, StoreKey
  <2> QED BY <2>1, Types, LoopAssumption DEF Callers
<1>4. \E x \in CallStates(LoopIds') :
        /\ call' = [call EXCEPT ![c] = x]
        /\ \/ /\ SaveKey(c) /\ x = [pc |-> "store"]
           \/ /\ c = Main /\ LoadKey /\ x = [pc |-> "store", key |-> saved]
              /\ saved \in Clients
           \/ /\ StoreKey(c) /\ x = [pc |-> "start"]
  <2>1. /\ [pc |-> "store"] \in CallStates(LoopIds')
        /\ [pc |-> "start"] \in CallStates(LoopIds')
        /\ saved \in Clients
             => [pc |-> "store", key |-> saved] \in CallStates(LoopIds')
    BY MakeState
  <2>2. CASE SaveKey(c)
    BY <2>1, <2>2 DEF SaveKey, Goto, AfterSave
  <2>3. CASE c = Main /\ LoadKey
    <3>1. saved \in Clients
      BY <1>3, <2>3 DEF LoadKey
    <3> QED BY <2>1, <2>3, <3>1 DEF LoadKey
  <2>4. CASE StoreKey(c)
    BY <2>1, <2>4 DEF StoreKey, Goto
  <2> QED BY <2>2, <2>3, <2>4
<1>5. PICK x \in CallStates(LoopIds') :
        /\ call' = [call EXCEPT ![c] = x]
        /\ \/ /\ SaveKey(c) /\ x = [pc |-> "store"]
           \/ /\ c = Main /\ LoadKey /\ x = [pc |-> "store", key |-> saved]
              /\ saved \in Clients
           \/ /\ StoreKey(c) /\ x = [pc |-> "start"]
  BY <1>4
<1>6. /\ call' \in [Callers -> CallStates(LoopIds')]
      /\ call'[c] = x
      /\ \A d \in Callers \ {c} : call'[d] = call[d]
      /\ DoneCallers' = DoneCallers
  <2>1. x.pc # "done"
    BY <1>5
  <2> QED BY <1>1, <1>2, <1>5, <2>1, CallerMoves
<1>7. TypeOK'
  <2>1. /\ saved' \in {NoKey} \cup Clients
        /\ accessKey' \in {NoKey} \cup Clients
        /\ crossed' \in BOOLEAN
    BY <1>3, <1>5, Types DEF SaveKey, LoadKey, StoreKey, keyVars, ghostVars
  <2> QED BY <1>1, <1>6, <2>1, Types DEF TypeOK, CallStates, DoneCallers
<1>8. KeyKnown'
  <2>1. CASE StoreKey(c)
    <3>1. accessKey' \in Clients
      BY <1>3, <2>1 DEF StoreKey
    <3>2. At(Main, "store")' => c # Main /\ At(Main, "store")
      BY <1>3, <1>5, <1>6, <2>1 DEF At, StoreKey, SaveKey, LoadKey
    <3>3. At(Main, "store")' => call'[Main] = call[Main]
      BY <1>3, <1>6, <3>2
    <3> QED BY <3>1, <3>2, <3>3 DEF KeyKnown
  <2>2. CASE SaveKey(c) \/ (c = Main /\ LoadKey)
    <3>1. accessKey' = accessKey /\ loops' = loops
      BY <1>1, <2>2 DEF SaveKey, LoadKey, keyVars
    <3>2. \A d \in Callers : call'[d].pc \in {"start", "wait"}
                               => call[d].pc \in {"start", "wait"}
      BY <1>5, <1>6, <2>2 DEF At, StoreKey, SaveKey, LoadKey
    <3>3. CASE c = Main
      <4>1. x = [pc |-> "store", key |-> saved] /\ saved \in Clients
        BY <1>5, <2>2, <3>3, LoopAssumption
           DEF At, StoreKey, SaveKey, LoadKey
      <4>2. call'[Main] \in [pc : {"store"}, key : Clients]
        BY <1>6, <3>3, <4>1
      <4> QED BY <3>1, <3>2, <4>2 DEF KeyKnown
    <3>4. CASE c # Main
      <4>1. call'[Main] = call[Main]
        BY <1>3, <1>6, <3>4
      <4> QED BY <3>1, <3>2, <4>1 DEF KeyKnown, At
    <3> QED BY <3>3, <3>4
  <2> QED BY <2>1, <2>2, <1>5
<1>9. CurrentIsSet' /\ StoppedIsTrue'
  BY <1>1 DEF CurrentIsSet, StoppedIsTrue, Live, LoopIds, StopSeen
<1>10. \A d \in Callers : At(d, "wait")' => At(d, "wait") /\ call'[d] = call[d]
  BY <1>5, <1>6 DEF At
<1>11. OneLoop'
  BY <1>1, <1>10 DEF OneLoop, Live, LoopIds
<1>12. OpenIsHeld'
  BY <1>1 DEF OpenIsHeld, Open, Holds, LoopIds, RelayIds
<1>13. KeyInUse'
  <2>1. CASE StoreKey(c)
    BY <1>5, <1>6, <2>1 DEF KeyInUse, StoreKey, SaveKey, LoadKey, At
  <2>2. CASE SaveKey(c) \/ (c = Main /\ LoadKey)
    <3>1. accessKey' = accessKey
      BY <2>2 DEF SaveKey, LoadKey, keyVars
    <3>2. \A d \in Callers : call[d].pc \in {"start", "wait"}
                               => call'[d].pc \in {"start", "wait"}
      BY <1>2, <1>6 DEF At
    <3> QED BY <1>1, <3>1, <3>2 DEF KeyInUse, UsesKey, Live, LoopIds
  <2> QED BY <2>1, <2>2, <1>5
<1>14. KeySaved'
  <2>1. \A d \in Callers \ {c} : KeyOf(d)' = KeyOf(d)
    BY <1>6 DEF KeyOf
  <2>2. \A d \in Callers \ {c} : /\ At(d, "store")' <=> At(d, "store")
                                 /\ InCall(d)' <=> InCall(d)
    BY <1>6 DEF At, InCall
  <2>3. CASE StoreKey(c)
    <3>1. crossed' = crossed /\ saved' = saved /\ ~At(c, "store")'
      BY <1>5, <1>6, <2>3 DEF StoreKey, ghostVars, At, SaveKey, LoadKey
    <3>2. At(c, "store") /\ accessKey' = KeyOf(c) /\ InCall(c)
      BY <2>3 DEF StoreKey, KeyOf, At, InCall
    <3> QED BY <2>1, <2>2, <3>1, <3>2 DEF KeySaved
  <2>4. CASE SaveKey(c) \/ (c = Main /\ LoadKey)
    <3>1. /\ KeyOf(c)' = saved' /\ At(c, "store")'
      BY <1>3, <1>5, <1>6, <2>4, LoopAssumption
         DEF SaveKey, LoadKey, KeyOf, At, keyVars, StoreKey
    <3>2. ~crossed' => ~crossed /\ \A d \in Callers \ {c} : ~InCall(d)
      BY <2>4, LoopAssumption DEF SaveKey, LoadKey, Callers
    <3>3. \A d \in Callers : At(d, "store") => InCall(d)
      BY DEF At, InCall
    <3> QED BY <2>1, <2>2, <3>1, <3>2, <3>3 DEF KeySaved
  <2> QED BY <2>3, <2>4, <1>5
<1> QED
  BY <1>7, <1>8, <1>9, <1>11, <1>12, <1>13, <1>14

\* A loop that is started, by the first caller or in place of the old one.
LEMMA NewLoopStep ==
  ASSUME LoopInv, NEW c \in Callers,
         \/ StartRelay(c) /\ current = None
         \/ ReplaceLoop(c)
  PROVE  LoopInv'
<1> USE DEF LoopInv
<1> DEFINE n == Len(loops')
<1>1. /\ UNCHANGED <<saved, accessKey, relays, wsRelay, connState, stop,
                     cancelled, raced, crossed, fatal>>
      /\ call' = [call EXCEPT ![c] = [pc |-> "done"]]
      /\ loops' = NewLoop /\ current' = n
      /\ call[c].pc \in {"start", "wait"}
  BY DEF StartRelay, ReplaceLoop, Goto, At, keyVars, ghostVars
<1>2. /\ loops' \in Seq(LoopStates(RelayIds'))
      /\ LoopIds' = LoopIds \cup {n}
      /\ n \notin LoopIds /\ n = Len(loops) + 1
      /\ loops' # <<>> /\ loops'[n] = [pc |-> "check"]
      /\ \A m \in LoopIds : loops'[m] = loops[m]
  BY <1>1, NewLoopFacts
<1>3. /\ call' \in [Callers -> CallStates(LoopIds')]
      /\ call'[c] = [pc |-> "done"]
      /\ \A d \in Callers \ {c} : call'[d] = call[d]
      /\ DoneCallers' = DoneCallers \cup {c}
  <2> DEFINE x == [pc |-> "done"]
  <2>1. x \in CallStates(LoopIds') /\ x.pc = "done"
    BY MakeState
  <2> HIDE DEF x
  <2>2. /\ call' \in [Callers -> CallStates(LoopIds')]
        /\ call'[c] = x
        /\ \A d \in Callers \ {c} : call'[d] = call[d]
        /\ DoneCallers' = DoneCallers \cup {c}
    BY <1>1, <1>2, <2>1, CallerMoves DEF x
  <2> QED BY <2>2 DEF x
<1>4. RelayIds' = RelayIds
  BY <1>1 DEF RelayIds
<1>5. TypeOK'
  <2>1. Len(loops') <= Cardinality(DoneCallers')
    BY <1>1, <1>2, <1>3, DoneGrows DEF At
  <2>2. current' \in LoopIds' /\ cancelled' \subseteq LoopIds'
    BY <1>1, <1>2, Types
  <2> QED
    BY <1>1, <1>2, <1>3, <1>4, <2>1, <2>2, Types
       DEF TypeOK, CallStates, LoopStates, DoneCallers
<1>6. accessKey \in Clients
  BY <1>1 DEF KeyKnown
<1>7. KeyKnown'
  BY <1>1, <1>3, <1>6 DEF KeyKnown, At
<1>8. CurrentIsSet'
  <2>1. n \in Nat /\ None \notin Nat
    BY <1>2, LoopAssumption
  <2> QED BY <1>1, <1>2, <2>1 DEF CurrentIsSet
<1>9. ~raced => Live' = {n} /\ \A d \in Callers : ~At(d, "wait")'
  <2> SUFFICES ASSUME ~raced
               PROVE  Live' = {n} /\ \A d \in Callers : ~At(d, "wait")'
    OBVIOUS
  <2>1. Live = {} /\ \A d \in Callers \ {c} : ~At(d, "wait")
    <3>1. CASE StartRelay(c) /\ current = None
      <4>1. LoopIds = {}
        BY <3>1 DEF CurrentIsSet, LoopIds
      <4>2. \A d \in Callers : ~At(d, "wait")
        BY <4>1, CallFacts
      <4> QED BY <4>1, <4>2 DEF Live
    <3>2. CASE ReplaceLoop(c)
      <4>1. At(c, "wait") /\ call[c].old = current
        BY <3>2 DEF ReplaceLoop, OneLoop
      <4>2. loops[current].pc = "done"
        BY <3>2, <4>1 DEF ReplaceLoop, OldLoopDone
      <4>3. Live = {}
        BY <4>2 DEF OneLoop, Live
      <4> QED BY <4>1, <4>3 DEF OneLoop
    <3> QED BY <3>1, <3>2
  <2>2. Live' = {n}
    BY <1>2, <2>1 DEF Live
  <2> QED BY <1>3, <2>1, <2>2 DEF At
<1>10. OneLoop'
  BY <1>1, <1>9 DEF OneLoop
<1>11. OpenIsHeld'
  <2>1. \A l \in LoopIds, r \in RelayIds : Holds(l, r) => Holds(l, r)'
    BY <1>2 DEF Holds
  <2> QED BY <1>1, <1>2, <1>4, <2>1 DEF OpenIsHeld, Open
<1>12. KeyInUse'
  BY <1>1, <1>2, <1>9 DEF KeyInUse, UsesKey
<1>13. KeySaved'
  <2>1. \A d \in Callers : /\ At(d, "store")' <=> At(d, "store")
                           /\ InCall(d)' => InCall(d)
    BY <1>1, <1>3 DEF At, InCall
  <2>2. \A d \in Callers \ {c} : KeyOf(d)' = KeyOf(d)
    BY <1>3 DEF KeyOf
  <2>3. ~At(c, "store")
    BY <1>1 DEF At
  <2> QED BY <1>1, <2>1, <2>2, <2>3 DEF KeySaved
<1>14. StoppedIsTrue'
  <2>1. ~raced => \A l \in Live' : loops'[l].pc = "check"
    BY <1>2, <1>9
  <2> QED BY <1>1, <2>1 DEF StoppedIsTrue, StopSeen
<1> QED
  BY <1>5, <1>7, <1>8, <1>10, <1>11, <1>12, <1>13, <1>14

\* A call that finds a loop cancels it and waits.
LEMMA CancelLoopStep ==
  ASSUME LoopInv, NEW c \in Callers, StartRelay(c), current # None
  PROVE  LoopInv'
<1> USE DEF LoopInv
<1> DEFINE x == [pc |-> "wait", old |-> current]
<1>1. /\ UNCHANGED <<saved, accessKey, relays, wsRelay, connState, stop,
                     loops, current, crossed, fatal>>
      /\ call' = [call EXCEPT ![c] = x] /\ At(c, "start")
      /\ cancelled' = cancelled \cup {current}
      /\ raced' = (raced \/ \E d \in Callers : At(d, "wait"))
  BY DEF StartRelay, keyVars
<1>2. LoopIds' = LoopIds /\ RelayIds' = RelayIds /\ current \in LoopIds
  BY <1>1, Types DEF LoopIds, RelayIds
<1>3. x \in CallStates(LoopIds') /\ x.pc = "wait" /\ x.old = current
  BY <1>2, MakeState
<1> HIDE DEF x
<1>4. /\ call' \in [Callers -> CallStates(LoopIds')]
      /\ call'[c] = x
      /\ \A d \in Callers \ {c} : call'[d] = call[d]
      /\ DoneCallers' = DoneCallers
  BY <1>1, <1>2, <1>3, CallerMoves DEF At
<1>5. TypeOK'
  <2>1. raced' \in BOOLEAN
    BY <1>1
  <2> QED
    BY <1>1, <1>2, <1>4, <2>1, Types DEF TypeOK, CallStates, DoneCallers
<1>6. accessKey \in Clients
  BY <1>1 DEF KeyKnown, At
<1>7. \A d \in Callers : /\ At(d, "store")' <=> At(d, "store")
                         /\ InCall(d)' <=> InCall(d)
                         /\ At(d, "store") => call'[d] = call[d]
  BY <1>1, <1>3, <1>4 DEF At, InCall
<1>8. Main \in Callers
  BY DEF Callers
<1>9. KeyKnown' /\ CurrentIsSet'
  BY <1>1, <1>6, <1>7, <1>8 DEF KeyKnown, CurrentIsSet
<1>10. OneLoop'
  BY <1>1, <1>3, <1>4 DEF OneLoop, At, Live, LoopIds
<1>11. OpenIsHeld'
  BY <1>1 DEF OpenIsHeld, Open, Holds, LoopIds, RelayIds
<1>12. KeyInUse'
  BY <1>3, <1>4 DEF KeyInUse
<1>13. KeySaved'
  BY <1>1, <1>7 DEF KeySaved, KeyOf
<1>14. StoppedIsTrue'
  BY <1>1 DEF StoppedIsTrue, StopSeen, Live, LoopIds
<1> QED
  BY <1>5, <1>9, <1>10, <1>11, <1>12, <1>13, <1>14

\* The user is shown "stopped" only by a loop that leaves for good; another
\* loop that runs has to connect first.
LEMMA StoppedStep ==
  ASSUME LoopInv, NEW l \in LoopIds, Loop(l), UNCHANGED loopFrame,
         LoopIds' = LoopIds, loops[l].pc # "done",
         \A m \in LoopIds \ {l} : loops'[m] = loops[m]
  PROVE  StoppedIsTrue'
<1>1. UNCHANGED <<stop, raced>> /\ (fatal => fatal')
  BY DEF loopFrame, Loop, LeaveAtTop, Connecting, Dial, ConnectOK,
     ConnectFatal, ConnectFails, ReplaceRelay, LeaveConnected, Disconnected,
     LeaveAsleep, WakeUp
<1>2. ~raced => \A m \in LoopIds \ {l} : loops[m].pc = "done"
  BY DEF LoopInv, OneLoop, Live
<1>3. connState = "stopped" =>
        (StopSeen \/ fatal) /\ (raced \/ loops[l].pc = "check")
  BY DEF LoopInv, StoppedIsTrue, Live
<1>4. \A x : loops' = [loops EXCEPT ![l] = x] => loops'[l] = x
  <2>1. loops \in Seq(LoopStates(RelayIds))
    BY Types DEF LoopInv
  <2> QED BY <2>1 DEF LoopIds
<1>5. CASE LeaveAtTop(l) \/ LeaveConnected(l) \/ LeaveAsleep(l)
           \/ ConnectFatal(l)
  <2>1. loops'[l].pc = "done"
    BY <1>4, <1>5
       DEF LeaveAtTop, LeaveConnected, LeaveAsleep, ConnectFatal, Step, Done
  <2>2. ~raced' => Live' = {}
    BY <1>1, <1>2, <2>1 DEF Live
  <2>3. connState' = "stopped" => StopSeen \/ fatal'
    BY <1>1, <1>3, <1>5
       DEF LeaveAtTop, LeaveConnected, LeaveAsleep, ConnectFatal, Leave,
           LeaveCancelled
  <2> QED BY <1>1, <2>2, <2>3 DEF StoppedIsTrue, StopSeen
<1>6. CASE Connecting(l) \/ ReplaceRelay(l)
  <2>1. connState' # "stopped"
    BY <1>6 DEF Connecting, ReplaceRelay
  <2> QED BY <2>1 DEF StoppedIsTrue
<1>7. CASE \/ Dial(l) \/ ConnectOK(l) \/ ConnectFails(l) \/ Disconnected(l)
           \/ WakeUp(l)
  <2>1. connState' = connState /\ loops[l].pc # "check"
    BY <1>7 DEF Dial, ConnectOK, ConnectFails, Disconnected, WakeUp, Step
  <2> QED BY <1>1, <1>3, <2>1 DEF StoppedIsTrue, StopSeen
<1> QED BY <1>5, <1>6, <1>7 DEF Loop

\* A step of a loop keeps the invariant.
LEMMA LoopRuns ==
  ASSUME LoopInv, NEW l \in LoopIds, Loop(l)
  PROVE  LoopInv'
<1>1. /\ UNCHANGED <<saved, accessKey, call, current, cancelled, stop, raced,
                     crossed>>
      /\ LoopIds' = LoopIds /\ Len(loops') = Len(loops)
      /\ loops[l].pc # "done"
      /\ \A m \in LoopIds \ {l} : loops'[m] = loops[m]
      /\ relays' \in Seq(RelayStates) /\ RelayIds \subseteq RelayIds'
      /\ loops' \in Seq(LoopStates(RelayIds'))
      /\ \A r \in RelayIds : /\ relays'[r].key = relays[r].key
                             /\ relays'[r].open => relays[r].open
      /\ \A r \in RelayIds' : relays'[r].open =>
           \/ r \notin RelayIds /\ Holds(l, r)'
           \/ r \in RelayIds /\ (Holds(l, r) => Holds(l, r)')
      /\ UsesKey(l, accessKey) => UsesKey(l, accessKey)'
  BY LoopStep DEF LoopInv, loopFrame, keyVars
<1>2. TypeOK /\ TypeOK'
  <2>1. TypeOK
    BY DEF LoopInv
  <2>2. wsRelay' \in RelayIds' \cup {None}
    <3>1. wsRelay' \in {wsRelay, None} \/ ReplaceRelay(l)
      BY DEF Loop, LeaveAtTop, Connecting, Dial, ConnectOK, ConnectFatal,
         ConnectFails, LeaveConnected, Disconnected, LeaveAsleep, WakeUp
    <3>2. ReplaceRelay(l) => wsRelay' \in RelayIds
      BY <2>1, LoopFacts DEF ReplaceRelay, Step
    <3> QED BY <1>1, <2>1, <3>1, <3>2, Types
  <2>3. /\ connState' \in {"", "connecting", "connected", "stopped"}
        /\ fatal' \in BOOLEAN
    BY <2>1, Types
       DEF Loop, LeaveAtTop, Connecting, Dial, ConnectOK, ConnectFatal,
         ConnectFails, ReplaceRelay, LeaveConnected, Disconnected,
         LeaveAsleep, WakeUp, Leave, LeaveCancelled
  <2>4. DoneCallers' = DoneCallers
    BY <1>1 DEF DoneCallers, At
  <2> QED
    BY <1>1, <2>1, <2>2, <2>3, <2>4, Types
       DEF TypeOK, CallStates, LoopStates, RelayStates, DoneCallers
<1>3. loops' # <<>> <=> loops # <<>>
  <2>1. loops \in Seq(LoopStates(RelayIds))
    BY <1>2, Types
  <2> QED BY <1>1, <2>1
<1>4. KeyKnown' /\ CurrentIsSet' /\ KeySaved'
  BY <1>1, <1>3
     DEF LoopInv, KeyKnown, CurrentIsSet, KeySaved, KeyOf, At, InCall
<1>5. Live' \subseteq Live
  BY <1>1 DEF Live
<1>6. OneLoop'
  BY <1>1, <1>5 DEF LoopInv, OneLoop, At
<1>7. OpenIsHeld'
  <2>1. \A m \in LoopIds \ {l} : \A r : Holds(m, r) => Holds(m, r)'
    BY <1>1 DEF Holds
  <2>2. \A r \in RelayIds : relays'[r].open => \E m \in LoopIds : Holds(m, r)
    BY <1>1 DEF LoopInv, OpenIsHeld, Open
  <2> QED BY <1>1, <2>1, <2>2 DEF OpenIsHeld, Open
<1>8. KeyInUse'
  <2>1. \A m \in LoopIds : UsesKey(m, accessKey) => UsesKey(m, accessKey)'
    <3> SUFFICES ASSUME NEW m \in LoopIds \ {l}, UsesKey(m, accessKey)
                 PROVE  UsesKey(m, accessKey)'
      BY <1>1
    <3>1. loops[m].pc \in {"replace", "wait"} => loops[m].relay \in RelayIds
      BY <1>2, LoopFacts
    <3> QED BY <1>1, <3>1 DEF UsesKey
  <2> QED BY <1>1, <1>5, <2>1 DEF LoopInv, KeyInUse, Live
<1>9. StoppedIsTrue'
  BY <1>1, StoppedStep DEF loopFrame, keyVars
<1> QED BY <1>2, <1>4, <1>6, <1>7, <1>8, <1>9 DEF LoopInv

\* A lost connection, and Stop, only close connections.
LEMMA EnvironmentStep ==
  ASSUME LoopInv,
         \/ \E r \in RelayIds : ConnectionLost(r)
         \/ Stop
         \/ UNCHANGED vars
  PROVE  LoopInv'
<1> USE DEF LoopInv
<1>1. /\ UNCHANGED <<saved, accessKey, call, current, loops, wsRelay,
                     connState, raced, crossed, fatal>>
      /\ relays' = relays \/ \E S : relays' = Closing(S)
      /\ StopSeen => StopSeen'
      /\ stop' \in {stop, "cancel", "close", "done"}
      /\ cancelled' \subseteq cancelled \cup ({current} \ {None})
  BY DEF ConnectionLost, Stop, CloseStopCh, StopCancels, StopCloses, vars,
     keyVars, ghostVars, StopSeen
<1>2. relays \in Seq(RelayStates)
  BY Types
<1>3. /\ relays' \in Seq(RelayStates) /\ RelayIds' = RelayIds
      /\ \A r \in RelayIds : /\ relays'[r].key = relays[r].key
                             /\ relays'[r].open => relays[r].open
  <2>1. CASE relays' = relays
    BY <1>2, <2>1 DEF RelayIds
  <2>2. CASE \E S : relays' = Closing(S)
    BY <2>2, ClosingFacts DEF RelayIds
  <2> QED BY <1>1, <2>1, <2>2
<1>4. LoopIds' = LoopIds
  BY <1>1 DEF LoopIds
<1>5. TypeOK'
  <2>1. cancelled' \subseteq LoopIds'
    BY <1>1, <1>4, Types
  <2>2. stop' \in {"no", "cancel", "close", "done"}
    BY <1>1, Types
  <2>3. DoneCallers' = DoneCallers
    BY <1>1 DEF DoneCallers, At
  <2> QED
    BY <1>1, <1>3, <1>4, <2>1, <2>2, <2>3, Types
       DEF TypeOK, CallStates, LoopStates, RelayStates, DoneCallers
<1>6. KeyKnown' /\ CurrentIsSet' /\ KeySaved' /\ OneLoop'
  BY <1>1 DEF KeyKnown, CurrentIsSet, KeySaved, OneLoop, KeyOf, At, InCall,
     Live, LoopIds
<1>7. OpenIsHeld'
  BY <1>1, <1>3, <1>4 DEF OpenIsHeld, Open, Holds
<1>8. KeyInUse'
  <2>1. \A m \in LoopIds : UsesKey(m, accessKey) => UsesKey(m, accessKey)'
    <3>1. \A m \in LoopIds :
            loops[m].pc \in {"replace", "wait"} => loops[m].relay \in RelayIds
      BY LoopFacts
    <3> QED BY <1>1, <1>3, <3>1 DEF UsesKey
  <2>2. Live' = Live
    BY <1>1, <1>4 DEF Live
  <2> QED BY <1>1, <2>1, <2>2 DEF KeyInUse, Live
<1>9. StoppedIsTrue'
  BY <1>1, <1>4 DEF StoppedIsTrue, Live
<1> QED BY <1>5, <1>6, <1>7, <1>8, <1>9

\* Every step keeps the invariant.
LEMMA LoopInvStep == LoopInv /\ [Next]_vars => LoopInv'
<1> SUFFICES ASSUME LoopInv, [Next]_vars PROVE LoopInv'
  OBVIOUS
<1>1. Main \in Callers
  BY DEF Callers
<1> QED
  BY <1>1, KeyStep, NewLoopStep, CancelLoopStep, LoopRuns, EnvironmentStep
     DEF Next, Caller

\* The invariant holds initially.
LEMMA LoopInvInit == Init => LoopInv
<1> SUFFICES ASSUME Init PROVE LoopInv
  OBVIOUS
<1>1. /\ LoopIds = {} /\ RelayIds = {} /\ Live = {} /\ Open = {}
      /\ \A c \in Callers : call[c] = [pc |-> "idle"]
  <2>1. LoopIds = {} /\ RelayIds = {}
    <3>1. loops = <<>> /\ relays = <<>>
      BY DEF Init
    <3>2. DOMAIN <<>> = {}
      OBVIOUS
    <3> QED BY <3>1, <3>2 DEF LoopIds, RelayIds
  <2> QED BY <2>1 DEF Init, Live, Open
<1>2. TypeOK
  <2>1. call \in [Callers -> CallStates(LoopIds)]
    BY MakeState DEF Init
  <2>2. /\ loops \in Seq(LoopStates(RelayIds))
        /\ relays \in Seq(RelayStates) /\ Len(loops) = 0
    <3> HIDE DEF LoopStates, RelayStates
    <3>1. \A S : <<>> \in Seq(S)
      OBVIOUS
    <3> QED BY <3>1 DEF Init
  <2>3. DoneCallers = {}
    BY <1>1 DEF DoneCallers, At
  <2>4. Len(loops) <= Cardinality(DoneCallers)
    BY <2>2, <2>3, FS_EmptySet
  <2> QED BY <1>1, <2>1, <2>2, <2>4, Types DEF Init
<1>3. KeyKnown /\ CurrentIsSet /\ KeySaved
  BY <1>1 DEF Init, KeyKnown, CurrentIsSet, KeySaved, At, InCall, Callers
<1>4. OneLoop /\ OpenIsHeld /\ KeyInUse /\ StoppedIsTrue
  BY <1>1 DEF Init, OneLoop, OpenIsHeld, KeyInUse, StoppedIsTrue, At
<1> QED BY <1>2, <1>3, <1>4 DEF LoopInv

LEMMA Invariance == LoopSpec => []LoopInv
BY LoopInvInit, LoopInvStep, PTL DEF LoopSpec

-----------------------------------------------------------------------------
(***************************************************************************)
(* The theorems.                                                           *)
(***************************************************************************)
(***************************************************************************)
(* The types; in particular no more loops were ever started than calls of  *)
(* startTSRelay have returned.                                             *)
(***************************************************************************)
THEOREM TypeCorrect == LoopSpec => []TypeOK
<1>1. LoopInv => TypeOK
  BY DEF LoopInv
<1> QED BY <1>1, Invariance, PTL

(***************************************************************************)
(* There are never two connections to the turn server at once, unless two  *)
(* callers of startTSRelay waited for the same old loop.                   *)
(***************************************************************************)
THEOREM OneConnection == LoopSpec => []SingleConnection
<1>1. LoopInv => SingleConnection
  <2> SUFFICES ASSUME LoopInv, ~raced PROVE Cardinality(Open) <= 1
    BY DEF SingleConnection
  <2>1. \A r \in Open : Holds(current, r)
    BY DEF LoopInv, OpenIsHeld, OneLoop, Live, Holds
  <2>2. Open \subseteq {loops[current].relay}
    BY <2>1 DEF Holds
  <2>3. Open = {} => Cardinality(Open) = 0
    BY FS_EmptySet
  <2>4. Open = {loops[current].relay} => Cardinality(Open) = 1
    BY FS_Singleton
  <2>5. Open = {} \/ Open = {loops[current].relay}
    BY <2>2
  <2> QED BY <2>3, <2>4, <2>5
<1> QED BY <1>1, Invariance, PTL

(***************************************************************************)
(* Once every call has returned, and no two raced, a connected loop uses   *)
(* the key the daemon shows; it is the saved one unless calls overlapped   *)
(* (SetAccessKeyAndConnect, startTSRelay).                                 *)
(***************************************************************************)
THEOREM KeyInUseIsSaved == LoopSpec => []KeyInUseIsTheLastSaved
<1>1. LoopInv => KeyInUseIsTheLastSaved
  <2> SUFFICES ASSUME LoopInv, \A c \in Callers : ~InCall(c), ~raced,
                      NEW l \in Live, loops[l].pc = "wait"
               PROVE  /\ relays[loops[l].relay].key = accessKey
                      /\ saved = accessKey \/ crossed
    BY DEF KeyInUseIsTheLastSaved
  <2>1. \A c \in Callers : call[c].pc \notin {"store", "start", "wait"}
    BY DEF InCall
  <2>2. relays[loops[l].relay].key = accessKey
    BY <2>1 DEF LoopInv, KeyInUse, UsesKey
  <2>3. accessKey # NoKey
    <3>1. loops # <<>>
      BY DEF Live, LoopIds
    <3> QED BY <3>1, LoopAssumption DEF LoopInv, KeyKnown, Callers
  <2> QED BY <2>1, <2>2, <2>3 DEF LoopInv, KeySaved, At
<1> QED BY <1>1, Invariance, PTL

(***************************************************************************)
(* A restart never shows "stopped": it is shown after Stop or a login that *)
(* was refused for good, and no loop is connected then, nor connecting     *)
(* (sleepOrStopCtx, tsRelayLoop).                                          *)
(***************************************************************************)
THEOREM StoppedMeansStopped == LoopSpec => []StoppedIsTrue
<1>1. LoopInv => StoppedIsTrue
  BY DEF LoopInv
<1> QED BY <1>1, Invariance, PTL

(***************************************************************************)
(* A connection that is open belongs to a loop that still runs, which will *)
(* close it when it leaves: none is leaked, even when callers raced.       *)
(***************************************************************************)
THEOREM NoOrphanConnection ==
  LoopSpec => [](\A r \in Open : \E l \in Live : Holds(l, r))
<1>1. LoopInv => \A r \in Open : \E l \in Live : Holds(l, r)
  BY DEF LoopInv, OpenIsHeld, Live, Holds
<1> QED BY <1>1, Invariance, PTL

=============================================================================
