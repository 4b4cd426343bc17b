------------------------------- MODULE TSLoop -------------------------------
(***************************************************************************)
(* The supervisor of the relay connection (daemon.go: StartRemote,         *)
(* startTSRelay, tsRelayLoop, Stop; SetAccessKeyAndConnect).               *)
(*                                                                         *)
(* Every call of startTSRelay ends the running loop, waits for it, and     *)
(* starts its own.  The callers are goroutines of local clients that set   *)
(* an access key, and the program's main goroutine, which starts after the *)
(* local server is up: nothing orders them.  A loop connects, waits until  *)
(* the connection ends, and tries again.                                   *)
(***************************************************************************)
EXTENDS Integers, Sequences, FiniteSets

CONSTANTS
    Clients,    \* goroutines that call SetAccessKeyAndConnect, once each
    Main,       \* the goroutine that calls StartRemote with the saved key
    NoKey,      \* no key saved yet
    None,       \* nil
    MaxConns    \* bound: connections made

Callers == Clients \cup {Main}

ASSUME LoopAssumption ==
    /\ Main \notin Clients
    /\ IsFiniteSet(Clients)
    /\ NoKey \notin Callers
    /\ None \notin Nat
    /\ MaxConns \in Nat

\* A client's key is the client: every one sets a key of its own.
VARIABLES
    saved,      \* the key file
    accessKey,  \* d.accessKey
    call,       \* where every caller is
    current,    \* the loop tsLoopCancel and tsLoopDone belong to
    loops,      \* the loops started so far: where each is, and its key
    cancelled,  \* loops whose context is cancelled
    relays,     \* the connections made so far
    wsRelay,    \* d.wsRelay
    connState,  \* what the user is shown
    stop        \* how far Stop has come

\* History the program does not keep.
VARIABLES
    raced,      \* two callers waited for an old loop at the same time
    crossed,    \* a key was saved while another call was under way
    fatal       \* a login was refused for good

keyVars == <<saved, accessKey>>
ghostVars == <<raced, crossed, fatal>>
vars == <<keyVars, call, current, loops, cancelled, relays, wsRelay,
          connState, stop, ghostVars>>

-----------------------------------------------------------------------------
LoopIds == DOMAIN loops
RelayIds == DOMAIN relays
Live == {l \in LoopIds : loops[l].pc # "done"}
Open == {r \in RelayIds : relays[r].open}
StopSeen == stop # "no"

Init ==
    /\ saved \in {NoKey} \cup Clients
    /\ accessKey = NoKey
    /\ call = [c \in Callers |-> [pc |-> "idle"]]
    /\ current = None /\ loops = <<>> /\ cancelled = {}
    /\ relays = <<>> /\ wsRelay = None
    /\ connState = "" /\ stop = "no"
    /\ raced = FALSE /\ crossed = FALSE /\ fatal = FALSE

-----------------------------------------------------------------------------
(***************************************************************************)
(* The callers.                                                            *)
(***************************************************************************)
At(c, pc) == call[c].pc = pc
Goto(c, pc) == call' = [call EXCEPT ![c] = [pc |-> pc]]
InCall(c) == call[c].pc \notin {"idle", "done"}

AfterSave == "store"

\* SetAccessKeyAndConnect saves the key first; main only loads it.
SaveKey(c) ==
    /\ c \in Clients /\ At(c, "idle")
    /\ saved' = c
    /\ crossed' = (crossed \/ \E x \in Callers \ {c} : InCall(x))
    /\ Goto(c, AfterSave)
    /\ UNCHANGED <<accessKey, current, loops, cancelled, relays, wsRelay,
                   connState, stop, raced, fatal>>

LoadKey ==
    /\ At(Main, "idle")
    /\ saved # NoKey
    /\ crossed' = (crossed \/ \E x \in Clients : InCall(x))
    /\ call' = [call EXCEPT ![Main] = [pc |-> "store", key |-> saved]]
    /\ UNCHANGED <<keyVars, current, loops, cancelled, relays, wsRelay,
                   connState, stop, raced, fatal>>

\* d.accessKey = key, without a lock.
StoreKey(c) ==
    /\ At(c, "store")
    /\ accessKey' = IF c = Main THEN call[c].key ELSE c
    /\ Goto(c, "start")
    /\ UNCHANGED <<saved, current, loops, cancelled, relays, wsRelay,
                   connState, stop, ghostVars>>

NewLoop == Append(loops, [pc |-> "check"])

\* startTSRelay up to the first Unlock: the first loop starts at once.
StartRelay(c) ==
    /\ At(c, "start")
    /\ IF current = None
       THEN /\ Goto(c, "done")
            /\ loops' = NewLoop
            /\ current' = Len(loops')
            /\ UNCHANGED <<cancelled, raced>>
       ELSE /\ call' = [call EXCEPT ![c] = [pc |-> "wait", old |-> current]]
            /\ cancelled' = cancelled \cup {current}
            /\ raced' = (raced \/ \E x \in Callers : At(x, "wait"))
            /\ UNCHANGED <<loops, current>>
    /\ UNCHANGED <<keyVars, relays, wsRelay, connState, stop, crossed, fatal>>

\* Mutant of OldLoopDone: the new loop does not wait for the old one.
OldLoopAnyway(c) == TRUE
\* <-oldDone
OldLoopDone(c) == loops[call[c].old].pc = "done"

\* tsLoopCancel and tsLoopDone are overwritten, whatever they are by now.
ReplaceLoop(c) ==
    /\ At(c, "wait")
    /\ OldLoopDone(c)
    /\ Goto(c, "done")
    /\ loops' = NewLoop
    /\ current' = Len(loops')
    /\ UNCHANGED <<keyVars, cancelled, relays, wsRelay, connState, stop,
                   ghostVars>>

-----------------------------------------------------------------------------
(***************************************************************************)
(* tsRelayLoop.                                                            *)
(***************************************************************************)
Step(l, pc, next) == /\ loops[l].pc = pc
                     /\ loops' = [loops EXCEPT ![l] = next]
Done == [pc |-> "done"]

\* Mutant of Cancelled: the context of a loop is not looked at.
CancelledNever(l) == FALSE
Cancelled(l) == l \in cancelled

\* Mutant of LeaveCancelled: a restart shows "stopped" as well.
LeaveCancelledLoudly == connState' = "stopped"
LeaveCancelled == connState' = connState

\* A select on stopCh and ctx.Done(): with both ready either is taken.
Leave(l) ==
    \/ StopSeen /\ connState' = "stopped"
    \/ Cancelled(l) /\ LeaveCancelled

loopFrame == <<keyVars, call, current, cancelled, stop, raced, crossed>>

LeaveAtTop(l) ==
    /\ Step(l, "check", Done)
    /\ Leave(l)
    /\ UNCHANGED <<loopFrame, relays, wsRelay, fatal>>

Connecting(l) ==
    /\ ~StopSeen /\ ~Cancelled(l)
    /\ Step(l, "check", [pc |-> "dial"])
    /\ connState' = "connecting"
    /\ UNCHANGED <<loopFrame, relays, wsRelay, fatal>>

\* Mutant of DialKey: the key file is read instead.
DialKeySaved == saved
DialKey == accessKey

\* NewWSTurnRelay copies the key; Connect takes it from there.
Dial(l) ==
    /\ Step(l, "dial", [pc |-> "connect", key |-> DialKey])
    /\ UNCHANGED <<loopFrame, relays, wsRelay, connState, fatal>>

ConnectOK(l) ==
    /\ Len(relays) < MaxConns
    /\ Step(l, "connect", [pc |-> "replace", relay |-> Len(relays) + 1])
    /\ relays' = Append(relays, [key |-> loops[l].key, open |-> TRUE])
    /\ UNCHANGED <<loopFrame, wsRelay, connState, fatal>>

\* LoginError and IPBlockedError end the loop.
ConnectFatal(l) ==
    /\ Step(l, "connect", Done)
    /\ connState' = "stopped"
    /\ fatal' = TRUE
    /\ UNCHANGED <<loopFrame, relays, wsRelay>>

\* Anything else is tried again after reconnectDelay.
ConnectFails(l) ==
    /\ Step(l, "connect", [pc |-> "sleep"])
    /\ UNCHANGED <<loopFrame, relays, wsRelay, connState, fatal>>

Closing(S) == [r \in RelayIds |-> [relays[r] EXCEPT
                                     !.open = @ /\ r \notin S]]

\* Under wsMu the old connection is closed and the new one takes its place.
ReplaceRelay(l) ==
    LET r == loops[l].relay
    IN  /\ Step(l, "replace", [pc |-> "wait", relay |-> r])
        /\ relays' = Closing({wsRelay} \ {r})
        /\ wsRelay' = r
        /\ connState' = "connected"
        /\ UNCHANGED <<loopFrame, fatal>>

\* Mutant of OwnRelayClosed: a loop that is told to go leaves it open.
OwnRelayKept(r) == relays
OwnRelayClosed(r) == Closing({r})

\* Stopped or cancelled while connected: close the connection and go.
LeaveConnected(l) ==
    /\ loops[l].pc = "wait"
    /\ relays' = OwnRelayClosed(loops[l].relay)
    /\ Step(l, "wait", Done)
    /\ Leave(l)
    /\ UNCHANGED <<loopFrame, wsRelay, fatal>>

\* relay.Done(): transfers, tunnels and subscriptions are cleared (not
\* modelled here), and wsRelay if it is still this one.
Disconnected(l) ==
    LET r == loops[l].relay
    IN  /\ loops[l].pc = "wait" /\ ~relays[r].open
        /\ Step(l, "wait", [pc |-> "sleep"])
        /\ wsRelay' = IF wsRelay = r THEN None ELSE wsRelay
        /\ UNCHANGED <<loopFrame, relays, connState, fatal>>

\* sleepOrStopCtx.
LeaveAsleep(l) ==
    /\ Step(l, "sleep", Done)
    /\ Leave(l)
    /\ UNCHANGED <<loopFrame, relays, wsRelay, fatal>>

WakeUp(l) ==
    /\ Step(l, "sleep", [pc |-> "check"])
    /\ UNCHANGED <<loopFrame, relays, wsRelay, connState, fatal>>

-----------------------------------------------------------------------------
(***************************************************************************)
(* The network ends a connection; Stop ends everything.                    *)
(***************************************************************************)
ConnectionLost(r) ==
    /\ relays[r].open
    /\ relays' = Closing({r})
    /\ UNCHANGED <<keyVars, call, current, loops, cancelled, wsRelay,
                   connState, stop, ghostVars>>

CloseStopCh ==
    /\ stop = "no"
    /\ stop' = "cancel"
    /\ UNCHANGED <<keyVars, call, current, loops, cancelled, relays, wsRelay,
                   connState, ghostVars>>

StopCancels ==
    /\ stop = "cancel"
    /\ stop' = "close"
    /\ cancelled' = cancelled \cup ({current} \ {None})
    /\ UNCHANGED <<keyVars, call, current, loops, relays, wsRelay, connState,
                   ghostVars>>

StopCloses ==
    /\ stop = "close"
    /\ stop' = "done"
    /\ relays' = Closing({wsRelay})
    /\ UNCHANGED <<keyVars, call, current, loops, cancelled, wsRelay,
                   connState, ghostVars>>

Caller(c) == SaveKey(c) \/ StoreKey(c) \/ StartRelay(c) \/ ReplaceLoop(c)
Loop(l) ==
    \/ LeaveAtTop(l) \/ Connecting(l) \/ Dial(l)
    \/ ConnectOK(l) \/ ConnectFatal(l) \/ ConnectFails(l)
    \/ ReplaceRelay(l) \/ LeaveConnected(l) \/ Disconnected(l)
    \/ LeaveAsleep(l) \/ WakeUp(l)
Stop == CloseStopCh \/ StopCancels \/ StopCloses

Next ==
    \/ \E c \in Callers : Caller(c)
    \/ LoadKey
    \/ \E l \in LoopIds : Loop(l)
    \/ \E r \in RelayIds : ConnectionLost(r)
    \/ Stop

LoopSpec == Init /\ [][Next]_vars

(***************************************************************************)
(* Every goroutine keeps running: Connect is bounded by its timeouts, and  *)
(* a loop asleep or connected reacts to a closed channel.                  *)
(***************************************************************************)
Fairness ==
    /\ WF_vars(StopCancels \/ StopCloses)
    /\ \A c \in Callers : WF_vars(StoreKey(c) \/ StartRelay(c)
                                  \/ ReplaceLoop(c))
    /\ \A l \in 1..Cardinality(Callers) : WF_vars(l \in LoopIds /\ Loop(l))

FairLoopSpec == LoopSpec /\ Fairness

-----------------------------------------------------------------------------
(***************************************************************************)
(* Properties                                                              *)
(***************************************************************************)
(***************************************************************************)
(* The type of the state.                                                  *)
(***************************************************************************)
TypeOK ==
    /\ saved \in {NoKey} \cup Clients /\ accessKey \in {NoKey} \cup Clients
    /\ call \in [Callers -> [pc : {"idle", "store", "start", "done"}]
                            \cup [pc : {"store"}, key : Clients]
                            \cup [pc : {"wait"}, old : LoopIds]]
    /\ current \in LoopIds \cup {None}
    /\ loops \in Seq([pc : {"check", "dial", "sleep", "done"}]
                     \cup [pc : {"connect"}, key : Clients]
                     \cup [pc : {"replace", "wait"}, relay : RelayIds])
    /\ Len(loops) <= Cardinality({c \in Callers : At(c, "done")})
    /\ cancelled \subseteq LoopIds
    /\ relays \in Seq([key : Clients, open : BOOLEAN])
    /\ wsRelay \in RelayIds \cup {None}
    /\ connState \in {"", "connecting", "connected", "stopped"}
    /\ stop \in {"no", "cancel", "close", "done"}
    /\ raced \in BOOLEAN /\ crossed \in BOOLEAN /\ fatal \in BOOLEAN

(***************************************************************************)
(* Two connections at once are what the turn server answers with a kick    *)
(* that ends the daemon (daemon.go, ll. 466-469).  There are never two     *)
(* unless two callers waited for the same old loop.                        *)
(***************************************************************************)
SingleConnection == Cardinality(Open) <= 1 \/ raced

(***************************************************************************)
(* Once every call has returned, a loop that is connected uses the key the *)
(* daemon shows, and that is the key in the file, whatever connections     *)
(* were made, lost or replaced on the way (SetAccessKeyAndConnect); calls  *)
(* that overlap may leave an older one.                                    *)
(***************************************************************************)
KeyInUseIsTheLastSaved ==
    (\A c \in Callers : ~InCall(c)) /\ ~raced =>
        \A l \in Live : loops[l].pc = "wait" =>
            /\ relays[loops[l].relay].key = accessKey
            /\ saved = accessKey \/ crossed

(***************************************************************************)
(* A restart does not flash "stopped" (sleepOrStopCtx): the user sees it   *)
(* only after Stop or a login that was refused for good, and then no loop  *)
(* is connecting or connected.                                             *)
(***************************************************************************)
StoppedIsTrue ==
    connState = "stopped" =>
        /\ StopSeen \/ fatal
        /\ raced \/ \A l \in Live : loops[l].pc = "check"

(***************************************************************************)
(* A call that ends the running loop gets to start its own: the wait for   *)
(* the old loop is bounded, wherever that loop was (startTSRelay).         *)
(***************************************************************************)
SwapCompletes == \A c \in Callers : At(c, "wait") ~> At(c, "done")

(***************************************************************************)
(* After Stop every loop ends and no connection stays open, although Stop  *)
(* may run while a caller is about to start a loop, or while a loop holds  *)
(* a connection that is not yet in wsRelay.                                *)
(***************************************************************************)
StopEndsEverything == <>[](StopSeen => Live = {} /\ Open = {})
=============================================================================
