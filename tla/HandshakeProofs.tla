-------------------------- MODULE HandshakeProofs --------------------------
(***************************************************************************)
(* Proofs about the handshake slot, for every number of transports,        *)
(* handshakes, resets and attempts.                                        *)
(***************************************************************************)
EXTENDS Handshake, TLAPS

-----------------------------------------------------------------------------
(***************************************************************************)
(* What a step can touch.                                                  *)
(***************************************************************************)
\* Only pake_start, peer_online and a reset change the handshakes the
\* apps have started or the connection count.
LEMMA ShakesFrame ==
  [Next]_vars =>
    \/ UNCHANGED <<shakes, epoch>>
    \/ \E t \in Transports : PakeStart(t) \/ ResetSecure(t)
    \/ PeerOnline
BY DEF Next, vars, slotVars, flagVars, doomVars, ghostVars, PakeReply,
   SecConfirm, ClearSlot, InstallChannel, MarkVerified, RestoreBudget,
   ChannelSelect, PeerOffline, SetMode, Kicked, Expire, TimedOut,
   SetSecCode, UnsetSecCode, WrapCheck, WrapTake, ExitLocked

\* Only these five steps touch the handshake slot and its timers.
LEMMA SlotFrame ==
  [Next]_vars =>
    \/ UNCHANGED slotVars
    \/ \E t \in Transports : PakeStart(t) \/ ClearSlot(t) \/ ResetSecure(t)
    \/ \E h \in armed : Expire(h)
    \/ \E h \in fired : TimedOut(h)
BY DEF Next, vars, slotVars, flagVars, doomVars, ghostVars, PakeReply,
   SecConfirm, InstallChannel, MarkVerified, RestoreBudget,
   ChannelSelect, PeerOnline, PeerOffline, SetMode, Kicked,
   SetSecCode, UnsetSecCode, WrapCheck, WrapTake, ExitLocked

\* Only these steps move a goroutine that handles messages.
LEMMA ActivityFrame ==
  [Next]_vars =>
    \/ UNCHANGED at
    \/ \E t \in Transports :
          \/ PakeStart(t) \/ PakeReply(t)
          \/ \E h \in Ids : SecConfirm(t, h)
          \/ ClearSlot(t) \/ InstallChannel(t)
          \/ MarkVerified(t) \/ RestoreBudget(t)
          \/ \E channel \in {"p2p", "ts"} : ChannelSelect(t, channel)
          \/ PeerOffline(t) \/ ResetSecure(t) \/ SetMode(t) \/ Kicked(t)
    \/ PeerOnline
BY DEF Next, vars, slotVars, flagVars, doomVars, ghostVars, Expire,
   TimedOut, SetSecCode, UnsetSecCode, WrapCheck, WrapTake, ExitLocked

\* Only a confirm and a reset change the channel, only a confirm, a reset,
\* peer_online, channel_select and the local client the flag.
LEMMA ChannelFrame ==
  [Next]_vars =>
    \/ UNCHANGED <<secure, verified, by, offline>>
    \/ \E t \in Transports :
          \/ InstallChannel(t) \/ MarkVerified(t) \/ ResetSecure(t)
          \/ \E channel \in {"p2p", "ts"} : ChannelSelect(t, channel)
    \/ PeerOnline
    \/ SetSecCode
BY DEF Next, vars, slotVars, flagVars, doomVars, ghostVars, PakeStart,
   PakeReply, SecConfirm, ClearSlot, RestoreBudget, PeerOffline, SetMode,
   Kicked, Expire, TimedOut, UnsetSecCode, WrapCheck, WrapTake, ExitLocked

\* No confirm that was marked is ever unmarked.
LEMMA OverlapGrows == [Next]_vars => overlap \subseteq overlap'
BY DEF Next, vars, slotVars, flagVars, doomVars, ghostVars, PakeStart,
   PakeReply, SecConfirm, ClearSlot, InstallChannel, MarkVerified,
   RestoreBudget, ChannelSelect, PeerOnline, PeerOffline, ResetSecure,
   SetMode, Kicked, Expire, TimedOut, SetSecCode, UnsetSecCode, WrapCheck,
   WrapTake, ExitLocked, MarkBeside

-----------------------------------------------------------------------------
(***************************************************************************)
(* What the types of handshakes and activities say.                        *)
(***************************************************************************)
\* A goroutine that is handling a message remembers known handshakes.
LEMMA ActivityFacts ==
  ASSUME TypeOK, NEW t \in Transports
  PROVE  /\ at[t].pc \in {"reply", "verify", "install", "mark", "restore"}
              => at[t].hs \in Ids
         /\ at[t].pc = "verify" => at[t].server \in Ids
         /\ at[t].pc \in {"reset", "mode"}
              => at[t].why \in {"online", "offline", "p2p"}
<1>1. CASE at[t] = Idle
  BY <1>1 DEF Idle
<1>2. CASE at[t] \in [pc : {"reply", "install", "mark", "restore"}, hs : Ids]
  BY <1>2
<1>3. CASE at[t] \in [pc : {"verify"}, hs : Ids, server : Ids]
  BY <1>3
<1>4. CASE at[t] \in [pc : {"reset", "mode"},
                      why : {"online", "offline", "p2p"}]
  BY <1>4
<1> QED
  BY <1>1, <1>2, <1>3, <1>4 DEF Activity, TypeOK

\* The handshakes are numbered from 1; none is from a future connection.
LEMMA ShakeFacts ==
  ASSUME TypeOK
  PROVE  /\ Ids = 1..Len(shakes)
         /\ \A g \in Ids :
              /\ shakes[g] \in [via : Transports, right : BOOLEAN,
                                epoch : Nat, gone : BOOLEAN]
              /\ shakes[g].epoch \in Nat
              /\ shakes[g].epoch <= epoch
<1> DEFINE S == [via : Transports, right : BOOLEAN, epoch : Nat,
                 gone : BOOLEAN]
<1>1. shakes \in Seq(S)
  BY DEF TypeOK, ShakesTyped
<1>2. Ids = 1..Len(shakes)
  BY <1>1 DEF Ids
<1>3. \A g \in Ids : shakes[g] \in S
  <2> HIDE DEF S
  <2> QED BY <1>1, <1>2
<1>4. \A g \in Ids : shakes[g].epoch <= epoch
  BY DEF TypeOK, ShakesTyped
<1> QED
  BY <1>2, <1>3, <1>4

\* The activities the handlers put a goroutine in.
LEMMA MakeActivity ==
  /\ Idle \in Activity
  /\ \A h \in Ids : \A pc \in {"reply", "install", "mark", "restore"} :
        [pc |-> pc, hs |-> h] \in Activity
  /\ \A h \in Ids : \A g \in Ids :
        [pc |-> "verify", hs |-> h, server |-> g] \in Activity
  /\ \A why \in {"online", "offline", "p2p"} : \A pc \in {"reset", "mode"} :
        [pc |-> pc, why |-> why] \in Activity
BY DEF Activity

\* An activity stays one when more handshakes are started.
LEMMA ActivityGrows ==
  ASSUME Ids \subseteq Ids'
  PROVE  Activity \subseteq Activity'
BY DEF Activity, Idle

\* The confirms being handled are for handshakes that were started.
LEMMA InFlightIds ==
  ASSUME TypeOK
  PROVE  InFlight \subseteq Ids
BY ActivityFacts DEF InFlight, Confirming

-----------------------------------------------------------------------------
(***************************************************************************)
(* Type correctness, one group of variables at a time.                     *)
(***************************************************************************)
\* What pake_start appends; the handshakes before it are kept.
LEMMA PakeStartShakes ==
  ASSUME TypeOK, NEW t \in Transports, PakeStart(t)
  PROVE  /\ ShakesTyped'
         /\ Ids' = Ids \cup {Len(shakes) + 1}
         /\ shakes'[Len(shakes) + 1].epoch = epoch
         /\ \A g \in Ids : shakes'[g] = shakes[g]
<1> DEFINE S == [via : Transports, right : BOOLEAN, epoch : Nat,
                 gone : BOOLEAN]
           h == Len(shakes) + 1
<1>1. PICK right \in BOOLEAN :
        shakes' = Append(shakes, [via |-> t, right |-> right,
                                  epoch |-> epoch, gone |-> FALSE])
  BY DEF PakeStart
<1>2. /\ Len(shakes) < MaxShakes
      /\ epoch' = epoch
  BY DEF PakeStart
<1>3. /\ shakes \in Seq(S)
      /\ epoch \in Nat
      /\ \A g \in Ids : shakes[g].epoch <= epoch
  BY DEF TypeOK, ShakesTyped
<1>4. shakes' \in Seq(S)
  BY <1>1, <1>3
<1>5. /\ Len(shakes') = h
      /\ Ids' = Ids \cup {h}
      /\ shakes'[h].epoch = epoch
      /\ \A g \in Ids : shakes'[g] = shakes[g]
  BY <1>1, <1>3 DEF Ids
<1>6. \A g \in Ids' : shakes'[g].epoch <= epoch'
  BY <1>2, <1>3, <1>5
<1>7. Len(shakes') <= MaxShakes
  BY <1>2, <1>3, <1>5, HandshakeAssumption
<1> QED
  BY <1>2, <1>3, <1>4, <1>5, <1>6, <1>7 DEF ShakesTyped

\* What peer_online does to them: a page that is gone stays from when it was.
LEMMA PeerOnlineShakes ==
  ASSUME TypeOK, PeerOnline
  PROVE  /\ ShakesTyped'
         /\ Ids' = Ids
         /\ \A g \in Ids : shakes'[g].epoch = shakes[g].epoch
<1> DEFINE S == [via : Transports, right : BOOLEAN, epoch : Nat,
                 gone : BOOLEAN]
<1>1. /\ shakes' = [h \in Ids |-> IF shakes[h].via = Relay
                                  THEN [shakes[h] EXCEPT !.gone = TRUE]
                                  ELSE shakes[h]]
      /\ epoch' = epoch
  BY DEF PeerOnline
<1>2. /\ shakes \in Seq(S) /\ Len(shakes) <= MaxShakes /\ epoch \in Nat
      /\ Ids = 1..Len(shakes)
      /\ \A g \in Ids : shakes[g] \in S /\ shakes[g].epoch <= epoch
  BY ShakeFacts DEF TypeOK, ShakesTyped
<1>3. \A g \in Ids : shakes'[g] \in S /\ shakes'[g].epoch = shakes[g].epoch
  BY <1>1, <1>2
<1>4. shakes' \in Seq(S) /\ Len(shakes') = Len(shakes) /\ Ids' = Ids
  BY <1>1, <1>2, <1>3 DEF Ids
<1> QED
  BY <1>1, <1>2, <1>3, <1>4 DEF ShakesTyped

\* A reset counts a connection and leaves the handshakes alone.
LEMMA ResetShakes ==
  ASSUME TypeOK, NEW t \in Transports, ResetSecure(t)
  PROVE  ShakesTyped' /\ Ids' = Ids
<1>1. shakes' = shakes /\ epoch' = epoch + 1
  BY DEF ResetSecure
<1>2. Ids' = Ids
  BY <1>1 DEF Ids
<1>3. /\ epoch \in Nat
      /\ \A g \in Ids : shakes[g].epoch \in Nat /\ shakes[g].epoch <= epoch
  BY ShakeFacts DEF TypeOK, ShakesTyped
<1>4. epoch' \in Nat /\ \A g \in Ids' : shakes'[g].epoch <= epoch'
  BY <1>1, <1>2, <1>3
<1>5. /\ shakes' \in Seq([via : Transports, right : BOOLEAN, epoch : Nat,
                          gone : BOOLEAN])
      /\ Len(shakes') <= MaxShakes
  BY <1>1 DEF TypeOK, ShakesTyped
<1> QED
  BY <1>2, <1>4, <1>5 DEF ShakesTyped

\* The handshakes stay well-formed, and none is ever forgotten.
LEMMA ShakesStep ==
  ASSUME TypeOK, [Next]_vars
  PROVE  ShakesTyped' /\ Ids \subseteq Ids'
<1>1. CASE UNCHANGED <<shakes, epoch>>
  BY <1>1 DEF TypeOK, ShakesTyped, Ids
<1>2. ASSUME NEW t \in Transports, PakeStart(t)
      PROVE  ShakesTyped' /\ Ids \subseteq Ids'
  BY <1>2, PakeStartShakes
<1>3. ASSUME NEW t \in Transports, ResetSecure(t)
      PROVE  ShakesTyped' /\ Ids \subseteq Ids'
  BY <1>3, ResetShakes
<1>4. CASE PeerOnline
  BY <1>4, PeerOnlineShakes
<1> QED
  BY <1>1, <1>2, <1>3, <1>4, ShakesFrame

\* The timer in the slot is the only one that may be ticking.
LEMMA SlotStep ==
  ASSUME TypeOK, [Next]_vars
  PROVE  SlotTyped'
<1>1. Ids \subseteq Ids'
  BY ShakesStep
<1>2. SlotTyped
  BY DEF TypeOK
<1>3. CASE UNCHANGED slotVars
  BY <1>1, <1>2, <1>3 DEF slotVars, SlotTyped, Maybe
<1>4. ASSUME NEW t \in Transports, PakeStart(t)
      PROVE  SlotTyped'
  BY <1>1, <1>2, <1>4, PakeStartShakes DEF PakeStart, Stopped, SlotTyped, Maybe
<1>5. ASSUME NEW t \in Transports, ClearSlot(t)
      PROVE  SlotTyped'
  BY <1>1, <1>2, <1>5 DEF ClearSlot, SlotFreed, Stopped, SlotTyped, Maybe
<1>6. ASSUME NEW t \in Transports, ResetSecure(t)
      PROVE  SlotTyped'
  BY <1>1, <1>2, <1>6 DEF ResetSecure, SlotDropped, Stopped, SlotTyped, Maybe
<1>7. ASSUME NEW h \in armed, Expire(h)
      PROVE  SlotTyped'
  BY <1>1, <1>2, <1>7 DEF Expire, SlotTyped, Maybe
<1>8. ASSUME NEW h \in fired, TimedOut(h)
      PROVE  SlotTyped'
  BY <1>1, <1>2, <1>8 DEF TimedOut, SlotTyped, Maybe
<1> QED
  BY <1>3, <1>4, <1>5, <1>6, <1>7, <1>8, SlotFrame

\* A rejection only ever takes from the budget.
LEMMA BudgetStep ==
  ASSUME TypeOK, [Next]_vars
  PROVE  attempts' \in Int /\ attempts' <= MaxAttempts
<1>1. \/ attempts' = attempts
      \/ attempts' = attempts - 1
      \/ attempts' = MaxAttempts
  BY DEF Next, vars, slotVars, flagVars, doomVars, ghostVars, PakeStart,
     PakeReply, SecConfirm, ClearSlot, Reject, InstallChannel, MarkVerified,
     RestoreBudget, ChannelSelect, PeerOnline, PeerOffline, ResetSecure,
     SetMode, Kicked, Expire, TimedOut, SetSecCode, UnsetSecCode, WrapCheck,
     WrapTake, ExitLocked
<1>2. attempts \in Int /\ attempts <= MaxAttempts
  BY DEF TypeOK, FlagsTyped
<1> QED
  BY <1>1, <1>2, HandshakeAssumption

\* The channel and its author are handshakes that were started.
LEMMA ChannelTypedStep ==
  ASSUME TypeOK, [Next]_vars
  PROVE  /\ secure' \in Maybe(Ids)' /\ by' \in Maybe(Ids)'
         /\ verified' \in {0, 1} /\ offline' \in BOOLEAN
<1>1. Ids \subseteq Ids'
  BY ShakesStep
<1>2. /\ secure \in Maybe(Ids) /\ by \in Maybe(Ids)
      /\ verified \in {0, 1} /\ offline \in BOOLEAN
  BY DEF TypeOK, FlagsTyped, HistoryTyped
<1>3. CASE UNCHANGED <<secure, verified, by, offline>>
  BY <1>1, <1>2, <1>3 DEF Maybe
<1>4. ASSUME NEW t \in Transports, InstallChannel(t)
      PROVE  /\ secure' = at[t].hs /\ at[t].hs \in Ids /\ offline' = FALSE
             /\ UNCHANGED <<verified, by>>
  BY <1>4, ActivityFacts DEF InstallChannel, Step
<1>5. ASSUME NEW t \in Transports, MarkVerified(t)
      PROVE  /\ by' = at[t].hs /\ at[t].hs \in Ids /\ verified' = 1
             /\ UNCHANGED <<secure, offline>>
  BY <1>5, ActivityFacts DEF MarkVerified, Step
<1>6. ASSUME NEW t \in Transports, ResetSecure(t)
      PROVE  /\ secure' = None /\ offline' \in BOOLEAN
             /\ UNCHANGED <<verified, by>>
  BY <1>6 DEF ResetSecure
<1>7. ASSUME NEW t \in Transports, NEW channel \in {"p2p", "ts"},
             ChannelSelect(t, channel)
      PROVE  /\ verified' \in {0, 1} /\ offline' \in BOOLEAN
             /\ UNCHANGED <<secure, by>>
  BY <1>2, <1>7 DEF ChannelSelect, Unverify
<1>8. ASSUME PeerOnline
      PROVE  /\ verified' = 0 /\ offline' = FALSE
             /\ UNCHANGED <<secure, by>>
  BY <1>8 DEF PeerOnline, Unverify
<1>9. ASSUME SetSecCode
      PROVE  verified' = 0 /\ UNCHANGED <<secure, by, offline>>
  BY <1>9 DEF SetSecCode, ghostVars
<1> QED
  BY <1>1, <1>2, <1>3, <1>4, <1>5, <1>6, <1>7, <1>8, <1>9, ChannelFrame
  DEF Maybe

\* The other flags keep their values apart.
LEMMA FlagsStep ==
  ASSUME TypeOK, [Next]_vars
  PROVE  FlagsTyped'
<1>1. /\ enabled \in BOOLEAN /\ mode \in {"", "ts", "p2p"}
      /\ wrap \in {"idle", "checked"} /\ locked \in BOOLEAN
      /\ down \in {"", "locked", "nil channel"}
  BY DEF TypeOK, FlagsTyped
<1>2. enabled' \in BOOLEAN /\ locked' \in BOOLEAN
  BY <1>1
  DEF Next, vars, slotVars, flagVars, doomVars, ghostVars, PakeStart,
     PakeReply, SecConfirm, ClearSlot, Reject, InstallChannel, MarkVerified,
     RestoreBudget, ChannelSelect, PeerOnline, PeerOffline, ResetSecure,
     SetMode, Kicked, Expire, TimedOut, SetSecCode, UnsetSecCode, WrapCheck,
     WrapTake, ExitLocked
<1>3. /\ wrap' \in {"idle", "checked"}
      /\ down' \in {"", "locked", "nil channel"}
  BY ZenonT(120), <1>1
  DEF Next, vars, slotVars, flagVars, doomVars, ghostVars, PakeStart,
     PakeReply, SecConfirm, ClearSlot, InstallChannel, MarkVerified,
     RestoreBudget, ChannelSelect, PeerOnline, PeerOffline, ResetSecure,
     SetMode, Kicked, Expire, TimedOut, SetSecCode, UnsetSecCode, WrapCheck,
     WrapTake, ExitLocked
<1>4. mode' \in {"", "ts", "p2p"}
  <2>1. ASSUME NEW t \in Transports, SetMode(t)
        PROVE  mode' \in {"", "ts", "p2p"}
    <3>1. mode' = IF at[t].why = "p2p" THEN "p2p"
                  ELSE IF at[t].why = "offline" THEN "" ELSE mode
      BY <2>1 DEF SetMode
    <3> QED
      BY <1>1, <3>1
  <2>2. \/ \E t \in Transports : SetMode(t)
        \/ mode' = mode \/ mode' = "ts" \/ mode' = ""
    BY DEF Next, vars, slotVars, flagVars, doomVars, ghostVars, PakeStart,
     PakeReply, SecConfirm, ClearSlot, InstallChannel, MarkVerified,
     RestoreBudget, ChannelSelect, PeerOnline, PeerOffline, ResetSecure,
     Kicked, Expire, TimedOut, SetSecCode, UnsetSecCode, WrapCheck,
     WrapTake, ExitLocked
  <2> QED
    BY <1>1, <2>1, <2>2
<1> QED
  BY <1>2, <1>3, <1>4, BudgetStep, ChannelTypedStep DEF FlagsTyped

\* The history names handshakes that were started.
LEMMA HistoryStep ==
  ASSUME TypeOK, [Next]_vars
  PROVE  HistoryTyped'
<1>1. Ids \subseteq Ids'
  BY ShakesStep
<1>2. /\ replied \subseteq Ids /\ refused \subseteq Ids
      /\ disturbed \subseteq Ids /\ overlap \subseteq Ids
  BY DEF TypeOK, HistoryTyped
<1>3. ASSUME NEW t \in Transports, PakeStart(t)
      PROVE  /\ UNCHANGED <<replied, refused, overlap>>
             /\ disturbed' \subseteq Ids'
  BY <1>1, <1>2, <1>3, PakeStartShakes DEF PakeStart
<1>4. ASSUME NEW t \in Transports, ClearSlot(t)
      PROVE  /\ refused' \subseteq Ids /\ disturbed' \subseteq Ids
             /\ UNCHANGED <<replied, overlap>>
  BY <1>2, <1>4, ActivityFacts DEF ClearSlot, Reject
<1>5. ASSUME NEW t \in Transports, PakeReply(t)
      PROVE  /\ replied' \subseteq Ids
             /\ UNCHANGED <<refused, disturbed, overlap>>
  BY <1>2, <1>5, ActivityFacts DEF PakeReply, Step
<1>6. ASSUME NEW t \in Transports, NEW h \in Ids, SecConfirm(t, h)
      PROVE  /\ replied' \subseteq Ids /\ refused' \subseteq Ids
             /\ overlap' \subseteq Ids
             /\ UNCHANGED disturbed
  BY <1>2, <1>6 DEF SecConfirm
<1>7. ASSUME NEW h \in armed, Expire(h)
      PROVE  /\ disturbed' \subseteq Ids
             /\ UNCHANGED <<replied, refused, overlap>>
  BY <1>2, <1>7 DEF Expire, TypeOK, SlotTyped
<1>8. \/ \E t \in Transports : PakeStart(t) \/ ClearSlot(t) \/ PakeReply(t)
      \/ \E t \in Transports : \E h \in Ids : SecConfirm(t, h)
      \/ \E h \in armed : Expire(h)
      \/ /\ UNCHANGED <<replied, refused>>
         /\ disturbed' = disturbed \/ disturbed' = disturbed \cup Ids
         /\ overlap' = overlap \/ overlap' = overlap \cup InFlight
  BY DEF Next, vars, slotVars, flagVars, doomVars, ghostVars, MarkBeside,
     InstallChannel, MarkVerified, RestoreBudget, ChannelSelect, PeerOnline,
     PeerOffline, ResetSecure, SetMode, Kicked, TimedOut, SetSecCode,
     UnsetSecCode, WrapCheck, WrapTake, ExitLocked
<1>9. /\ replied' \subseteq Ids' /\ refused' \subseteq Ids'
      /\ disturbed' \subseteq Ids' /\ overlap' \subseteq Ids'
  BY <1>1, <1>2, <1>3, <1>4, <1>5, <1>6, <1>7, <1>8, InFlightIds
<1> QED
  BY <1>9, ChannelTypedStep DEF HistoryTyped

\* Every goroutine is in an activity of the handlers.
LEMMA ActivityStep ==
  ASSUME TypeOK, [Next]_vars
  PROVE  at' \in [Transports -> Activity']
<1>1. Activity \subseteq Activity' /\ at \in [Transports -> Activity]
  BY ShakesStep, ActivityGrows DEF TypeOK
<1>2. SUFFICES ASSUME at' # at
               PROVE  \E t \in Transports : \E a \in Activity' :
                         at' = [at EXCEPT ![t] = a]
  BY <1>1
<1>3. ASSUME NEW t \in Transports, PakeStart(t)
      PROVE  \E a \in Activity' : at' = [at EXCEPT ![t] = a]
  <2>1. [pc |-> "reply", hs |-> Len(shakes) + 1] \in Activity'
    BY <1>3, PakeStartShakes DEF Activity
  <2> QED
    BY <1>3, <2>1 DEF PakeStart, Step
<1>4. ASSUME NEW t \in Transports,
             PakeReply(t) \/ RestoreBudget(t) \/ SetMode(t) \/ Kicked(t)
      PROVE  \E a \in Activity : at' = [at EXCEPT ![t] = a]
  BY <1>4, MakeActivity DEF PakeReply, RestoreBudget, SetMode, Kicked, Step
<1>5. ASSUME NEW t \in Transports, NEW h \in Ids, SecConfirm(t, h)
      PROVE  \E a \in Activity : at' = [at EXCEPT ![t] = a]
  <2>1. pake # None => pake \in Ids
    BY DEF TypeOK, SlotTyped, Maybe
  <2> QED
    BY <1>5, <2>1, MakeActivity DEF SecConfirm, Step
<1>6. ASSUME NEW t \in Transports,
             ClearSlot(t) \/ InstallChannel(t) \/ MarkVerified(t)
      PROVE  \E a \in Activity : at' = [at EXCEPT ![t] = a]
  <2>1. at[t].hs \in Ids
    BY <1>6, ActivityFacts DEF ClearSlot, InstallChannel, MarkVerified, Step
  <2> QED
    BY <1>6, <2>1, MakeActivity
    DEF ClearSlot, InstallChannel, MarkVerified, Step
<1>7. ASSUME NEW t \in Transports, NEW channel \in {"p2p", "ts"},
             ChannelSelect(t, channel)
      PROVE  \E a \in Activity : at' = [at EXCEPT ![t] = a]
  BY <1>7, MakeActivity DEF ChannelSelect, Step
<1>8. ASSUME NEW t \in Transports, PeerOffline(t)
      PROVE  \E a \in Activity : at' = [at EXCEPT ![t] = a]
  BY <1>8, MakeActivity DEF PeerOffline, Step
<1>9. ASSUME NEW t \in Transports, ResetSecure(t)
      PROVE  \E a \in Activity : at' = [at EXCEPT ![t] = a]
  BY <1>9, ActivityFacts, MakeActivity DEF ResetSecure, Step
<1>10. ASSUME PeerOnline
       PROVE  \E a \in Activity : at' = [at EXCEPT ![Relay] = a]
  BY <1>10, MakeActivity DEF PeerOnline, Step
<1> QED
  BY <1>1, <1>2, <1>3, <1>4, <1>5, <1>6, <1>7, <1>8, <1>9, <1>10,
     ActivityFrame, HandshakeAssumption

\* Every step keeps every variable in its type.
LEMMA TypeStep == TypeOK /\ [Next]_vars => TypeOK'
BY ShakesStep, SlotStep, FlagsStep, HistoryStep, ActivityStep DEF TypeOK

-----------------------------------------------------------------------------
(***************************************************************************)
(* The slot always has a timer.                                            *)
(***************************************************************************)
LEMMA SlotTimerStep == SlotHasTimer /\ [Next]_vars => SlotHasTimer'
<1> SUFFICES ASSUME SlotHasTimer, [Next]_vars
             PROVE  SlotHasTimer'
  OBVIOUS
<1>1. CASE UNCHANGED slotVars
  BY <1>1 DEF slotVars, SlotHasTimer
<1>2. ASSUME NEW t \in Transports, PakeStart(t)
      PROVE  SlotHasTimer'
  BY <1>2 DEF PakeStart, SlotHasTimer
<1>3. ASSUME NEW t \in Transports, ClearSlot(t)
      PROVE  SlotHasTimer'
  BY <1>3 DEF ClearSlot, SlotFreed, SlotHasTimer
<1>4. ASSUME NEW t \in Transports, ResetSecure(t)
      PROVE  SlotHasTimer'
  BY <1>4 DEF ResetSecure, SlotDropped, SlotHasTimer
<1>5. ASSUME NEW h \in armed, Expire(h)
      PROVE  SlotHasTimer'
  BY <1>5 DEF Expire, SlotHasTimer
<1>6. ASSUME NEW h \in fired, TimedOut(h)
      PROVE  SlotHasTimer'
  BY <1>6 DEF TimedOut, SlotHasTimer
<1> QED
  BY <1>1, <1>2, <1>3, <1>4, <1>5, <1>6, SlotFrame

-----------------------------------------------------------------------------
(***************************************************************************)
(* The channel belongs to the connection.  The invariant behind it: a      *)
(* confirm that is handled beside a reset is marked, the handshake in the  *)
(* slot is of this connection, and so is one that has passed its tag.      *)
(***************************************************************************)
ConfirmsMarked == Resetting # {} => InFlight \subseteq overlap

\* A handshake of this connection, or one confirmed beside a reset.
Fresh(h) == shakes[h].epoch = epoch \/ h \in overlap

\* A confirm whose channel will be, or may still be, installed.
WillInstall(m) == \/ m.pc = "install"
                  \/ m.pc = "verify" /\ m.server = m.hs

SlotCurrent == pake # None => shakes[pake].epoch = epoch
ConfirmCurrent ==
  \A t \in Transports : WillInstall(at[t]) => Fresh(at[t].hs)
ChannelInv == SlotCurrent /\ ConfirmCurrent /\ ChannelOfItsConnection

\* Every confirm that starts beside a reset, or that a reset starts beside,
\* is marked.
LEMMA MarkedStep ==
  TypeOK /\ ConfirmsMarked /\ [Next]_vars => ConfirmsMarked'
<1> SUFFICES ASSUME TypeOK, ConfirmsMarked, [Next]_vars,
                    NEW r \in Transports, at'[r].pc = "reset",
                    NEW c \in Transports,
                    at'[c].pc \in {"verify", "install", "mark", "restore"}
             PROVE  at'[c].hs \in overlap'
  BY DEF ConfirmsMarked, Resetting, InFlight, Confirming
<1>1. overlap \subseteq overlap'
  BY OverlapGrows
<1>2. at \in [Transports -> Activity]
  BY DEF TypeOK
<1>3. ASSUME at[r].pc = "reset",
             at[c].pc \in {"verify", "install", "mark", "restore"}
      PROVE  at[c].hs \in overlap
  BY <1>3 DEF ConfirmsMarked, Resetting, InFlight, Confirming
<1>4. ASSUME at[c].pc \in {"verify", "install", "mark", "restore"}
      PROVE  at[c].hs \in InFlight
  BY <1>4 DEF InFlight, Confirming
<1>5. CASE UNCHANGED at
  BY <1>1, <1>3, <1>5
<1>6. ASSUME NEW t \in Transports,
             \/ PakeReply(t) \/ RestoreBudget(t) \/ SetMode(t) \/ Kicked(t)
             \/ PakeStart(t) \/ ResetSecure(t)
      PROVE  at'[c].hs \in overlap'
  <2>1. /\ at' = [at EXCEPT ![t] = at'[t]]
        /\ at'[t].pc \in {"idle", "reply", "mode"}
    <3>1. CASE PakeReply(t) \/ RestoreBudget(t) \/ SetMode(t) \/ Kicked(t)
      <4>1. at' = [at EXCEPT ![t] = Idle]
        BY <3>1 DEF PakeReply, RestoreBudget, SetMode, Kicked, Step
      <4> QED
        BY <1>2, <4>1 DEF Idle
    <3>2. CASE PakeStart(t)
      BY <1>2, <3>2 DEF PakeStart, Step
    <3>3. CASE ResetSecure(t)
      BY <1>2, <3>3 DEF ResetSecure, Step
    <3> QED
      BY <1>6, <3>1, <3>2, <3>3
  <2>2. t # r /\ t # c
    BY <1>2, <2>1
  <2> QED
    BY <1>1, <1>2, <1>3, <2>1, <2>2
<1>7. ASSUME NEW t \in Transports, NEW h \in Ids, SecConfirm(t, h)
      PROVE  at'[c].hs \in overlap'
  <2>1. t # r => at[r].pc = "reset"
    BY <1>2, <1>7 DEF SecConfirm, Step
  <2>2. t # r
    BY <1>2, <1>7 DEF SecConfirm, Step, Idle
  <2>3. CASE c = t
    BY <1>2, <1>7, <2>1, <2>2, <2>3 DEF SecConfirm, Step, Resetting, Idle
  <2>4. CASE c # t
    BY <1>1, <1>2, <1>3, <1>7, <2>1, <2>2, <2>4 DEF SecConfirm, Step
  <2> QED
    BY <2>3, <2>4
<1>8. ASSUME NEW t \in Transports,
             ClearSlot(t) \/ InstallChannel(t) \/ MarkVerified(t)
      PROVE  at'[c].hs \in overlap'
  <2>1. PICK m : at' = [at EXCEPT ![t] = m] /\ m.pc # "reset"
                 /\ (m = Idle \/ m.hs = at[t].hs)
                 /\ at[t].pc \in {"verify", "install", "mark"}
    BY <1>8 DEF ClearSlot, InstallChannel, MarkVerified, Step, Idle
  <2>2. t # r /\ at[r].pc = "reset"
    BY <1>2, <2>1
  <2>3. c = t => m # Idle
    BY <1>2, <2>1 DEF Idle
  <2> QED
    BY <1>1, <1>2, <1>3, <2>1, <2>2, <2>3
<1>9. ASSUME NEW t \in Transports, NEW next,
             at' = [at EXCEPT ![t] = next],
             next.pc \notin {"verify", "install", "mark", "restore"},
             overlap' = overlap \cup InFlight
      PROVE  at'[c].hs \in overlap'
  <2>1. c # t /\ at'[c] = at[c]
    BY <1>2, <1>9
  <2> QED
    BY <1>4, <1>9, <2>1
<1>10. ASSUME NEW t \in Transports, NEW channel \in {"p2p", "ts"},
             ChannelSelect(t, channel)
      PROVE  at'[c].hs \in overlap'
  <2>1. CASE channel = "p2p"
    BY <1>9, <1>10, <2>1 DEF ChannelSelect, Step, MarkBeside
  <2>2. CASE channel = "ts"
    BY <1>1, <1>2, <1>3, <1>10, <2>2 DEF ChannelSelect, Step, Idle
  <2> QED
    BY <2>1, <2>2
<1>11. ASSUME NEW t \in Transports, PeerOffline(t)
      PROVE  at'[c].hs \in overlap'
  <2>1. CASE mode = "p2p"
    BY <1>1, <1>2, <1>3, <1>11, <2>1 DEF PeerOffline, Step, Idle
  <2>2. CASE mode # "p2p"
    BY <1>9, <1>11, <2>2 DEF PeerOffline, Step, MarkBeside
  <2> QED
    BY <2>1, <2>2
<1>12. ASSUME PeerOnline
       PROVE  at'[c].hs \in overlap'
  BY <1>9, <1>12, HandshakeAssumption DEF PeerOnline, Step, MarkBeside
<1> QED
  BY <1>5, <1>6, <1>7, <1>8, <1>10, <1>11, <1>12, ActivityFrame

\* Until the next reset a handshake of this connection stays one.
LEMMA FreshKept ==
  ASSUME TypeOK, [Next]_vars, epoch' = epoch
  PROVE  \A h \in Ids : /\ shakes'[h].epoch = shakes[h].epoch
                        /\ Fresh(h) => Fresh(h)'
<1>1. \A h \in Ids : shakes'[h].epoch = shakes[h].epoch
  <2>1. CASE UNCHANGED <<shakes, epoch>>
    BY <2>1
  <2>2. ASSUME NEW t \in Transports, PakeStart(t)
        PROVE  \A h \in Ids : shakes'[h].epoch = shakes[h].epoch
    BY <2>2, PakeStartShakes
  <2>3. ASSUME NEW t \in Transports, ResetSecure(t)
        PROVE  \A h \in Ids : shakes'[h].epoch = shakes[h].epoch
    BY <2>3 DEF ResetSecure
  <2>4. CASE PeerOnline
    BY <2>4, PeerOnlineShakes
  <2> QED
    BY <2>1, <2>2, <2>3, <2>4, ShakesFrame
<1> QED
  BY <1>1, OverlapGrows DEF Fresh

\* Only a reset ends a connection.
LEMMA EpochFrame ==
  [Next]_vars => epoch' = epoch \/ \E t \in Transports : ResetSecure(t)
BY ShakesFrame DEF PakeStart, PeerOnline

\* The slot never holds a handshake of a connection that has ended.
LEMMA SlotCurrentStep ==
  TypeOK /\ SlotCurrent /\ [Next]_vars => SlotCurrent'
<1> SUFFICES ASSUME TypeOK, SlotCurrent, [Next]_vars
             PROVE  SlotCurrent'
  OBVIOUS
<1>1. pake # None => pake \in Ids
  BY DEF TypeOK, SlotTyped, Maybe
<1>2. ASSUME NEW t \in Transports, ResetSecure(t)
      PROVE  SlotCurrent'
  BY <1>2 DEF ResetSecure, SlotDropped, SlotCurrent
<1>3. ASSUME NEW t \in Transports, PakeStart(t)
      PROVE  SlotCurrent'
  BY <1>3, PakeStartShakes DEF PakeStart, SlotCurrent
<1>4. ASSUME epoch' = epoch, pake' \in {pake, None}
      PROVE  SlotCurrent'
  BY <1>1, <1>4, FreshKept DEF SlotCurrent
<1>5. \/ pake' \in {pake, None}
      \/ \E t \in Transports : PakeStart(t)
  BY SlotFrame
  DEF slotVars, ClearSlot, SlotFreed, ResetSecure, SlotDropped, Expire,
      TimedOut
<1> QED
  BY <1>2, <1>3, <1>4, <1>5, EpochFrame

\* A confirm that passes its tag is of this connection, or is marked.
LEMMA ConfirmCurrentStep ==
  TypeOK /\ ConfirmsMarked /\ SlotCurrent /\ ConfirmCurrent /\ [Next]_vars
    => ConfirmCurrent'
<1> SUFFICES ASSUME TypeOK, ConfirmsMarked, SlotCurrent, ConfirmCurrent,
                    [Next]_vars,
                    NEW c \in Transports, WillInstall(at'[c])
             PROVE  Fresh(at[c].hs)'
  BY DEF ConfirmCurrent, WillInstall
<1>1. at \in [Transports -> Activity]
  BY DEF TypeOK
<1>2. WillInstall(at[c]) => at[c].hs \in Ids /\ Fresh(at[c].hs)
  BY ActivityFacts DEF ConfirmCurrent, WillInstall
<1>3. ASSUME at'[c] = at[c], epoch' = epoch
      PROVE  Fresh(at[c].hs)'
  BY <1>2, <1>3, FreshKept
<1>4. ASSUME NEW t \in Transports, ResetSecure(t)
      PROVE  Fresh(at[c].hs)'
  <2>1. t \in Resetting /\ at'[t].pc = "mode"
    BY <1>1, <1>4 DEF ResetSecure, Step, Resetting
  <2>2. at'[c] = at[c]
    BY <1>1, <1>4, <2>1 DEF ResetSecure, Step, WillInstall
  <2>3. at[c].hs \in overlap
    BY <2>1, <2>2 DEF ConfirmsMarked, InFlight, Confirming, WillInstall
  <2> QED
    BY <2>2, <2>3, OverlapGrows DEF Fresh
<1>5. ASSUME NEW t \in Transports, NEW h \in Ids, SecConfirm(t, h)
      PROVE  Fresh(at[c].hs)'
  <2>1. epoch' = epoch
    BY <1>5 DEF SecConfirm
  <2>2. CASE c # t
    BY <1>1, <1>3, <1>5, <2>1, <2>2 DEF SecConfirm, Step
  <2>3. CASE c = t
    <3>1. /\ pake # None
          /\ at'[c] = [pc |-> "verify", hs |-> h, server |-> pake]
      BY <1>1, <1>5, <2>3 DEF SecConfirm, Step, Idle, WillInstall
    <3>2. pake = h /\ at'[c].hs = h
      BY <3>1 DEF WillInstall
    <3>3. Fresh(h)
      BY <3>1, <3>2 DEF SlotCurrent, Fresh
    <3> QED
      BY <2>1, <3>2, <3>3, FreshKept
  <2> QED
    BY <2>2, <2>3
<1>6. ASSUME NEW t \in Transports, ClearSlot(t)
      PROVE  Fresh(at[c].hs)'
  <2>1. epoch' = epoch
    BY <1>6 DEF ClearSlot
  <2>2. CASE c # t
    BY <1>1, <1>3, <1>6, <2>1, <2>2 DEF ClearSlot, Step
  <2>3. CASE c = t
    <3>1. /\ WillInstall(at[c])
          /\ at'[c] = [pc |-> "install", hs |-> at[c].hs]
      BY <1>1, <1>6, <2>3
      DEF ClearSlot, Step, Idle, TagMatches, WillInstall
    <3> QED
      BY <1>2, <2>1, <3>1, FreshKept
  <2> QED
    BY <2>2, <2>3
<1>7. ASSUME NEW t \in Transports, NEW next,
             at' = [at EXCEPT ![t] = next], ~WillInstall(next),
             epoch' = epoch
      PROVE  Fresh(at[c].hs)'
  <2>1. c # t
    BY <1>1, <1>7
  <2> QED
    BY <1>1, <1>3, <1>7, <2>1
<1>8. ASSUME NEW t \in Transports,
             \/ PakeReply(t) \/ RestoreBudget(t) \/ SetMode(t) \/ Kicked(t)
      PROVE  Fresh(at[c].hs)'
  <2>1. at' = [at EXCEPT ![t] = Idle] /\ epoch' = epoch
    BY <1>8
    DEF PakeReply, RestoreBudget, SetMode, Kicked, Step, ghostVars
  <2>2. ~WillInstall(Idle)
    BY DEF Idle, WillInstall
  <2> QED
    BY <1>7, <2>1, <2>2
<1>9. ASSUME NEW t \in Transports,
             PakeStart(t) \/ InstallChannel(t) \/ MarkVerified(t)
      PROVE  Fresh(at[c].hs)'
  BY <1>7, <1>9 DEF PakeStart, InstallChannel, MarkVerified, Step, WillInstall
<1>10. ASSUME NEW t \in Transports, NEW channel \in {"p2p", "ts"},
              ChannelSelect(t, channel)
       PROVE  Fresh(at[c].hs)'
  BY <1>7, <1>10 DEF ChannelSelect, Step, Idle, WillInstall
<1>11. ASSUME NEW t \in Transports, PeerOffline(t)
       PROVE  Fresh(at[c].hs)'
  BY <1>7, <1>11 DEF PeerOffline, Step, Idle, WillInstall
<1>12. ASSUME PeerOnline
       PROVE  Fresh(at[c].hs)'
  <2> DEFINE next == [pc |-> "reset", why |-> "online"]
  <2>1. /\ Relay \in Transports
        /\ at' = [at EXCEPT ![Relay] = next] /\ epoch' = epoch
    BY <1>12, HandshakeAssumption DEF PeerOnline, Step
  <2>2. ~WillInstall(next)
    BY DEF WillInstall
  <2> HIDE DEF next
  <2> QED
    BY <1>7, <2>1, <2>2
<1>13. CASE UNCHANGED at
  BY <1>3, <1>4, <1>13, EpochFrame
<1> QED
  BY <1>4, <1>5, <1>6, <1>8, <1>9, <1>10, <1>11, <1>12, <1>13, ActivityFrame

\* So the channel that is installed belongs to the connection.
LEMMA ChannelStep ==
  TypeOK /\ ConfirmsMarked /\ ChannelInv /\ [Next]_vars => ChannelInv'
<1> SUFFICES ASSUME TypeOK, ConfirmsMarked, ChannelInv, [Next]_vars
             PROVE  ChannelOfItsConnection'
  BY SlotCurrentStep, ConfirmCurrentStep DEF ChannelInv
<1>1. secure # None => secure \in Ids /\ Fresh(secure)
  BY DEF ChannelInv, ChannelOfItsConnection, Fresh, TypeOK, FlagsTyped, Maybe
<1>2. ASSUME NEW t \in Transports, ResetSecure(t)
      PROVE  ChannelOfItsConnection'
  BY <1>2 DEF ResetSecure, ChannelOfItsConnection
<1>3. ASSUME NEW t \in Transports, InstallChannel(t)
      PROVE  ChannelOfItsConnection'
  <2>1. at[t].hs \in Ids /\ Fresh(at[t].hs)
    BY <1>3, ActivityFacts
    DEF InstallChannel, Step, ChannelInv, ConfirmCurrent, WillInstall
  <2>2. secure' = at[t].hs /\ epoch' = epoch
    BY <1>3 DEF InstallChannel
  <2> QED
    BY <2>1, <2>2, FreshKept DEF ChannelOfItsConnection, Fresh
<1>4. ASSUME secure' = secure, epoch' = epoch
      PROVE  ChannelOfItsConnection'
  BY <1>1, <1>4, FreshKept DEF ChannelOfItsConnection, Fresh
<1>5. \/ secure' = secure
      \/ \E t \in Transports : InstallChannel(t) \/ ResetSecure(t)
  BY ChannelFrame
  DEF MarkVerified, ChannelSelect, PeerOnline, SetSecCode
<1> QED
  BY <1>2, <1>3, <1>4, <1>5, EpochFrame

-----------------------------------------------------------------------------
(***************************************************************************)
(* secCodeVerified answers for the channel.  The invariant behind it: a    *)
(* confirm that is about to set the flag has its channel, and a reset that *)
(* is about to drop the channel has cleared the flag, peer_offline's       *)
(* excepted; a confirm that runs beside a reset is marked.                 *)
(***************************************************************************)
MarkHasChannel ==
  \A t \in Transports :
     at[t].pc = "mark" => secure # None \/ at[t].hs \in overlap
ResetUnverifies ==
  \A t \in Transports :
     at[t].pc = "reset" /\ at[t].why # "offline"
       => verified = 0 \/ by \in overlap
VerifiedInv == MarkHasChannel /\ ResetUnverifies /\ VerifiedHasChannel

\* A handshake is not nil: the second half of a confirm installs a channel.
LEMMA InstallSetsChannel ==
  ASSUME TypeOK, NEW t \in Transports, InstallChannel(t)
  PROVE  secure' # None
<1>1. secure' = at[t].hs /\ at[t].pc = "install"
  BY DEF InstallChannel, Step
<1>2. at[t].hs \in Nat
  BY <1>1, ActivityFacts, ShakeFacts
<1> QED
  BY <1>1, <1>2, HandshakeAssumption

\* A confirm between its channel and the flag keeps the channel, or is marked.
LEMMA MarkHasChannelStep ==
  TypeOK /\ ConfirmsMarked /\ MarkHasChannel /\ [Next]_vars
    => MarkHasChannel'
<1> SUFFICES ASSUME TypeOK, ConfirmsMarked, MarkHasChannel, [Next]_vars,
                    NEW c \in Transports, at'[c].pc = "mark"
             PROVE  secure' # None \/ at'[c].hs \in overlap'
  BY DEF MarkHasChannel
<1>1. at \in [Transports -> Activity]
  BY DEF TypeOK
<1>2. ASSUME at'[c] = at[c]
      PROVE  secure' # None \/ at'[c].hs \in overlap'
  <2>1. secure # None \/ at[c].hs \in overlap
    BY <1>2 DEF MarkHasChannel
  <2>2. ASSUME NEW t \in Transports, ResetSecure(t)
        PROVE  at[c].hs \in overlap
    BY <1>2, <2>2
    DEF ResetSecure, Step, ConfirmsMarked, Resetting, InFlight, Confirming
  <2>3. ASSUME NEW t \in Transports, InstallChannel(t)
        PROVE  secure' # None
    BY <2>3, InstallSetsChannel
  <2>4. \/ secure' = secure
        \/ \E t \in Transports : InstallChannel(t) \/ ResetSecure(t)
    BY ChannelFrame
    DEF MarkVerified, ChannelSelect, PeerOnline, SetSecCode
  <2> QED
    BY <1>2, <2>1, <2>2, <2>3, <2>4, OverlapGrows
<1>3. ASSUME NEW t \in Transports, InstallChannel(t)
      PROVE  secure' # None
  BY <1>3, InstallSetsChannel
<1>4. ASSUME NEW t \in Transports, NEW next,
             at' = [at EXCEPT ![t] = next], next.pc # "mark"
      PROVE  at'[c] = at[c]
  BY <1>1, <1>4
<1>5. ASSUME NEW t \in Transports, at' = [at EXCEPT ![t] = Idle]
      PROVE  at'[c] = at[c]
  BY <1>4, <1>5 DEF Idle
<1>6. ASSUME NEW t \in Transports,
             \/ PakeReply(t) \/ RestoreBudget(t) \/ SetMode(t) \/ Kicked(t)
      PROVE  at'[c] = at[c]
  BY <1>5, <1>6 DEF PakeReply, RestoreBudget, SetMode, Kicked, Step
<1>7. ASSUME NEW t \in Transports,
             PakeStart(t) \/ MarkVerified(t) \/ ResetSecure(t)
      PROVE  at'[c] = at[c]
  <2>1. CASE PakeStart(t)
    BY <1>4, <2>1 DEF PakeStart, Step
  <2>2. CASE MarkVerified(t)
    BY <1>4, <2>2 DEF MarkVerified, Step
  <2>3. CASE ResetSecure(t)
    BY <1>4, <2>3 DEF ResetSecure, Step
  <2> QED
    BY <1>7, <2>1, <2>2, <2>3
<1>8. ASSUME NEW t \in Transports,
             \/ \E h \in Ids : SecConfirm(t, h)
             \/ ClearSlot(t) \/ PeerOffline(t)
             \/ \E channel \in {"p2p", "ts"} : ChannelSelect(t, channel)
      PROVE  at'[c] = at[c]
  BY <1>4, <1>5, <1>8
  DEF SecConfirm, ClearSlot, PeerOffline, ChannelSelect, Step
<1>9. ASSUME PeerOnline
      PROVE  at'[c] = at[c]
  BY <1>4, <1>9, HandshakeAssumption DEF PeerOnline, Step
<1> QED
  BY <1>2, <1>3, <1>6, <1>7, <1>8, <1>9, ActivityFrame
\* What the flag says of a step that leaves it, its author and the channel.
LEMMA VerifiedFrame ==
  ASSUME [Next]_vars, UNCHANGED <<secure, verified, by, offline>>
  PROVE  VerifiedHasChannel => VerifiedHasChannel'
BY OverlapGrows DEF VerifiedHasChannel

\* While a reset is pending the flag stays down, or a marked confirm set it.
LEMMA ResetUnverifiesStep ==
  TypeOK /\ ConfirmsMarked /\ ResetUnverifies /\ [Next]_vars
    => ResetUnverifies'
<1> SUFFICES ASSUME TypeOK, ConfirmsMarked, ResetUnverifies, [Next]_vars,
                    NEW r \in Transports,
                    at'[r].pc = "reset", at'[r].why # "offline"
             PROVE  verified' = 0 \/ by' \in overlap'
  BY DEF ResetUnverifies
<1>1. at \in [Transports -> Activity]
  BY DEF TypeOK
<1>2. ASSUME at'[r] = at[r]
      PROVE  verified' = 0 \/ by' \in overlap'
  <2>1. verified = 0 \/ by \in overlap
    BY <1>2 DEF ResetUnverifies
  <2>2. ASSUME NEW t \in Transports, MarkVerified(t)
        PROVE  by' \in overlap'
    BY <1>2, <2>2, OverlapGrows
    DEF MarkVerified, Step, ConfirmsMarked, Resetting, InFlight, Confirming
  <2>3. \/ verified' = 0
        \/ verified' = verified /\ by' = by
        \/ \E t \in Transports : MarkVerified(t)
    BY ChannelFrame
    DEF InstallChannel, ResetSecure, ChannelSelect, Unverify, PeerOnline,
        SetSecCode
  <2> QED
    BY <2>1, <2>2, <2>3, OverlapGrows
<1>3. ASSUME NEW t \in Transports, NEW next,
             at' = [at EXCEPT ![t] = next], next.pc # "reset"
      PROVE  at'[r] = at[r]
  BY <1>1, <1>3
<1>4. ASSUME NEW t \in Transports, at' = [at EXCEPT ![t] = Idle]
      PROVE  at'[r] = at[r]
  BY <1>3, <1>4 DEF Idle
<1>5. ASSUME NEW t \in Transports,
             \/ PakeReply(t) \/ RestoreBudget(t) \/ SetMode(t) \/ Kicked(t)
      PROVE  at'[r] = at[r]
  BY <1>4, <1>5 DEF PakeReply, RestoreBudget, SetMode, Kicked, Step
<1>6. ASSUME NEW t \in Transports,
             \/ PakeStart(t)
             \/ \E h \in Ids : SecConfirm(t, h)
             \/ ClearSlot(t) \/ InstallChannel(t)
      PROVE  at'[r] = at[r]
  <2>1. CASE PakeStart(t)
    BY <1>3, <2>1 DEF PakeStart, Step
  <2>2. CASE \E h \in Ids : SecConfirm(t, h)
    BY <1>3, <1>4, <2>2 DEF SecConfirm, Step
  <2>3. CASE ClearSlot(t)
    BY <1>3, <1>4, <2>3 DEF ClearSlot, Step
  <2>4. CASE InstallChannel(t)
    BY <1>3, <2>4 DEF InstallChannel, Step
  <2> QED
    BY <1>6, <2>1, <2>2, <2>3, <2>4
<1>7. ASSUME NEW t \in Transports, MarkVerified(t)
      PROVE  at'[r] = at[r]
  BY <1>3, <1>7 DEF MarkVerified, Step
<1>8. ASSUME NEW t \in Transports, ResetSecure(t)
      PROVE  at'[r] = at[r]
  BY <1>3, <1>8 DEF ResetSecure, Step
<1>9. ASSUME NEW t \in Transports, PeerOffline(t)
      PROVE  at'[r] = at[r]
  BY <1>1, <1>4, <1>9 DEF PeerOffline, Step
<1>10. ASSUME NEW t \in Transports, NEW channel \in {"p2p", "ts"},
              ChannelSelect(t, channel)
       PROVE  verified' = 0 \/ at'[r] = at[r]
  BY <1>4, <1>10 DEF ChannelSelect, Step, Unverify
<1>11. ASSUME PeerOnline
       PROVE  verified' = 0
  BY <1>11 DEF PeerOnline, Unverify
<1> QED
  BY <1>2, <1>5, <1>6, <1>7, <1>8, <1>9, <1>10, <1>11, ActivityFrame

\* The flag stands for a channel.
LEMMA VerifiedStep ==
  TypeOK /\ ConfirmsMarked /\ VerifiedInv /\ [Next]_vars => VerifiedInv'
<1> SUFFICES ASSUME TypeOK, ConfirmsMarked, VerifiedInv, [Next]_vars
             PROVE  VerifiedHasChannel'
  BY MarkHasChannelStep, ResetUnverifiesStep DEF VerifiedInv
<1>1. VerifiedHasChannel
  BY DEF VerifiedInv
<1>2. ASSUME NEW t \in Transports, InstallChannel(t)
      PROVE  VerifiedHasChannel'
  BY <1>2, InstallSetsChannel DEF VerifiedHasChannel
<1>3. ASSUME NEW t \in Transports, MarkVerified(t)
      PROVE  VerifiedHasChannel'
  BY <1>3, OverlapGrows
  DEF MarkVerified, Step, VerifiedInv, MarkHasChannel, VerifiedHasChannel
<1>4. ASSUME NEW t \in Transports, ResetSecure(t)
      PROVE  VerifiedHasChannel'
  <2>1. CASE at[t].why = "offline"
    BY <1>4, <2>1 DEF ResetSecure, VerifiedHasChannel
  <2>2. CASE at[t].why # "offline"
    BY <1>4, <2>2, OverlapGrows
    DEF ResetSecure, Step, VerifiedInv, ResetUnverifies, VerifiedHasChannel
  <2> QED
    BY <2>1, <2>2
<1>5. ASSUME NEW t \in Transports, NEW channel \in {"p2p", "ts"},
             ChannelSelect(t, channel)
      PROVE  VerifiedHasChannel'
  BY <1>1, <1>5, OverlapGrows DEF ChannelSelect, Unverify, VerifiedHasChannel
<1>6. CASE PeerOnline \/ SetSecCode
  BY <1>6 DEF PeerOnline, Unverify, SetSecCode, VerifiedHasChannel
<1> QED
  BY <1>1, <1>2, <1>3, <1>4, <1>5, <1>6, VerifiedFrame, ChannelFrame
-----------------------------------------------------------------------------
(***************************************************************************)
(* Who is turned away.  The invariant behind it: as long as nothing        *)
(* happened to a handshake whose app has not confirmed it yet, the slot is *)
(* its own, with its own timer, no older callback waits for the lock, and  *)
(* every confirm being verified is checked against the wrong server.       *)
(***************************************************************************)
\* Its pake_reply is on the way, or the app holds it.
Awaited(h) ==
  h \in replied \/ \E t \in Transports : at[t].pc = "reply" /\ at[t].hs = h

HasSlot(h) ==
  /\ pake = h /\ timer = h /\ fired = {}
  /\ \A t \in Transports : at[t].pc = "verify" => at[t].server # at[t].hs

\* A handshake is answered once, and used once.
AnsweredOnce ==
  /\ \A t \in Transports : at[t].pc = "reply" => at[t].hs \notin replied
  /\ \A t, u \in Transports :
        at[t].pc = "reply" /\ at[u].pc = "reply" /\ at[t].hs = at[u].hs
          => t = u

PendingInv ==
  /\ AnsweredOnce
  /\ \A h \in Ids : Awaited(h) /\ h \notin disturbed => HasSlot(h)
  /\ RefusedOnlyWhenDisturbed

\* The steps that matter here; every other one leaves the slot and the
\* records alone, and no goroutine begins to reply or to verify in it.
LEMMA PendingFrame ==
  ASSUME TypeOK, [Next]_vars
  PROVE  \/ \E t \in Transports : \/ PakeStart(t) \/ PakeReply(t)
                                  \/ \E h \in Ids : SecConfirm(t, h)
                                  \/ ClearSlot(t) \/ ResetSecure(t)
         \/ \E h \in armed : Expire(h)
         \/ \E h \in fired : TimedOut(h)
         \/ /\ UNCHANGED <<pake, timer, fired, replied, refused, disturbed>>
            /\ \A u \in Transports :
                  at'[u] = at[u] \/ at'[u].pc \notin {"reply", "verify"}
<1>0. at \in [Transports -> Activity]
  BY DEF TypeOK
<1>1. ASSUME NEW t \in Transports, NEW a, a.pc \notin {"reply", "verify"},
             at' = [at EXCEPT ![t] = a]
      PROVE  \A u \in Transports :
                at'[u] = at[u] \/ at'[u].pc \notin {"reply", "verify"}
  BY <1>0, <1>1
<1>2. ASSUME NEW t \in Transports,
             InstallChannel(t) \/ MarkVerified(t) \/ RestoreBudget(t)
      PROVE  /\ UNCHANGED <<pake, timer, fired, replied, refused, disturbed>>
             /\ \A u \in Transports :
                   at'[u] = at[u] \/ at'[u].pc \notin {"reply", "verify"}
  <2>1. \E a : at' = [at EXCEPT ![t] = a] /\ a.pc \notin {"reply", "verify"}
    BY <1>2 DEF InstallChannel, MarkVerified, RestoreBudget, Step, Idle
  <2> QED
    BY <1>1, <1>2, <2>1 DEF InstallChannel, MarkVerified, RestoreBudget,
       slotVars, ghostVars
<1>3. ASSUME NEW t \in Transports, PeerOffline(t) \/ SetMode(t) \/ Kicked(t)
      PROVE  /\ UNCHANGED <<pake, timer, fired, replied, refused, disturbed>>
             /\ \A u \in Transports :
                   at'[u] = at[u] \/ at'[u].pc \notin {"reply", "verify"}
  <2>1. \E a : at' = [at EXCEPT ![t] = a] /\ a.pc \notin {"reply", "verify"}
    BY <1>3 DEF PeerOffline, SetMode, Kicked, Step, Idle
  <2> QED
    BY <1>1, <1>3, <2>1 DEF PeerOffline, SetMode, Kicked, slotVars, ghostVars
<1>4. ASSUME NEW t \in Transports, NEW channel \in {"p2p", "ts"},
             ChannelSelect(t, channel)
      PROVE  /\ UNCHANGED <<pake, timer, fired, replied, refused, disturbed>>
             /\ \A u \in Transports :
                   at'[u] = at[u] \/ at'[u].pc \notin {"reply", "verify"}
  <2>1. \E a : at' = [at EXCEPT ![t] = a] /\ a.pc \notin {"reply", "verify"}
    BY <1>4 DEF ChannelSelect, Step, Idle
  <2> QED
    BY <1>1, <1>4, <2>1 DEF ChannelSelect, slotVars
<1>5. ASSUME PeerOnline
      PROVE  /\ UNCHANGED <<pake, timer, fired, replied, refused, disturbed>>
             /\ \A u \in Transports :
                   at'[u] = at[u] \/ at'[u].pc \notin {"reply", "verify"}
  <2>1. \E a : at' = [at EXCEPT ![Relay] = a] /\ a.pc \notin {"reply", "verify"}
    <3>1. at' = [at EXCEPT ![Relay] = [pc |-> "reset", why |-> "online"]]
      BY <1>5 DEF PeerOnline, Step
    <3>2. [pc |-> "reset", why |-> "online"].pc \notin {"reply", "verify"}
      OBVIOUS
    <3> QED
      BY <3>1, <3>2
  <2> QED
    BY <1>1, <1>5, <2>1, HandshakeAssumption DEF PeerOnline, slotVars
<1>6. ASSUME \/ SetSecCode \/ UnsetSecCode \/ WrapCheck \/ WrapTake
             \/ ExitLocked \/ UNCHANGED vars
      PROVE  /\ UNCHANGED <<pake, timer, fired, replied, refused, disturbed>>
             /\ UNCHANGED at
  BY <1>6 DEF SetSecCode, UnsetSecCode, WrapCheck, WrapTake, ExitLocked,
     vars, slotVars, ghostVars
<1> QED
  BY <1>2, <1>3, <1>4, <1>5, <1>6 DEF Next

\* Whether the app used the daemon's code never changes.
LEMMA RightKept ==
  ASSUME TypeOK, [Next]_vars, NEW h \in Ids
  PROVE  h \in Ids' /\ shakes'[h].right = shakes[h].right
<1>1. ASSUME PeerOnline PROVE shakes'[h].right = shakes[h].right
  <2>1. shakes[h] \in [via : Transports, right : BOOLEAN, epoch : Nat,
                       gone : BOOLEAN]
    BY ShakeFacts
  <2> QED
    BY <1>1, <2>1 DEF PeerOnline
<1>2. ASSUME NEW t \in Transports, PakeStart(t)
      PROVE  shakes'[h].right = shakes[h].right
  BY <1>2, PakeStartShakes
<1>3. ASSUME NEW t \in Transports, ResetSecure(t)
      PROVE  shakes'[h].right = shakes[h].right
  BY <1>3 DEF ResetSecure
<1>4. h \in Ids'
  BY ShakesStep
<1> QED
  BY <1>1, <1>2, <1>3, <1>4, ShakesFrame

LEMMA PendingStep ==
  ASSUME TypeOK, PendingInv, [Next]_vars
  PROVE  PendingInv'
<1>0. /\ at \in [Transports -> Activity] /\ SlotTyped
      /\ replied \subseteq Ids /\ refused \subseteq Ids /\ disturbed \subseteq Ids
      /\ Ids \subseteq Ids'
      /\ \A h \in Ids : shakes'[h].right = shakes[h].right
  BY RightKept DEF TypeOK, HistoryTyped
<1>a. \A t \in Transports : at[t].pc = "reply" => at[t].hs \in Ids
  BY ActivityFacts
<1>1. ASSUME refused' = refused, disturbed \subseteq disturbed'
      PROVE  RefusedOnlyWhenDisturbed'
  BY <1>0, <1>1 DEF PendingInv, RefusedOnlyWhenDisturbed
<1>2. ASSUME NEW t \in Transports, PakeStart(t) PROVE PendingInv'
  <2> DEFINE n == Len(shakes) + 1
  <2>1. /\ Ids' = Ids \cup {n} /\ n \notin Ids /\ at[t].pc = "idle"
        /\ at' = [at EXCEPT ![t] = [pc |-> "reply", hs |-> n]]
        /\ pake' = n /\ timer' = n
        /\ disturbed' = disturbed \cup Ids
              \cup {x \in {n} : fired # {} \/ Verifying # {}}
        /\ UNCHANGED <<fired, replied, refused>>
    <3>1. n \notin Ids
      <4>1. Ids = 1..Len(shakes) /\ Len(shakes) \in Nat
        BY ShakeFacts DEF TypeOK, ShakesTyped
      <4> QED
        BY <4>1
    <3> QED
      BY <1>2, <3>1, PakeStartShakes DEF PakeStart, Step
  <2> HIDE DEF n
  <2>2. /\ at'[t].pc = "reply" /\ at'[t].hs = n
        /\ \A u \in Transports \ {t} : at'[u] = at[u]
    BY <1>0, <2>1
  <2>3. AnsweredOnce'
    BY <1>0, <1>a, <2>1, <2>2 DEF PendingInv, AnsweredOnce
  <2>4. ASSUME NEW h \in Ids', h \notin disturbed' PROVE HasSlot(h)'
    <3>1. h = n /\ fired = {} /\ Verifying = {}
      BY <2>1, <2>4
    <3>2. \A u \in Transports : at'[u].pc # "verify"
      BY <2>2, <3>1 DEF Verifying
    <3> QED
      BY <2>1, <3>1, <3>2 DEF HasSlot
  <2>5. RefusedOnlyWhenDisturbed'
    BY <1>1, <2>1
  <2> QED
    BY <2>3, <2>4, <2>5 DEF PendingInv
<1>3. ASSUME NEW t \in Transports, PakeReply(t) PROVE PendingInv'
  <2>1. /\ at[t].pc = "reply" /\ at' = [at EXCEPT ![t] = Idle]
        /\ replied' \subseteq replied \cup {at[t].hs}
        /\ UNCHANGED <<pake, timer, fired, refused, disturbed, shakes>>
    BY <1>3 DEF PakeReply, Step, slotVars
  <2>2. /\ at'[t].pc = "idle" /\ \A u \in Transports \ {t} : at'[u] = at[u]
    BY <1>0, <2>1 DEF Idle
  <2>3. AnsweredOnce'
    BY <2>1, <2>2 DEF PendingInv, AnsweredOnce
  <2>4. Ids' = Ids /\ \A h : Awaited(h)' => Awaited(h)
    BY <2>1, <2>2 DEF Awaited, Ids
  <2>5. \A h : HasSlot(h) => HasSlot(h)'
    BY <2>1, <2>2 DEF HasSlot
  <2> QED
    BY <1>1, <2>1, <2>3, <2>4, <2>5 DEF PendingInv
<1>4. ASSUME NEW t \in Transports, NEW g \in Ids, SecConfirm(t, g)
      PROVE  PendingInv'
  <2>1. /\ g \in replied /\ replied' = replied \ {g} /\ at[t].pc = "idle"
        /\ UNCHANGED <<pake, timer, fired, disturbed, shakes>>
        /\ \/ /\ pake = None /\ at' = [at EXCEPT ![t] = Idle]
              /\ refused' = refused \cup {g}
           \/ /\ at' = [at EXCEPT ![t] = [pc |-> "verify", hs |-> g,
                                          server |-> pake]]
              /\ refused' = refused
    BY <1>4 DEF SecConfirm, Confirmable, Step, slotVars
  <2>2. /\ \A u \in Transports \ {t} : at'[u] = at[u]
        /\ \/ at'[t].pc = "idle"
           \/ at'[t].pc = "verify" /\ at'[t].hs = g /\ at'[t].server = pake
    BY <1>0, <2>1 DEF Idle
  <2>3. AnsweredOnce'
    BY <2>1, <2>2 DEF PendingInv, AnsweredOnce
  <2>4. ASSUME NEW h \in Ids', Awaited(h)', h \notin disturbed'
        PROVE  HasSlot(h)'
    <3>1. h # g
      BY <2>1, <2>2, <2>4 DEF PendingInv, AnsweredOnce, Awaited
    <3>2. h \in Ids /\ Awaited(h)
      BY <2>1, <2>2, <2>4 DEF Awaited, Ids
    <3>3. HasSlot(h)
      BY <2>1, <2>4, <3>2 DEF PendingInv
    <3> QED
      BY <2>1, <2>2, <3>1, <3>3 DEF HasSlot
  <2>5. RefusedOnlyWhenDisturbed'
    <3>1. CASE refused' = refused
      BY <1>1, <2>1, <3>1
    <3>2. CASE pake = None /\ refused' = refused \cup {g}
      <4>1. g # None
        BY ShakeFacts, HandshakeAssumption DEF TypeOK, ShakesTyped
      <4>2. g \in disturbed
        BY <2>1, <3>2, <4>1 DEF PendingInv, Awaited, HasSlot
      <4> QED
        BY <1>0, <2>1, <3>2, <4>2 DEF PendingInv, RefusedOnlyWhenDisturbed
    <3> QED
      BY <2>1, <3>1, <3>2
  <2> QED
    BY <2>3, <2>4, <2>5 DEF PendingInv
<1>5. ASSUME NEW t \in Transports, ClearSlot(t) PROVE PendingInv'
  <2> DEFINE m == at[t]
  <2>1. /\ m.pc = "verify" /\ UNCHANGED <<fired, replied, shakes>>
        /\ disturbed' = IF m.server = m.hs THEN disturbed
                        ELSE disturbed \cup Ids
        /\ \/ refused' = refused
           \/ ~TagMatches(m) /\ refused' = refused \cup {m.hs}
        /\ \/ at' = [at EXCEPT ![t] = Idle]
           \/ at' = [at EXCEPT ![t] = [pc |-> "install", hs |-> m.hs]]
    BY <1>5 DEF ClearSlot, Step, Reject
  <2>2. /\ \A u \in Transports \ {t} : at'[u] = at[u]
        /\ at'[t].pc \in {"idle", "install"} /\ m.hs \in Ids
        /\ Ids' = Ids
    BY <1>0, <2>1, ActivityFacts DEF Idle, Ids
  <2> HIDE DEF m
  <2>3. AnsweredOnce'
    BY <2>1, <2>2 DEF PendingInv, AnsweredOnce
  <2>4. ASSUME NEW h \in Ids', Awaited(h)', h \notin disturbed' PROVE FALSE
    <3>1. m.server = m.hs
      BY <2>1, <2>2, <2>4
    <3>2. Awaited(h) /\ h \in Ids /\ h \notin disturbed
      BY <2>1, <2>2, <2>4, <3>1 DEF Awaited
    <3>3. HasSlot(h)
      BY <3>2 DEF PendingInv
    <3> QED
      BY <2>1, <3>1, <3>3 DEF HasSlot, m
  <2>5. RefusedOnlyWhenDisturbed'
    <3>1. disturbed \subseteq disturbed'
      BY <2>1
    <3>2. CASE refused' = refused
      BY <1>1, <3>1, <3>2
    <3>3. CASE ~TagMatches(m) /\ refused' = refused \cup {m.hs}
      <4>1. shakes[m.hs].right => m.hs \in disturbed'
        BY <2>1, <2>2, <3>3 DEF TagMatches
      <4> QED
        BY <1>0, <2>1, <3>1, <3>3, <4>1
        DEF PendingInv, RefusedOnlyWhenDisturbed
    <3> QED
      BY <2>1, <3>2, <3>3
  <2> QED
    BY <2>3, <2>4, <2>5 DEF PendingInv
<1>6. ASSUME NEW t \in Transports, ResetSecure(t) PROVE PendingInv'
  <2>1. /\ at' = [at EXCEPT ![t] = [pc |-> "mode", why |-> at[t].why]]
        /\ disturbed' = disturbed \cup Ids
        /\ UNCHANGED <<replied, refused, shakes>>
    BY <1>6 DEF ResetSecure, Step
  <2>2. /\ \A u \in Transports \ {t} : at'[u] = at[u]
        /\ at'[t].pc = "mode" /\ Ids' = Ids
    BY <1>0, <2>1 DEF Ids
  <2>3. AnsweredOnce'
    BY <2>1, <2>2 DEF PendingInv, AnsweredOnce
  <2> QED
    BY <1>1, <2>1, <2>2, <2>3 DEF PendingInv
<1>7. ASSUME NEW g \in armed, Expire(g) PROVE PendingInv'
  <2>1. /\ disturbed' = disturbed \cup {g} /\ fired' = fired \cup {g}
        /\ UNCHANGED <<pake, timer, replied, refused, shakes, at>>
        /\ g = timer
    BY <1>0, <1>7 DEF Expire, SlotTyped
  <2>2. Ids' = Ids /\ AnsweredOnce' /\ \A h : Awaited(h)' <=> Awaited(h)
    BY <2>1 DEF PendingInv, AnsweredOnce, Awaited, Ids
  <2>3. \A h \in Ids : ~(Awaited(h) /\ h \notin disturbed')
    BY <2>1 DEF PendingInv, HasSlot
  <2> QED
    BY <1>1, <2>1, <2>2, <2>3 DEF PendingInv
<1>8. ASSUME NEW g \in fired, TimedOut(g) PROVE PendingInv'
  <2>1. UNCHANGED <<replied, refused, disturbed, shakes, at>>
    BY <1>8 DEF TimedOut, ghostVars
  <2>2. Ids' = Ids /\ AnsweredOnce' /\ \A h : Awaited(h)' <=> Awaited(h)
    BY <2>1 DEF PendingInv, AnsweredOnce, Awaited, Ids
  <2>3. \A h \in Ids : ~(Awaited(h) /\ h \notin disturbed)
    BY <1>8 DEF PendingInv, HasSlot
  <2> QED
    BY <1>1, <2>1, <2>2, <2>3 DEF PendingInv
<1>9. ASSUME UNCHANGED <<pake, timer, fired, replied, refused, disturbed>>,
             \A u \in Transports :
                at'[u] = at[u] \/ at'[u].pc \notin {"reply", "verify"},
             ~\E t \in Transports : PakeStart(t)
      PROVE  PendingInv'
  <2>1. AnsweredOnce' /\ \A h : Awaited(h)' => Awaited(h)
    BY <1>9 DEF PendingInv, AnsweredOnce, Awaited
  <2>2. \A h : HasSlot(h) => HasSlot(h)'
    BY <1>9 DEF HasSlot
  <2>3. \A h : Awaited(h) => h \in Ids
    BY <1>0, <1>a DEF Awaited
  <2> QED
    BY <1>1, <1>9, <2>1, <2>2, <2>3 DEF PendingInv
<1> QED
  BY <1>2, <1>3, <1>4, <1>5, <1>6, <1>7, <1>8, <1>9, PendingFrame

-----------------------------------------------------------------------------
(***************************************************************************)
(* The theorems.                                                           *)
(***************************************************************************)
\* At the start there is no handshake, no channel and no handler running.
LEMMA InitFacts ==
  ASSUME Init
  PROVE  /\ TypeOK /\ SlotHasTimer
         /\ ConfirmsMarked /\ ChannelInv /\ VerifiedInv
<1>1. at = [t \in Transports |-> Idle]
  BY DEF Init
<1>2. \A t \in Transports : at[t].pc = "idle"
  BY <1>1 DEF Idle
<1>3. TypeOK
  <2>1. ShakesTyped
    <3>1. shakes = <<>> /\ epoch = 0
      BY DEF Init
    <3>2. shakes \in Seq([via : Transports, right : BOOLEAN, epoch : Nat,
                          gone : BOOLEAN])
      BY <3>1
    <3>3. Len(shakes) = 0 /\ Ids = {}
      BY <3>1 DEF Ids
    <3> QED
      BY <3>1, <3>2, <3>3, HandshakeAssumption DEF ShakesTyped
  <2>2. SlotTyped
    BY DEF Init, SlotTyped, Maybe
  <2>3. FlagsTyped
    <3>1. attempts \in Int /\ attempts <= MaxAttempts
      <4>1. attempts = MaxAttempts
        BY DEF Init
      <4> QED
        BY <4>1, HandshakeAssumption
    <3>2. locked = FALSE /\ enabled \in BOOLEAN
      BY DEF Init
    <3>3. /\ secure = None /\ by = None /\ verified = 0
          /\ mode = "" /\ wrap = "idle" /\ down = ""
      BY DEF Init
    <3> QED
      BY <3>1, <3>2, <3>3 DEF FlagsTyped, Maybe
  <2>4. HistoryTyped
    BY DEF Init, HistoryTyped
  <2> QED
    BY <1>1, <2>1, <2>2, <2>3, <2>4, MakeActivity DEF TypeOK
<1>4. SlotHasTimer
  BY DEF Init, SlotHasTimer
<1>5. ConfirmsMarked
  BY <1>2 DEF ConfirmsMarked, Resetting
<1>6. ChannelInv
  BY <1>2
  DEF Init, ChannelInv, SlotCurrent, ConfirmCurrent, WillInstall,
      ChannelOfItsConnection
<1>7. VerifiedInv
  <2>1. verified = 0
    BY DEF Init
  <2> QED
    BY <1>2, <2>1
    DEF VerifiedInv, MarkHasChannel, ResetUnverifies, VerifiedHasChannel
<1> QED
  BY <1>3, <1>4, <1>5, <1>6, <1>7

(***************************************************************************)
(* Every reachable state of the handshake is well-typed; in particular     *)
(* pakeTimer is never left pointing at one timer while another one ticks.  *)
(***************************************************************************)
THEOREM HandshakeTypeCorrect == HandshakeSpec => []TypeOK
<1>1. Init => TypeOK
  BY InitFacts
<1> QED
  BY <1>1, TypeStep, PTL DEF HandshakeSpec

(***************************************************************************)
(* A handshake in the slot always has a timer that takes it out again, for *)
(* every number of transports and handshakes.                              *)
(***************************************************************************)
THEOREM SlotAlwaysTimed == HandshakeSpec => []SlotHasTimer
<1>1. Init => SlotHasTimer
  BY InitFacts
<1> QED
  BY <1>1, SlotTimerStep, PTL DEF HandshakeSpec

(***************************************************************************)
(* The channel in use was negotiated since the last reset, unless its      *)
(* confirm ran on one transport while the other one ran the reset.         *)
(***************************************************************************)
THEOREM ChannelIsCurrent == HandshakeSpec => []ChannelOfItsConnection
<1>1. Init => TypeOK /\ ConfirmsMarked /\ ChannelInv
  BY InitFacts
<1>2. ChannelInv => ChannelOfItsConnection
  BY DEF ChannelInv
<1> QED
  BY <1>1, <1>2, TypeStep, MarkedStep, ChannelStep, PTL DEF HandshakeSpec

(***************************************************************************)
(* secCodeVerified is 1 without a channel only after peer_offline, or      *)
(* after a confirm that ran beside a reset.                                *)
(***************************************************************************)
THEOREM VerifiedStandsForChannel == HandshakeSpec => []VerifiedHasChannel
<1>1. Init => TypeOK /\ ConfirmsMarked /\ VerifiedInv
  BY InitFacts
<1>2. VerifiedInv => VerifiedHasChannel
  BY DEF VerifiedInv
<1> QED
  BY <1>1, <1>2, TypeStep, MarkedStep, VerifiedStep, PTL DEF HandshakeSpec

(***************************************************************************)
(* An app with the right code is turned away only if something happened to *)
(* its handshake: a later pake_start, a reset, a timeout of its own or one *)
(* that was already waiting when it began, or somebody else's confirm      *)
(* (handlePakeStart, handleSecConfirm, resetSecure).                       *)
(***************************************************************************)
THEOREM NobodyTurnedAway == HandshakeSpec => []RefusedOnlyWhenDisturbed
<1>1. Init => TypeOK
  BY InitFacts
<1>2. Init => PendingInv
  <2>1. Init => /\ replied = {} /\ refused = {}
                /\ \A t \in Transports : at[t].pc = "idle"
    <3> SUFFICES ASSUME Init
                 PROVE  /\ replied = {} /\ refused = {}
                        /\ \A t \in Transports : at[t].pc = "idle"
      OBVIOUS
    <3>1. /\ at = [t \in Transports |-> Idle]
          /\ replied = {} /\ refused = {}
      BY DEF Init
    <3> QED
      BY <3>1 DEF Idle
  <2> QED
    BY <2>1 DEF PendingInv, AnsweredOnce, Awaited, RefusedOnlyWhenDisturbed
<1>3. PendingInv => RefusedOnlyWhenDisturbed
  BY DEF PendingInv
<1> QED
  BY <1>1, <1>2, <1>3, TypeStep, PendingStep, PTL DEF HandshakeSpec
=============================================================================
