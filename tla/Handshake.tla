------------------------------ MODULE Handshake ------------------------------
(***************************************************************************)
(* The daemon's side of the SPAKE2 handshake (secure_handshake.go) and the *)
(* handlers of daemon.go that tear its result down.                        *)
(*                                                                         *)
(* Every transport has one goroutine that handles its messages in order:   *)
(* the relay's read loop and the data channel's callback.  They share the  *)
(* single handshake slot (pakeServer, pakeSid, pakeTimer), the channel     *)
(* (secure), the flag secCodeVerified and the attempt budget.  A step is a *)
(* critical section of secureMu or one atomic access, so the goroutines,   *)
(* the timer callbacks and a sender that wraps a message interleave        *)
(* wherever the code lets them.                                            *)
(*                                                                         *)
(* Cryptography is abstracted to its verdict: the tag of a sec_confirm is  *)
(* accepted when the server state it is checked against is the one of its  *)
(* own pake_start and the app used the daemon's code.                      *)
(***************************************************************************)
EXTENDS Integers, Sequences, FiniteSets

CONSTANTS
    Transports,     \* the goroutines that run handleMessage
    Relay,          \* the one that also gets the relay's signals
    None,           \* no handshake, no timer, no channel (nil)
    MaxAttempts,    \* MaxSecCodeAttempts
    MaxShakes,      \* bound: handshakes the apps start
    MaxResets       \* bound: signals that reset the channel

ASSUME HandshakeAssumption ==
    /\ Relay \in Transports
    /\ None \notin Nat
    /\ MaxAttempts \in Nat \ {0}
    /\ MaxShakes \in Nat
    /\ MaxResets \in Nat

VARIABLES
    pake,       \* the handshake in the slot: pakeServer and pakeSid
    timer,      \* pakeTimer: the handshake it was made for
    armed,      \* timers that are still ticking
    fired,      \* timers whose callback waits for secureMu
    secure,     \* the channel in use, named by the handshake that made it
    verified,   \* secCodeVerified
    enabled,    \* secCodeEnabled
    attempts,   \* secCodeAttemptsLeft
    mode,       \* channelMode
    at,         \* what every transport's goroutine is doing
    wrap,       \* where the sender is inside wrapOutgoingJSON
    locked,     \* the goroutine that will end the daemon has been started
    down        \* why the daemon ended: "", "locked" or "nil channel"

\* The apps, and history the program does not keep.
VARIABLES
    shakes,     \* the handshakes started so far, in order
    replied,    \* those whose pake_reply the app holds and has not used
    refused,    \* those whose sec_confirm was refused or ignored
    disturbed,  \* those another event took the slot from, or may have
    overlap,    \* those whose confirm ran beside a reset
    by,         \* the handshake that last set secCodeVerified
    epoch,      \* resets of the channel so far
    offline     \* the last one was for a peer that went away

slotVars == <<pake, timer, armed, fired>>
flagVars == <<secure, verified, enabled, attempts, mode>>
doomVars == <<wrap, locked, down>>
ghostVars == <<shakes, replied, refused, disturbed, overlap, by, epoch,
               offline>>
vars == <<slotVars, flagVars, doomVars, ghostVars, at>>

-----------------------------------------------------------------------------
Idle == [pc |-> "idle"]
Ids == DOMAIN shakes

\* The handlers in the middle of a sec_confirm, and of a reset.
Confirming == {t \in Transports :
                  at[t].pc \in {"verify", "install", "mark", "restore"}}
Resetting == {t \in Transports : at[t].pc = "reset"}
InFlight == {at[t].hs : t \in Confirming}
Verifying == {t \in Transports : at[t].pc = "verify"}

Running == down = ""
Step(t, pc, next) == /\ Running
                     /\ at[t].pc = pc
                     /\ at' = [at EXCEPT ![t] = next]

Init ==
    /\ pake = None /\ timer = None /\ armed = {} /\ fired = {}
    /\ secure = None /\ verified = 0 /\ mode = ""
    /\ enabled \in BOOLEAN
    /\ attempts = MaxAttempts
    /\ at = [t \in Transports |-> Idle]
    /\ wrap = "idle" /\ locked = FALSE /\ down = ""
    /\ shakes = <<>> /\ replied = {} /\ refused = {}
    /\ disturbed = {} /\ overlap = {}
    /\ by = None /\ epoch = 0 /\ offline = FALSE

-----------------------------------------------------------------------------
(***************************************************************************)
(* pake_start.  The slot and the timer are replaced in one critical        *)
(* section; Stop does nothing to a timer whose callback already waits.     *)
(***************************************************************************)
\* Mutant of Stopped: the old timer is left to run.
StoppedNever == armed
\* d.pakeTimer.Stop(), which is a no-op once the timer has expired.
Stopped == armed \ {timer}

PakeStart(t) ==
    LET h == Len(shakes) + 1
    IN  /\ Len(shakes) < MaxShakes
        /\ Step(t, "idle", [pc |-> "reply", hs |-> h])
        /\ \E right \in BOOLEAN :
              shakes' = Append(shakes, [via |-> t, right |-> right,
                                        epoch |-> epoch, gone |-> FALSE])
        /\ pake' = h
        /\ timer' = h
        /\ armed' = Stopped \cup {h}
        /\ disturbed' = disturbed \cup Ids
              \cup {x \in {h} : fired # {} \/ Verifying # {}}
        /\ UNCHANGED <<fired, flagVars, doomVars, replied, refused, overlap,
                       by, epoch, offline>>

\* pake_reply; a send on a transport that is down is dropped.
PakeReply(t) ==
    /\ Step(t, "reply", Idle)
    /\ \/ replied' = replied \cup {at[t].hs}
       \/ replied' = replied
    /\ UNCHANGED <<slotVars, flagVars, doomVars, shakes, refused, disturbed,
                   overlap, by, epoch, offline>>

\* secureHandshakeTimeout elapses ...
Expire(h) ==
    /\ Running
    /\ h \in armed
    /\ armed' = armed \ {h}
    /\ fired' = fired \cup {h}
    /\ disturbed' = disturbed \cup {h}
    /\ UNCHANGED <<pake, timer, flagVars, doomVars, at, shakes, replied,
                   refused, overlap, by, epoch, offline>>

\* ... and the callback gets the lock: whatever is in the slot is dropped.
TimedOut(h) ==
    /\ Running
    /\ h \in fired
    /\ fired' = fired \ {h}
    /\ pake' = None
    /\ UNCHANGED <<timer, armed, flagVars, doomVars, ghostVars, at>>

-----------------------------------------------------------------------------
(***************************************************************************)
(* sec_confirm: the slot is read, released while the tag is verified,      *)
(* cleared, and only then is the outcome applied.                          *)
(***************************************************************************)
\* A sec_confirm the app of handshake h may send on transport t.
Confirmable(t) ==
    {h \in replied : shakes[h].via = t /\ ~shakes[h].gone}

SecConfirm(t, h) ==
    /\ h \in Confirmable(t)
    /\ replied' = replied \ {h}
    /\ IF pake = None
       THEN /\ Step(t, "idle", Idle)
            /\ refused' = refused \cup {h}
            /\ UNCHANGED overlap
       ELSE /\ Step(t, "idle", [pc |-> "verify", hs |-> h, server |-> pake])
            /\ overlap' = IF Resetting = {} THEN overlap ELSE overlap \cup {h}
            /\ UNCHANGED refused
    /\ UNCHANGED <<slotVars, flagVars, doomVars, shakes, disturbed, by,
                   epoch, offline>>

\* VerifyTag: the tag answers this server's share, with the right code.
TagMatches(m) == m.server = m.hs /\ shakes[m.hs].right

\* A rejected tag costs an attempt only when a code is set.
Reject(h) ==
    /\ refused' = refused \cup {h}
    /\ attempts' = IF enabled THEN attempts - 1 ELSE attempts
    /\ locked' = (locked \/ (enabled /\ attempts' <= 0))

\* Mutant of SlotFreed: the timer goes, the handshake stays.
SlotFreedHalf == pake' = pake /\ timer' = None /\ armed' = Stopped
\* The critical section after the tag was verified frees the slot.
SlotFreed == pake' = None /\ timer' = None /\ armed' = Stopped

ClearSlot(t) ==
    LET m == at[t]
    IN  /\ m.pc = "verify"
        /\ SlotFreed
        /\ disturbed' = IF m.server = m.hs THEN disturbed
                        ELSE disturbed \cup Ids
        /\ IF TagMatches(m)
           THEN /\ Step(t, "verify", [pc |-> "install", hs |-> m.hs])
                /\ UNCHANGED <<refused, attempts, locked>>
           ELSE /\ Step(t, "verify", Idle)
                /\ Reject(m.hs)
        /\ UNCHANGED <<fired, secure, verified, enabled, mode, wrap, down,
                       shakes, replied, overlap, by, epoch, offline>>

InstallChannel(t) ==
    /\ Step(t, "install", [pc |-> "mark", hs |-> at[t].hs])
    /\ secure' = at[t].hs
    /\ offline' = FALSE
    /\ UNCHANGED <<slotVars, verified, enabled, attempts, mode, doomVars,
                   shakes, replied, refused, disturbed, overlap, by, epoch>>

MarkVerified(t) ==
    /\ Step(t, "mark", [pc |-> "restore", hs |-> at[t].hs])
    /\ verified' = 1
    /\ by' = at[t].hs
    /\ UNCHANGED <<slotVars, secure, enabled, attempts, mode, doomVars,
                   shakes, replied, refused, disturbed, overlap, epoch,
                   offline>>

\* sec_ok and secure_ready follow; they change no state here.
RestoreBudget(t) ==
    /\ Step(t, "restore", Idle)
    /\ attempts' = MaxAttempts
    /\ UNCHANGED <<slotVars, secure, verified, enabled, mode, doomVars,
                   ghostVars>>

-----------------------------------------------------------------------------
(***************************************************************************)
(* The handlers that reset: peer_online from the relay, peer_offline and   *)
(* channel_select on either transport.                                     *)
(***************************************************************************)
\* Every confirm that runs while a reset runs is marked.
MarkBeside == overlap' = overlap \cup InFlight

\* Mutant of Unverify: the flag of the last connection is kept.
UnverifyNot == verified' = verified
\* atomic.StoreInt32(&d.secCodeVerified, 0): no handshake on this connection.
Unverify == verified' = 0

PeerOnline ==
    /\ epoch + Cardinality(Resetting) < MaxResets
    /\ Step(Relay, "idle", [pc |-> "reset", why |-> "online"])
    /\ Unverify
    /\ offline' = FALSE
    /\ shakes' = [h \in Ids |-> IF shakes[h].via = Relay
                                THEN [shakes[h] EXCEPT !.gone = TRUE]
                                ELSE shakes[h]]
    /\ MarkBeside
    /\ UNCHANGED <<slotVars, secure, enabled, attempts, mode, doomVars,
                   replied, refused, disturbed, by, epoch>>

\* In P2P mode the data channel outlives the relay's peer: nothing happens.
PeerOffline(t) ==
    /\ epoch + Cardinality(Resetting) < MaxResets
    /\ IF mode = "p2p"
       THEN /\ Step(t, "idle", Idle)
            /\ UNCHANGED overlap
       ELSE /\ Step(t, "idle", [pc |-> "reset", why |-> "offline"])
            /\ MarkBeside
    /\ UNCHANGED <<slotVars, flagVars, doomVars, shakes, replied, refused,
                   disturbed, by, epoch, offline>>

ChannelSelect(t, channel) ==
    /\ epoch + Cardinality(Resetting) < MaxResets
    /\ IF channel = "p2p"
       THEN /\ Step(t, "idle", [pc |-> "reset", why |-> "p2p"])
            /\ Unverify
            /\ offline' = FALSE
            /\ MarkBeside
            /\ UNCHANGED mode
       ELSE /\ Step(t, "idle", Idle)
            /\ mode' = "ts"
            /\ UNCHANGED <<verified, offline, overlap>>
    /\ UNCHANGED <<slotVars, secure, enabled, attempts, doomVars, shakes,
                   replied, refused, disturbed, by, epoch>>

\* Mutant of SlotDropped: a pending handshake survives.
SlotDroppedNot == UNCHANGED <<pake, timer, armed>>
\* What the critical section of resetSecure leaves of the slot.
SlotDropped == pake' = None /\ timer' = None /\ armed' = Stopped

ResetSecure(t) ==
    /\ Step(t, "reset", [pc |-> "mode", why |-> at[t].why])
    /\ SlotDropped
    /\ secure' = None
    /\ epoch' = epoch + 1
    /\ disturbed' = disturbed \cup Ids
    /\ offline' = (at[t].why = "offline")
    /\ UNCHANGED <<fired, verified, enabled, attempts, mode, doomVars,
                   shakes, replied, refused, overlap, by>>

\* After the reset the handler sets channelMode and is done.
SetMode(t) ==
    /\ Step(t, "mode", Idle)
    /\ mode' = CASE at[t].why = "p2p" -> "p2p"
                 [] at[t].why = "offline" -> ""
                 [] OTHER -> mode
    /\ UNCHANGED <<slotVars, secure, verified, enabled, attempts, doomVars,
                   ghostVars>>

\* kicked: of its many effects only channelMode is state of this module.
Kicked(t) ==
    /\ Step(t, "idle", Idle)
    /\ mode' = ""
    /\ UNCHANGED <<slotVars, secure, verified, enabled, attempts, doomVars,
                   ghostVars>>

-----------------------------------------------------------------------------
(***************************************************************************)
(* A local client sets or clears the code; a sender wraps a message; the   *)
(* daemon ends once its budget is used up.                                 *)
(***************************************************************************)
SetSecCode ==
    /\ Running
    /\ enabled' = TRUE
    /\ verified' = 0
    /\ UNCHANGED <<slotVars, secure, attempts, mode, doomVars, ghostVars, at>>

UnsetSecCode ==
    /\ Running
    /\ enabled' = FALSE
    /\ UNCHANGED <<slotVars, secure, verified, attempts, mode, doomVars,
                   ghostVars, at>>

\* secureActive() of wrapOutgoingJSON; an inactive channel means plaintext.
WrapCheck ==
    /\ Running
    /\ wrap = "idle"
    /\ secure # None
    /\ wrap' = "checked"
    /\ UNCHANGED <<slotVars, flagVars, locked, down, ghostVars, at>>

\* The second read of d.secure, whose WrapJSON is called unconditionally.
WrapTake ==
    /\ Running
    /\ wrap = "checked"
    /\ wrap' = "idle"
    /\ down' = IF secure = None THEN "nil channel" ELSE down
    /\ UNCHANGED <<slotVars, flagVars, locked, ghostVars, at>>

\* exitWithReason("sec_code_locked"), 500 ms after the last rejection.
ExitLocked ==
    /\ Running
    /\ locked
    /\ down' = "locked"
    /\ UNCHANGED <<slotVars, flagVars, wrap, locked, ghostVars, at>>

Next ==
    \/ \E t \in Transports :
          \/ PakeStart(t) \/ PakeReply(t)
          \/ \E h \in Ids : SecConfirm(t, h)
          \/ ClearSlot(t) \/ InstallChannel(t)
          \/ MarkVerified(t) \/ RestoreBudget(t)
          \/ \E channel \in {"p2p", "ts"} : ChannelSelect(t, channel)
          \/ PeerOffline(t) \/ ResetSecure(t) \/ SetMode(t) \/ Kicked(t)
    \/ \E h \in armed : Expire(h)
    \/ \E h \in fired : TimedOut(h)
    \/ PeerOnline
    \/ SetSecCode \/ UnsetSecCode
    \/ WrapCheck \/ WrapTake \/ ExitLocked

HandshakeSpec == Init /\ [][Next]_vars

-----------------------------------------------------------------------------
(***************************************************************************)
(* Properties                                                              *)
(***************************************************************************)
Maybe(S) == S \cup {None}

Activity ==
    {Idle}
    \cup [pc : {"reply", "install", "mark", "restore"}, hs : Ids]
    \cup [pc : {"verify"}, hs : Ids, server : Ids]
    \cup [pc : {"reset", "mode"}, why : {"online", "offline", "p2p"}]

(***************************************************************************)
(* The type of the state.  pakeTimer is never left pointing at one timer   *)
(* while another one ticks (handlePakeStart stops the old one, ll. 90-92). *)
(***************************************************************************)
ShakesTyped ==
    /\ shakes \in Seq([via : Transports, right : BOOLEAN, epoch : Nat,
                       gone : BOOLEAN])
    /\ Len(shakes) <= MaxShakes
    /\ epoch \in Nat
    /\ \A h \in Ids : shakes[h].epoch <= epoch

SlotTyped ==
    /\ pake \in Maybe(Ids) /\ timer \in Maybe(Ids)
    /\ armed \subseteq Ids \cap {timer} /\ fired \subseteq Ids

FlagsTyped ==
    /\ secure \in Maybe(Ids) /\ by \in Maybe(Ids)
    /\ verified \in {0, 1} /\ enabled \in BOOLEAN
    /\ attempts \in Int /\ attempts <= MaxAttempts
    /\ mode \in {"", "ts", "p2p"}
    /\ wrap \in {"idle", "checked"} /\ locked \in BOOLEAN
    /\ down \in {"", "locked", "nil channel"}

HistoryTyped ==
    /\ replied \subseteq Ids /\ refused \subseteq Ids
    /\ disturbed \subseteq Ids /\ overlap \subseteq Ids
    /\ offline \in BOOLEAN

TypeOK ==
    /\ ShakesTyped /\ SlotTyped /\ FlagsTyped /\ HistoryTyped
    /\ at \in [Transports -> Activity]

(***************************************************************************)
(* A handshake in the slot always has a timer that will take it out again: *)
(* whatever replaces, stops or clears timers and handshakes, on whichever  *)
(* transport, an app that vanished cannot leave the slot occupied          *)
(* (handlePakeStart, handleSecConfirm, resetSecure).                       *)
(***************************************************************************)
SlotHasTimer == pake # None => pake \in armed \cup fired

(***************************************************************************)
(* An app with the right code is turned away only if something else        *)
(* happened to its handshake between pake_start and sec_confirm: a later   *)
(* pake_start, a reset, its own timeout, the callback of an older timer    *)
(* that had expired before it began, or the confirm of another handshake.  *)
(* The Stop in handlePakeStart is what keeps the ordinary expiry of an     *)
(* older timer off that list.                                              *)
(***************************************************************************)
RefusedOnlyWhenDisturbed ==
    \A h \in refused : shakes[h].right => h \in disturbed

(***************************************************************************)
(* "Keys are per-connection" (handleP2PSignal) and "keys are per-channel"  *)
(* (handleChannelSelect): the channel in use was negotiated since the last *)
(* reset, unless its confirm was being handled on one transport while the  *)
(* other one ran the reset.                                                *)
(***************************************************************************)
ChannelOfItsConnection ==
    secure # None => shakes[secure].epoch = epoch \/ secure \in overlap

(***************************************************************************)
(* checkSecCode answers for the channel: while secCodeVerified is 1 there  *)
(* is a channel, except after peer_offline, which drops the channel and    *)
(* leaves the flag, and after a confirm that ran beside a reset.           *)
(***************************************************************************)
VerifiedHasChannel ==
    verified = 1 /\ secure = None => offline \/ by \in overlap

(***************************************************************************)
(* What the comment of wrapOutgoingJSON says: it returns the wrapped       *)
(* message, or the original when the channel is not active.  It never      *)
(* calls WrapJSON on a channel that is gone.                               *)
(***************************************************************************)
WrapFindsChannel == down # "nil channel"
=============================================================================
