---------------------------- MODULE VoiceSession ----------------------------
(***************************************************************************)
(* The life of a browser's voice session on the gateway: admission, the    *)
(* identity lease, the TeamSpeak connection, recovery after a drop, the    *)
(* browser heartbeat and the asynchronous teardown.                        *)
(*                                                                         *)
(* Sources: src/src/server/voice-bridge.ts (the "connection" handler, its  *)
(* closures and cleanupEntry), session-manager.ts, identity-lease.ts,      *)
(* reconnect-policy.ts, and connect()/disconnect() of ts-client.ts with    *)
(* teamspeak-adapter.ts and teamspeak-sdk.ts below it.                     *)
(*                                                                         *)
(* Node runs each handler to its first await without interruption, so an   *)
(* action is one such stretch. Every await that waits for I/O ends an      *)
(* action: TSClient.connect() is cut into the phases of `call`, teardown   *)
(* into the values of `stage`.                                             *)
(***************************************************************************)
EXTENDS Naturals, FiniteSets

CONSTANTS
    Sessions,   \* entry ids; one is reused once nothing is left of its session
    Keys,       \* lease keys: a TeamSpeak target together with an identity
    NoKey,      \* the key of a browser that presents no remembered identity
    NoOwner,    \* marks a lease nobody holds
    KeyOf,      \* the lease key each session presents
    Prepared,   \* sessions whose connect() awaits a relay tunnel or a DNS alias
    MaxActive,  \* MAX_ACTIVE_SESSIONS
    MaxMissed   \* MAX_MISSED_HEARTBEATS

ASSUME SessionsAssumption ==
    /\ IsFiniteSet(Sessions)
    /\ NoOwner \notin Sessions
ASSUME KeysAssumption ==
    /\ NoKey \notin Keys
    /\ KeyOf \in [Sessions -> Keys \cup {NoKey}]
ASSUME PreparedAssumption == Prepared \subseteq Sessions
ASSUME LimitsAssumption ==
    /\ MaxActive \in Nat \ {0}
    /\ MaxMissed \in Nat \ {0}

VARIABLES
    accepting,  \* SessionManager.accepting
    lease,      \* IdentityLeaseStore.owners
    session     \* what the gateway and TeamSpeak hold of each session

vars == <<accepting, lease, session>>

-----------------------------------------------------------------------------
(* The connection state machine. *)

ConnectionState ==
    {"idle", "connecting", "authenticating", "syncing", "connected",
     "interrupted", "reconnecting", "disconnecting", "failed"}

ALLOWED_TRANSITIONS ==
    ({"idle"} \X {"connecting", "disconnecting"})
    \cup ({"connecting"} \X {"authenticating", "reconnecting", "failed", "disconnecting"})
    \cup ({"authenticating"} \X {"syncing", "reconnecting", "failed", "disconnecting"})
    \cup ({"syncing"} \X {"connected", "reconnecting", "failed", "disconnecting"})
    \cup ({"connected"} \X {"interrupted", "failed", "disconnecting"})
    \cup ({"interrupted"} \X {"reconnecting", "failed", "disconnecting"})
    \cup ({"reconnecting"} \X {"connecting", "failed", "disconnecting"})
    \cup ({"disconnecting"} \X {"idle"})
    \cup ({"failed"} \X {"disconnecting", "idle"})

\* Ended: the states in which a session no longer reacts to its events.
Ended == {"failed", "disconnecting", "idle"}

(***************************************************************************)
(* stage      where the session is between admission and removal:          *)
(*            "absent"   not in SessionManager.sessions                    *)
(*            "live"     in VoiceBridge.entries                            *)
(*            "stopping" removed from entries, awaiting stopWebRtc         *)
(*            "leaving"  awaiting tsClient.disconnect()                    *)
(* conn       ConnectionStateMachine.current                               *)
(* sock       the browser's WebSocket is open                              *)
(* silent     heartbeat pings since the last pong: isAlive is silent = 0   *)
(*            and missedHeartbeats is silent - 1 (0 for silent = 0)        *)
(* ready, directory, published, ever                                       *)
(*            tsReady, events.ready, initialStateSent, hasConnectedOnce    *)
(* timer      reconnectTimer is armed                                      *)
(* window     reconnectStartedAt: "unset", or whether the recovery window  *)
(*            that starts there is still "open" or has "expired"           *)
(* told       the last lifecycle message the browser was sent              *)
(* call       the phase of the outstanding TSClient.connect():             *)
(*            "prepare"   no SDK client of this attempt exists yet         *)
(*            "handshake" the SDK client is connecting                     *)
(*            "join"      connected, subscribing and reading the view      *)
(*            "restore"   moving back to the previous channel              *)
(*            "dead"      its SDK client is gone, the promise unsettled    *)
(* link       the TeamSpeak server's client for this session: "down",      *)
(*            "up", or "closing" while disconnect() is under way           *)
(***************************************************************************)
SessionRecord ==
    [stage: {"absent", "live", "stopping", "leaving"},
     conn: ConnectionState,
     sock: BOOLEAN,
     silent: 0..MaxMissed,
     ready: BOOLEAN, directory: BOOLEAN, published: BOOLEAN, ever: BOOLEAN,
     timer: BOOLEAN,
     window: {"unset", "open", "expired"},
     told: {"nothing", "connected", "recovering", "failed"},
     call: {"none", "prepare", "handshake", "join", "restore", "dead"},
     link: {"down", "up", "closing"}]

Blank ==
    [stage |-> "absent", conn |-> "idle", sock |-> FALSE, silent |-> 0,
     ready |-> FALSE, directory |-> FALSE, published |-> FALSE, ever |-> FALSE,
     timer |-> FALSE, window |-> "unset", told |-> "nothing",
     call |-> "none", link |-> "down"]

Managed == {s \in Sessions : session[s].stage # "absent"}

-----------------------------------------------------------------------------
(* What the handlers do to one session. r is the session before, the value
   of each operator the session after. *)

Transition(r, next) ==
    IF <<r.conn, next>> \in ALLOWED_TRANSITIONS THEN [r EXCEPT !.conn = next] ELSE r

\* Fault: sendJson without the check that the entry is still registered.
TellRegardless(r, message) ==
    IF r.sock THEN [r EXCEPT !.told = message] ELSE r

\* sendJson: only while the entry is registered and its socket is open.
Tell(r, message) ==
    IF r.stage = "live" /\ r.sock THEN [r EXCEPT !.told = message] ELSE r

\* events.isCurrent: SDK events reach the session at all.
IsCurrent(r) == r.stage = "live" /\ r.conn \notin Ended

IsSettling(r) == r.conn \in {"authenticating", "syncing"}

AcceptsDirectory(r) == r.conn \in {"authenticating", "syncing", "connected"}

(* Teardown is memoised: only its first call does anything. The part up to
   the first await removes the entry, closes the event coordinator (which
   drops the directory) and clears the reconnect timer. *)
Teardown(r) ==
    IF r.stage # "live" THEN r
    ELSE [Transition(r, "disconnecting") EXCEPT !.stage = "stopping",
                                                !.directory = FALSE,
                                                !.timer = FALSE]

\* Fault: initialStateSent survives the reset.
ResetDirectoryOnly(r) ==
    [r EXCEPT !.ready = FALSE, !.directory = FALSE]

ResetDirectoryForReconnect(r) ==
    [r EXCEPT !.ready = FALSE, !.directory = FALSE, !.published = FALSE]

\* Fault: hasConnectedOnce is not recorded.
SendInitialStateOnly(r) ==
    IF r.published \/ ~r.ready \/ ~r.directory \/ r.conn # "syncing" THEN r
    ELSE Tell(Transition([r EXCEPT !.published = TRUE, !.window = "unset"], "connected"),
              "connected")

SendInitialState(r) ==
    IF r.published \/ ~r.ready \/ ~r.directory \/ r.conn # "syncing" THEN r
    ELSE Tell(Transition([r EXCEPT !.published = TRUE,
                                   !.ever = TRUE,
                                   !.window = "unset"], "connected"),
              "connected")

FailConnect(r) ==
    IF r.conn \in Ended THEN r
    ELSE Teardown([Tell(Transition([r EXCEPT !.timer = FALSE], "failed"), "failed")
                     EXCEPT !.sock = FALSE])

FailReconnect(r) ==
    Teardown(Tell(Transition([r EXCEPT !.timer = FALSE], "failed"), "failed"))

\* Fault: every attempt starts a recovery window of its own.
ScheduleReconnectForever(r, recoverable) ==
    IF r.conn \in Ended THEN r
    ELSE IF ~recoverable THEN FailReconnect(r)
    ELSE Tell([Transition(Transition(r, "interrupted"), "reconnecting")
                 EXCEPT !.window = "open", !.timer = TRUE], "recovering")

(* The window is measured from the first attempt since the session was last
   connected; one armed timer serves every caller. *)
ScheduleReconnect(r, recoverable) ==
    IF r.conn \in Ended THEN r
    ELSE IF ~recoverable \/ r.window = "expired" THEN FailReconnect(r)
    ELSE LET interrupted ==
               IF r.conn = "connected"
               THEN Transition(Transition(r, "interrupted"), "reconnecting")
               ELSE r
             started ==
               [interrupted EXCEPT !.window = "open"]
         IN IF r.timer THEN started
            ELSE Tell([started EXCEPT !.timer = TRUE], "recovering")

-----------------------------------------------------------------------------
(* The callbacks of the session's event coordinator and the continuations
   of connectTeamSpeak. *)

OnDirectorySnapshot(r) ==
    IF IsCurrent(r) /\ AcceptsDirectory(r)
    THEN SendInitialState([r EXCEPT !.directory = TRUE])
    ELSE r

\* Fault: a drop before the session is published is nobody's business.
OnDisconnectWhenConnected(r, recoverable) ==
    IF ~IsCurrent(r) \/ r.conn # "connected" THEN r
    ELSE ScheduleReconnect(Tell(ResetDirectoryForReconnect(r), "recovering"), recoverable)

OnDisconnect(r, recoverable) ==
    IF ~IsCurrent(r) THEN r
    ELSE IF IsSettling(r)
    THEN IF ~r.ever THEN FailConnect(r)
         ELSE ScheduleReconnect(Transition(ResetDirectoryForReconnect(r), "reconnecting"),
                                recoverable)
    ELSE IF r.conn # "connected" THEN r
    ELSE ScheduleReconnect(Tell(ResetDirectoryForReconnect(r), "recovering"), recoverable)

OnKick(r) ==
    IF ~IsCurrent(r) \/ (~r.ever /\ ~IsSettling(r)) THEN r
    ELSE Teardown(Tell(ResetDirectoryForReconnect(r), "failed"))

ConnectFulfilled(r) ==
    IF r.conn # "authenticating" THEN r
    ELSE SendInitialState([Transition(r, "syncing") EXCEPT !.ready = TRUE])

\* connectTeamSpeak(true) is only called by the reconnect timer, so
\* isReconnect is r.ever.
ConnectRejected(r, recoverable) ==
    IF ~r.ever THEN FailConnect(r)
    ELSE IF recoverable THEN ScheduleReconnect(Transition(r, "reconnecting"), TRUE)
    ELSE FailReconnect(r)

-----------------------------------------------------------------------------
(* Actions. *)

Update(s, r) == session' = [session EXCEPT ![s] = r]

Connecting(s, r) == [r EXCEPT !.call = IF s \in Prepared THEN "prepare" ELSE "handshake"]

\* Fault: the present owner of the key is not looked at.
LeaseAlwaysFree(s) == TRUE

LeaseFree(s) == \A k \in Keys : k = KeyOf[s] => lease[k] \in {NoOwner, s}

\* Fault: sessions that are still being torn down do not count.
AdmissibleBesideTeardown(s) ==
    /\ session[s] = Blank
    /\ accepting
    /\ Cardinality({t \in Managed : session[t].stage = "live"}) < MaxActive

Admissible(s) ==
    /\ session[s] = Blank
    /\ accepting
    /\ Cardinality(Managed) < MaxActive

Acquire(s) ==
    lease' = [k \in Keys |-> IF k = KeyOf[s] THEN s ELSE lease[k]]

(* A WebSocket is accepted. The refusals (no ticket, relay unavailable, bad
   identity, gateway full, identity in use, client construction failure)
   give back what they took before any other event is handled: no variable
   of the model changes, so they are not steps of it. *)
Admit(s) ==
    /\ Admissible(s)
    /\ LeaseFree(s)
    /\ Acquire(s)
    /\ Update(s, Connecting(s, Transition(Transition(
                    [Blank EXCEPT !.stage = "live", !.sock = TRUE],
                    "connecting"), "authenticating")))
    /\ UNCHANGED accepting

\* The encoder cannot be created: the registered entry is torn down at once.
EncoderUnavailable(s) ==
    /\ Admissible(s)
    /\ LeaseFree(s)
    /\ Acquire(s)
    /\ Update(s, Teardown([Blank EXCEPT !.stage = "live", !.sock = TRUE]))
    /\ UNCHANGED accepting

\* The tunnel or the alias is there; an SDK client is built and connects. A
\* disconnect() that ran meanwhile found no SDK client to stop.
PrepareDone(s) ==
    /\ session[s].call = "prepare"
    /\ Update(s, [session[s] EXCEPT !.call = "handshake"])
    /\ UNCHANGED <<accepting, lease>>

HandshakeAccepted(s) ==
    /\ session[s].call = "handshake"
    /\ Update(s, [session[s] EXCEPT !.call = "join", !.link = "up"])
    /\ UNCHANGED <<accepting, lease>>

\* connect() read the live view and emits it as a complete snapshot.
ViewRead(s) ==
    /\ session[s].call = "join"
    /\ Update(s, [OnDirectorySnapshot(session[s]) EXCEPT !.call = "restore"])
    /\ UNCHANGED <<accepting, lease>>

\* The SDK publishes a changed view by itself.
ViewChanged(s) ==
    /\ session[s].link = "up"
    /\ Update(s, OnDirectorySnapshot(session[s]))
    /\ UNCHANGED <<accepting, lease>>

\* A move whose transport died is caught in connect(), so a dead call may
\* still be fulfilled.
ConnectFulfils(s) ==
    /\ session[s].call \in {"restore", "dead"}
    /\ Update(s, ConnectFulfilled([session[s] EXCEPT !.call = "none"]))
    /\ UNCHANGED <<accepting, lease>>

ConnectRejects(s) ==
    /\ session[s].call \in {"prepare", "handshake", "dead"}
    /\ \E recoverable \in BOOLEAN :
          Update(s, ConnectRejected([session[s] EXCEPT !.call = "none"], recoverable))
    /\ UNCHANGED <<accepting, lease>>

\* The transport of an established or connecting SDK client goes away.
TransportLost(s) ==
    /\ session[s].link = "up" \/ session[s].call = "handshake"
    /\ \E recoverable \in BOOLEAN :
          Update(s, OnDisconnect([session[s] EXCEPT
                        !.link = "down",
                        !.call = IF @ = "none" THEN @ ELSE "dead"], recoverable))
    /\ UNCHANGED <<accepting, lease>>

\* A kick, before the drop it causes or right after it.
Kicked(s) ==
    /\ \/ session[s].link = "up"
       \/ session[s].conn = "reconnecting"
    /\ Update(s, OnKick([session[s] EXCEPT !.link = "down",
                                           !.call = IF @ = "none" THEN @ ELSE "dead"]))
    /\ UNCHANGED <<accepting, lease>>

(* The delay is at least 900 ms. A call whose transport died has settled by
   then, so two calls of one session never overlap. *)
ReconnectTimerFires(s) ==
    /\ session[s].timer
    /\ session[s].call = "none"
    /\ LET r == [session[s] EXCEPT !.timer = FALSE]
       IN Update(s, IF r.conn # "reconnecting" THEN r
                    ELSE Connecting(s, Transition(Transition(r, "connecting"),
                                                  "authenticating")))
    /\ UNCHANGED <<accepting, lease>>

\* RECONNECT_WINDOW_MS pass.
ReconnectWindowExpires(s) ==
    /\ session[s].window = "open"
    /\ Update(s, [session[s] EXCEPT !.window = "expired"])
    /\ UNCHANGED <<accepting, lease>>

Pong(s) ==
    /\ session[s].stage = "live" /\ session[s].sock /\ session[s].silent > 0
    /\ Update(s, [session[s] EXCEPT !.silent = 0])
    /\ UNCHANGED <<accepting, lease>>

\* Fault: the missed heartbeats are never held against the browser.
BeatOnly(r) ==
    IF r.stage # "live" \/ ~r.sock THEN r ELSE [r EXCEPT !.silent = @ + 1]

\* Fault: missedHeartbeats starts over with every ping.
BeatForgetful(r) ==
    IF r.stage # "live" \/ ~r.sock THEN r ELSE [r EXCEPT !.silent = 1]

Beat(r) ==
    IF r.stage # "live" \/ ~r.sock THEN r
    ELSE IF r.silent < MaxMissed THEN [r EXCEPT !.silent = @ + 1]
    ELSE Teardown([r EXCEPT !.sock = FALSE])

\* checkHeartbeats; shutdown clears its interval.
Heartbeat ==
    /\ accepting
    /\ session' = [s \in Sessions |-> Beat(session[s])]
    /\ UNCHANGED <<accepting, lease>>

BrowserCloses(s) ==
    /\ session[s].sock
    /\ Update(s, Teardown([session[s] EXCEPT !.sock = FALSE]))
    /\ UNCHANGED <<accepting, lease>>

\* An administrator ends the session, or its socket reports an error.
Terminated(s) ==
    /\ session[s].stage = "live"
    /\ Update(s, Teardown(session[s]))
    /\ UNCHANGED <<accepting, lease>>

Shutdown ==
    /\ accepting
    /\ accepting' = FALSE
    /\ session' = [s \in Sessions |-> Teardown(session[s])]
    /\ UNCHANGED lease

\* Fault: the lease is released before disconnect() is awaited.
MediaStoppedReleasing(s) ==
    /\ session[s].stage = "stopping"
    /\ Update(s, [session[s] EXCEPT
                     !.stage = "leaving",
                     !.link = IF @ = "up" THEN "closing" ELSE @,
                     !.call = IF @ \in {"none", "prepare"} THEN @ ELSE "dead"])
    /\ lease' = [k \in Keys |-> IF k = KeyOf[s] THEN NoOwner ELSE lease[k]]
    /\ UNCHANGED accepting

\* Fault: disconnect() leaves a connection attempt alone.
MediaStoppedMidConnect(s) ==
    /\ session[s].stage = "stopping"
    /\ Update(s, [session[s] EXCEPT
                     !.stage = "leaving",
                     !.link = IF @ = "up" THEN "closing" ELSE @])
    /\ UNCHANGED <<accepting, lease>>

(* The voice peer is closed; the call of tsClient.disconnect() stops the SDK
   client, if connect() has got as far as having one. *)
MediaStopped(s) ==
    /\ session[s].stage = "stopping"
    /\ Update(s, [session[s] EXCEPT
                     !.stage = "leaving",
                     !.link = IF @ = "up" THEN "closing" ELSE @,
                     !.call = IF @ \in {"none", "prepare"} THEN @ ELSE "dead"])
    /\ UNCHANGED <<accepting, lease>>

\* Fault: teardown waits for the browser to close its socket.
RemovedOnceClosed(s) ==
    /\ session[s].stage = "leaving" /\ ~session[s].sock
    /\ Update(s, [Blank EXCEPT !.call = session[s].call])
    /\ lease' = [k \in Keys |-> IF k = KeyOf[s] THEN NoOwner ELSE lease[k]]
    /\ UNCHANGED accepting

(* disconnect() has finished: the socket is closed, the lease released, the
   session idle and out of the session manager. Only an unsettled connect()
   and what it may still bring about survive. *)
Removed(s) ==
    /\ session[s].stage = "leaving"
    /\ Update(s, [Blank EXCEPT !.call = session[s].call,
                               !.link = IF session[s].link = "closing" THEN "down"
                                        ELSE session[s].link])
    /\ lease' = [k \in Keys |-> IF k = KeyOf[s] /\ lease[k] = s THEN NoOwner ELSE lease[k]]
    /\ UNCHANGED accepting

-----------------------------------------------------------------------------
Init ==
    /\ accepting = TRUE
    /\ lease = [k \in Keys |-> NoOwner]
    /\ session = [s \in Sessions |-> Blank]

SessionStep(s) ==
    \/ Admit(s) \/ EncoderUnavailable(s)
    \/ PrepareDone(s) \/ HandshakeAccepted(s) \/ ViewRead(s) \/ ViewChanged(s)
    \/ ConnectFulfils(s) \/ ConnectRejects(s)
    \/ TransportLost(s) \/ Kicked(s)
    \/ ReconnectTimerFires(s) \/ ReconnectWindowExpires(s)
    \/ Pong(s) \/ BrowserCloses(s) \/ Terminated(s)
    \/ MediaStopped(s) \/ Removed(s)

Next == Heartbeat \/ Shutdown \/ \E s \in Sessions : SessionStep(s)

Spec == Init /\ [][Next]_vars

\* setTimeout, the SDK's own deadlines (the 15 s abort signal of connect()), the
\* heartbeat interval and the awaited closes of teardown all come to an end.
\* Nothing is assumed of browsers, administrators, drops or kicks.
ConnectSettles(s) ==
    PrepareDone(s) \/ HandshakeAccepted(s) \/ ViewRead(s)
    \/ ConnectFulfils(s) \/ ConnectRejects(s)

Fairness ==
    /\ WF_vars(Heartbeat)
    /\ \A s \in Sessions :
          /\ WF_vars(ConnectSettles(s))
          /\ WF_vars(ReconnectTimerFires(s))
          /\ WF_vars(ReconnectWindowExpires(s))
          /\ WF_vars(MediaStopped(s))
          /\ WF_vars(Removed(s))

FairSpec == Spec /\ Fairness

-----------------------------------------------------------------------------
(* Type invariant: every variable holds a value of the kind the code keeps. *)
TypeOK ==
    /\ accepting \in BOOLEAN
    /\ lease \in [Keys -> Sessions \cup {NoOwner}]
    /\ session \in [Sessions -> SessionRecord]

Live(r) == r.stage = "live"

(* A registered session is always waiting for something that will come: for
   an unsettled connect(), for an armed reconnect timer, or it is connected
   over a live TeamSpeak link. It never rests in "syncing", "failed" or any
   other state with nothing pending -- the browser would stay on the
   connecting screen for good. *)
NotParked(r) ==
    Live(r) =>
        \/ r.conn = "authenticating" /\ r.call \in {"prepare", "handshake", "join", "restore"}
        \/ r.conn = "reconnecting" /\ r.timer
        \/ r.conn = "connected" /\ r.link = "up"

NeverParked == \A s \in Sessions : NotParked(session[s])

(* The gate of every browser command, `tsReady && state === "connected"`,
   opens exactly while the initial state has been published, the directory
   is the one of the current connection, and its transport is up. *)
GateOpen(r) == Live(r) /\ r.ready /\ r.conn = "connected"

GateTruthful(r) ==
    /\ GateOpen(r) => r.published /\ r.directory /\ r.link = "up" /\ r.call = "none"
    /\ Live(r) /\ r.published => GateOpen(r)

CommandGate == \A s \in Sessions : GateTruthful(session[s])

(* What the browser was last told agrees with the session: "connected" while
   and only while it is, a recovery only of a session that had been
   connected, and a failure only as the session is removed. *)
ToldTruth(r) ==
    Live(r) /\ r.sock =>
        /\ r.told = "connected" <=> r.conn = "connected"
        /\ r.told = "recovering" => r.ever
        /\ r.told = "nothing" => ~r.ever
        /\ r.told # "failed"

BrowserInformed == \A s \in Sessions : ToldTruth(session[s])

(* The lease of a remembered identity is held exactly as long as its session
   is managed, so it cannot leak and cannot be released under a session that
   still uses the identity. *)
LeaseMatchesSession ==
    /\ \A s \in Managed, k \in Keys : k = KeyOf[s] => lease[k] = s
    /\ \A k \in Keys :
          lease[k] # NoOwner => lease[k] \in Managed /\ KeyOf[lease[k]] = k

(* No more sessions than slots, counting those still being torn down. *)
CapacityRespected == Cardinality(Managed) <= MaxActive

OnServer(s) == session[s].link # "down"

(* A remembered identity is on the TeamSpeak server at most once. *)
IdentityUsedOnce ==
    \A s, t \in Sessions :
        s # t /\ KeyOf[s] = KeyOf[t] /\ KeyOf[s] # NoKey => ~(OnServer(s) /\ OnServer(t))

(* A client left on the TeamSpeak server after its session was removed can
   only come from a connect() that teardown met in its preparation. *)
OrphansOnlyFromPrepare ==
    \A s \in Sessions \ Prepared : session[s].stage = "absent" => ~OnServer(s)

KeepsWindow(s) ==
    session[s].window = "expired" /\ session'[s].window # "expired"
        => session'[s].conn = "connected" \/ session'[s].stage = "absent"

(* A session that lost its connection gets one recovery window: it is
   restarted only by becoming connected again, or with a new session. *)
WindowNotRestarted == [][\A s \in Sessions : KeepsWindow(s)]_vars

StaysTornDown(s) ==
    session[s].stage \in {"stopping", "leaving"} =>
        \/ session'[s].stage = "absent"
        \/ /\ session'[s].stage \in {"stopping", "leaving"}
           /\ session'[s].conn = "disconnecting"
           /\ session'[s].told = session[s].told

(* Once removed from the entries a session is never told anything and never
   comes back before its teardown is complete. *)
TeardownIsOneWay == [][\A s \in Sessions : StaysTornDown(s)]_vars

(* Every connection attempt ends: the session becomes connected or is torn
   down, after at most one recovery window of retries. *)
RecoveryEnds ==
    \A s \in Sessions :
        session[s].conn \in {"authenticating", "reconnecting"}
            ~> session[s].conn \in {"connected", "disconnecting", "idle"}

(* Teardown completes and gives back slot and lease, also when the browser
   never closes its socket or connect() never came back. *)
TeardownCompletes ==
    \A s \in Sessions :
        session[s].stage \in {"stopping", "leaving"} ~> session[s].stage = "absent"

(* A browser that stops answering pings does not keep its session. *)
SilentBrowserRemoved ==
    \A s \in Sessions :
        session[s].silent > 0
            ~> session[s].silent = 0 \/ session[s].stage # "live" \/ ~accepting

-----------------------------------------------------------------------------
(* The gateway implements its contract. *)

Phase(r) ==
    CASE r.stage = "absent" -> "out"
      [] r.stage \in {"stopping", "leaving"} -> "ending"
      [] Live(r) /\ r.conn = "connected" -> "talking"
      [] Live(r) /\ r.conn # "connected" /\ r.ever -> "recovering"
      [] Live(r) /\ r.conn # "connected" /\ ~r.ever -> "joining"

Contract == INSTANCE SessionContract
                WITH open <- accepting,
                     holder <- lease,
                     phase <- [s \in Sessions |-> Phase(session[s])]

(* Whatever the interleaving of drops, kicks, retries, heartbeats and
   teardowns, every step of a session is one its contract allows: in
   particular slot and identity are given back only by the last step of a
   teardown, and a recovering session never counts as joining afresh. *)
ImplementsContract == Contract!Spec

=============================================================================
