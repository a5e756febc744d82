----------------------------- MODULE ScreenPeers -----------------------------
(***************************************************************************)
(* The screen sharing controller of each browser and the gateway that      *)
(* serves them, with the messages on their way in both directions: capture *)
(* and start of a share, watching one, and the peer connections that the   *)
(* two ends of a share negotiate through the gateway.                      *)
(*                                                                         *)
(* Sources: web/src/voice/screen-share.ts; the client messages of          *)
(* src/server/screen-share-coordinator.ts and its caller in voice-bridge.ts.*)
(*                                                                         *)
(* ScreenShare models what lies behind: publication at TeamSpeak, native   *)
(* viewers and channels. Here all clients are in one channel and the       *)
(* native shares last. A negotiation is what its end is told of it; the    *)
(* waits inside one are left out, since every resumption first checks that *)
(* its peer is still the current one (isCurrentPeer).                      *)
(***************************************************************************)
EXTENDS Naturals, Sequences, FiniteSets, FiniteSetsExt

CONSTANTS
    Browsers,
    Sharers,    \* the browsers that share
    Viewers,    \* the browsers that watch
    Natives,    \* shares of native users; each stands for its source's peer too
    Requests,   \* request ids of a browser: reused once nothing refers to one
    None,
    MaxWire     \* bound: users and faults wait while so many messages are on their way

ASSUME BrowsersAssumption == Sharers \cup Viewers \subseteq Browsers
ASSUME NativesAssumption == Natives \cap (Browsers \cup (Browsers \X Requests)) = {}
ASSUME FiniteAssumption == IsFiniteSet(Browsers) /\ IsFiniteSet(Natives) /\ IsFiniteSet(Requests)
ASSUME NoneAssumption == None \notin Browsers \cup Natives \cup (Browsers \X Requests)

VARIABLES
    ui,         \* the controller of each browser
    up,         \* messages from each browser to the gateway
    down,       \* messages from the gateway to each browser
    ready,      \* the browsers whose session is connected at the gateway
    shares,     \* the browser shares registered at the gateway
    watchers,   \* the viewers the gateway holds for each stream
    stray       \* history: memberships and starts that the code gives up untold

vars == <<ui, up, down, ready, shares, watchers, stray>>

Shares == Browsers \X Requests
Streams == Shares \cup Natives
Peers == Browsers \cup Natives

Owner(s) == IF s \in Natives THEN s ELSE s[1]

\* A controller with nothing going on: the known streams, the start of a share, the active
\* one and the watched one, and the peers it has a connection to.
Asleep == [cards |-> {}, starting |-> FALSE, prompting |-> FALSE, capturing |-> FALSE,
           pending |-> None, active |-> None, viewing |-> None, peers |-> {}]

\* A message about stream s; "signal" carries an offer, "list" the cards.
Msg(type, s) == [type |-> type, stream |-> s, peer |-> None, cards |-> {}]
About(type, s, x) == [Msg(type, s) EXCEPT !.peer = x]
List(S) == [Msg("list", None) EXCEPT !.cards = S]

-----------------------------------------------------------------------------
(* Helpers. *)

\* Bound.
Quick == FoldSet(LAMBDA b, n : Len(up[b]) + Len(down[b]) + n, 0, Browsers) < MaxWire

Send(b, ms) == up' = [up EXCEPT ![b] = @ \o ms]

Tell(q, S, m) == [b \in Browsers |-> IF b \in S THEN Append(q[b], m) ELSE q[b]]

Watched(b) == {s \in Streams : b \in watchers[s]}

OwnShares(b) == {s \in shares : s[1] = b}

\* Stream ids are unique: one that nothing refers to stands for a new one.
Unused(s) ==
    /\ s \notin shares
    /\ \A b \in Browsers :
          /\ s \notin ui[b].cards \cup {ui[b].pending, ui[b].active, ui[b].viewing}
          /\ \A n \in DOMAIN up[b] : up[b][n].stream # s
          /\ \A n \in DOMAIN down[b] : down[b][n].stream # s /\ s \notin down[b][n].cards

\* The capture ends and so does the share or its start.
Unshared(c) == [c EXCEPT !.starting = FALSE, !.prompting = FALSE, !.capturing = FALSE,
                         !.pending = None, !.active = None]

\* closeAllScreenSharePeers does not tell the peers of the share from the watched one.
Unwatched(c) == [c EXCEPT !.viewing = None, !.peers = {}]

\* leaveScreenShare
LeaveOf(c) == IF c.viewing = None THEN <<>> ELSE <<Msg("leave", c.viewing)>>

Becomes(b, c) == ui' = [ui EXCEPT ![b] = c]

Init ==
    /\ ui = [b \in Browsers |-> Asleep]
    /\ up = [b \in Browsers |-> <<>>]
    /\ down = [b \in Browsers |-> <<>>]
    /\ ready = {}
    /\ shares = {}
    /\ watchers = [s \in Streams |-> {}]
    /\ stray = [b \in Browsers |-> {}]

-----------------------------------------------------------------------------
(* The user of a browser. *)

\* startScreenShare, up to the browser's prompt.
Share(b) ==
    /\ Quick /\ b \in Sharers
    /\ ~ui[b].starting /\ ui[b].active = None
    /\ Becomes(b, [ui[b] EXCEPT !.starting = TRUE, !.prompting = TRUE])
    /\ UNCHANGED <<up, down, ready, shares, watchers, stray>>

\* The screen is captured. A prompt that a stop or an error overtook is not followed:
\* its capture is released as soon as it is granted.
Grant(b) ==
    /\ Quick /\ ui[b].prompting
    /\ \E r \in Requests :
          /\ Unused(<<b, r>>)
          /\ Becomes(b, [ui[b] EXCEPT !.prompting = FALSE, !.capturing = TRUE, !.pending = <<b, r>>])
          /\ Send(b, <<Msg("start", <<b, r>>)>>)
          /\ stray' = [stray EXCEPT ![b] = @ \ {<<b, r>>}]
    /\ UNCHANGED <<down, ready, shares, watchers>>

Deny(b) ==
    /\ ui[b].prompting
    /\ Becomes(b, Unshared(ui[b]))
    /\ UNCHANGED <<up, down, ready, shares, watchers, stray>>

\* stopScreenShare: the stop button, or the end of a captured track.
StopShare(b) ==
    /\ Quick
    /\ ui[b].starting \/ ui[b].active # None
    /\ Becomes(b, [Unshared(ui[b]) EXCEPT !.peers = {}])
    /\ Send(b, IF ui[b].active = None THEN <<>> ELSE <<Msg("stop", ui[b].active)>>)
    /\ UNCHANGED <<down, ready, shares, watchers, stray>>

\* joinScreenShare
Join(b, s) ==
    /\ Quick /\ b \in Viewers
    /\ s \in ui[b].cards
    /\ IF ui[b].viewing = s
       THEN UNCHANGED ui /\ Send(b, <<Msg("join", s)>>)
       ELSE /\ Becomes(b, IF ui[b].viewing = None THEN ui[b] ELSE Unwatched(ui[b]))
            /\ Send(b, LeaveOf(ui[b]) \o <<Msg("join", s)>>)
    /\ UNCHANGED <<down, ready, shares, watchers, stray>>

\* leaveScreenShare
Leave(b) ==
    /\ Quick /\ ui[b].viewing # None
    /\ Becomes(b, Unwatched(ui[b]))
    /\ Send(b, LeaveOf(ui[b]))
    /\ UNCHANGED <<down, ready, shares, watchers, stray>>

\* failScreenSharePeer: the connection to x failed or its negotiation timed out.
PeerFails(b, x) ==
    /\ Quick /\ x \in ui[b].peers
    /\ LET c == [ui[b] EXCEPT !.peers = @ \ {x}]
           failed == c.viewing # None /\ c.viewing \in c.cards /\ Owner(c.viewing) = x
       IN  /\ Becomes(b, IF failed THEN [c EXCEPT !.viewing = None] ELSE c)
           /\ Send(b, IF failed THEN LeaveOf(c) ELSE <<>>)
    /\ UNCHANGED <<down, ready, shares, watchers, stray>>

-----------------------------------------------------------------------------
(* The browser handles a message of the gateway (handleMessage). *)

\* Fault: whatever is confirmed becomes the active share.
ConfirmedAny(b, s) ==
    /\ Becomes(b, [ui[b] EXCEPT !.starting = FALSE, !.pending = None, !.active = s,
                                !.cards = @ \cup {s}])
    /\ UNCHANGED <<up, stray>>

\* An answer to a start that is no longer wanted ends the share again.
Confirmed(b, s) ==
    /\ IF ui[b].pending = s
       THEN /\ Becomes(b, [ui[b] EXCEPT !.starting = FALSE, !.pending = None, !.active = s,
                                        !.cards = @ \cup {s}])
            /\ UNCHANGED up
       ELSE /\ Becomes(b, [ui[b] EXCEPT !.cards = @ \ {s}])
            /\ Send(b, <<Msg("stop", s)>>)
    /\ UNCHANGED stray

Stopped(b, s) ==
    LET c == [ui[b] EXCEPT !.cards = @ \ {s}]
        d == IF c.active = s THEN [Unshared(c) EXCEPT !.peers = {}] ELSE c
    IN  /\ Becomes(b, IF d.viewing = s THEN Unwatched(d) ELSE d)
        /\ stray' = [stray EXCEPT ![b] = @ \ {s}]
        /\ UNCHANGED up

\* startScreenShareViewer: a stream that was watched is dropped without leaving it.
Joined(b, s) ==
    /\ Becomes(b, [ui[b] EXCEPT !.cards = @ \cup {s}, !.viewing = s, !.peers = {Owner(s)}])
    /\ Send(b, IF s \in Natives THEN <<>> ELSE <<Msg("offer", s)>>)
    /\ stray' = [stray EXCEPT ![b] = (@ \cup ({ui[b].viewing} \ {None})) \ {s}]

Left(b, s) ==
    /\ IF ui[b].viewing = s
       THEN Becomes(b, Unwatched(ui[b])) /\ Send(b, <<Msg("leave", s)>>)
       ELSE UNCHANGED <<ui, up>>
    /\ UNCHANGED stray

\* Fault: the connection to a viewer that left stays.
ViewerLeftKept(b, x) == UNCHANGED <<ui, up, stray>>

ViewerLeft(b, x) ==
    /\ Becomes(b, [ui[b] EXCEPT !.peers = @ \ {x}])
    /\ UNCHANGED <<up, stray>>

\* An offer of the watched native source, or of a viewer of the browser's own share.
Offered(b, s, x) ==
    /\ IF s \in ui[b].cards /\ (ui[b].active = s \/ (s \in Natives /\ ui[b].viewing = s))
       THEN Becomes(b, [ui[b] EXCEPT !.peers = @ \cup {x}]) /\ Send(b, <<About("answer", s, x)>>)
       ELSE UNCHANGED <<ui, up>>
    /\ UNCHANGED stray

\* A native source declines its viewer: the browser does not leave the stream.
Closed(b, s, x) ==
    /\ IF s \notin ui[b].cards THEN UNCHANGED <<ui, stray>>
       ELSE LET c == [ui[b] EXCEPT !.peers = @ \ {x}]
            IN  IF c.viewing = s
                THEN /\ Becomes(b, [c EXCEPT !.viewing = None])
                     /\ stray' = [stray EXCEPT ![b] = @ \cup {s}]
                ELSE Becomes(b, c) /\ UNCHANGED stray
    /\ UNCHANGED up

\* An error names no stream: it ends a start and a view, whichever it is about.
Failed(b) ==
    LET c == IF ui[b].starting THEN Unshared(ui[b]) ELSE ui[b]
    IN  /\ Becomes(b, IF c.viewing = None THEN c ELSE Unwatched(c))
        /\ Send(b, LeaveOf(c))
        /\ UNCHANGED stray

\* stopTransport on "disconnected", "reconnecting" and the end of the session.
Reset(b) ==
    /\ Becomes(b, Asleep)
    /\ stray' = [stray EXCEPT ![b] = {}]
    /\ UNCHANGED up

Connected(b) == Send(b, <<Msg("list", None)>>) /\ UNCHANGED <<ui, stray>>

ListReplaced(b, S) == Becomes(b, [ui[b] EXCEPT !.cards = S]) /\ UNCHANGED <<up, stray>>

StartedByOther(b, s) ==
    Becomes(b, [ui[b] EXCEPT !.cards = @ \cup {s}]) /\ UNCHANGED <<up, stray>>

Receive(b) ==
    /\ down[b] # <<>>
    /\ LET m == Head(down[b])
       IN  \/ m.type = "list" /\ ListReplaced(b, m.cards)
           \/ m.type = "confirmed" /\ Confirmed(b, m.stream)
           \/ m.type = "started" /\ StartedByOther(b, m.stream)
           \/ m.type = "stopped" /\ Stopped(b, m.stream)
           \/ m.type = "joined" /\ Joined(b, m.stream)
           \/ m.type = "left" /\ Left(b, m.stream)
           \/ m.type = "viewerLeft" /\ ViewerLeft(b, m.peer)
           \/ m.type = "signal" /\ Offered(b, m.stream, m.peer)
           \/ m.type = "close" /\ Closed(b, m.stream, m.peer)
           \/ m.type = "error" /\ Failed(b)
           \/ m.type = "reset" /\ Reset(b)
           \/ m.type = "connected" /\ Connected(b)
    /\ down' = [down EXCEPT ![b] = Tail(@)]
    /\ UNCHANGED <<ready, shares, watchers>>

-----------------------------------------------------------------------------
(* The gateway handles a message of a browser (handleMessage). *)

Error(b) == Tell(down, {b}, Msg("error", None))

\* stopScreenStream: every session of the channel is told, the owner's too.
StopStream(s) ==
    /\ shares' = shares \ {s}
    /\ watchers' = [watchers EXCEPT ![s] = {}]
    /\ down' = Tell(down, ready, Msg("stopped", s))

\* What leaveScreenStream sends: to the owner's browser and to the one that leaves.
LeaveTold(q, b, s) ==
    Tell(IF s \in Natives THEN q ELSE Tell(q, {s[1]}, About("viewerLeft", s, b)),
         {b}, Msg("left", s))

LeaveStream(b, s) ==
    IF b \in watchers[s]
    THEN /\ watchers' = [watchers EXCEPT ![s] = @ \ {b}]
         /\ down' = LeaveTold(down, b, s)
    ELSE UNCHANGED <<watchers, down>>

Start(b, s) ==
    IF OwnShares(b) # {}
    THEN down' = Error(b) /\ UNCHANGED <<shares, watchers, stray>>
    ELSE /\ shares' = shares \cup {s}
         /\ down' = Tell(Tell(down, {b}, Msg("confirmed", s)), ready \ {b}, Msg("started", s))
         /\ UNCHANGED <<watchers, stray>>

JoinStream(b, s) ==
    /\ IF s \in OwnShares(b)
       THEN down' = Error(b) /\ UNCHANGED watchers
       ELSE /\ watchers' = [watchers EXCEPT ![s] = @ \cup {b}]
            /\ down' = Tell(down, {b}, Msg("joined", s))
    /\ UNCHANGED <<shares, stray>>

\* relayScreenShareSignal: an offer of a viewer to the owner.
RelayOffer(b, s) ==
    /\ down' = IF b \in watchers[s] THEN Tell(down, {Owner(s)}, About("signal", s, b)) ELSE Error(b)
    /\ UNCHANGED <<shares, watchers, stray>>

\* The same for an answer: to a viewer, or of a viewer to a native source. Its arrival
\* changes no more than the state of the connection.
RelayAnswer(b, s, x) ==
    /\ down' = IF (IF s \in Natives THEN b ELSE x) \in watchers[s] THEN down ELSE Error(b)
    /\ UNCHANGED <<shares, watchers, stray>>

\* A message that comes while the session is not connected is refused with an error that
\* the controller does not read.
NotReady(b, m) ==
    /\ stray' = [stray EXCEPT ![b] = IF m.type = "start" THEN @ \cup {m.stream} ELSE @]
    /\ UNCHANGED <<down, shares, watchers>>

Handle(b) ==
    /\ up[b] # <<>>
    /\ LET m == Head(up[b])
           s == m.stream
           known == s \in shares \cup Natives
       IN  \/ b \notin ready /\ NotReady(b, m)
           \/ /\ b \in ready /\ m.type = "list"
              /\ down' = Tell(down, {b}, List(shares \cup Natives))
              /\ UNCHANGED <<shares, watchers, stray>>
           \/ b \in ready /\ m.type = "start" /\ Start(b, s)
           \/ /\ b \in ready /\ m.type \notin {"list", "start"} /\ ~known
              /\ down' = Error(b)
              /\ UNCHANGED <<shares, watchers, stray>>
           \/ b \in ready /\ known /\ m.type = "stop" /\ StopStream(s) /\ UNCHANGED stray
           \/ b \in ready /\ known /\ m.type = "join" /\ JoinStream(b, s)
           \/ b \in ready /\ known /\ m.type = "leave" /\ LeaveStream(b, s) /\ UNCHANGED <<shares, stray>>
           \/ b \in ready /\ known /\ m.type = "offer" /\ RelayOffer(b, s)
           \/ b \in ready /\ known /\ m.type = "answer" /\ RelayAnswer(b, s, m.peer)
    /\ up' = [up EXCEPT ![b] = Tail(@)]
    /\ UNCHANGED <<ui, ready>>

-----------------------------------------------------------------------------
(* The connections of the gateway, and TeamSpeak behind it (external). *)

\* removePeer: the own share ends, every watched one is left, and all are told so.
PeerRemoved(b) ==
    /\ shares' = shares \ OwnShares(b)
    /\ watchers' = [s \in Streams |-> IF s \in OwnShares(b) THEN {} ELSE watchers[s] \ {b}]

RemovalTold(b) ==
    LET ended == FoldSet(LAMBDA s, q : Tell(q, ready, Msg("stopped", s)), down, OwnShares(b))
    IN  FoldSet(LAMBDA s, q : LeaveTold(q, b, s), ended, Watched(b))

\* The TeamSpeak connection of a session is lost (onDisconnect) ...
SessionDrops(b) ==
    /\ Quick /\ b \in ready
    /\ ready' = ready \ {b}
    /\ PeerRemoved(b)
    /\ down' = Tell(RemovalTold(b), {b}, Msg("reset", None))
    /\ UNCHANGED <<ui, up, stray>>

\* ... attempts to restore it are announced ...
Attempt(b) ==
    /\ Quick /\ b \notin ready
    /\ down' = Tell(down, {b}, Msg("reset", None))
    /\ UNCHANGED <<ui, up, ready, shares, watchers, stray>>

\* ... and one succeeds, or the first connection does.
SessionReady(b) ==
    /\ Quick /\ b \notin ready
    /\ ready' = ready \cup {b}
    /\ down' = Tell(down, {b}, Msg("connected", None))
    /\ UNCHANGED <<ui, up, shares, watchers, stray>>

\* The voice connection of a browser is lost: both ends forget the session (cleanupEntry,
\* releaseSessionResources), and what is on its way between them is lost.
ConnectionLost(b) ==
    /\ Quick
    /\ Becomes(b, Asleep)
    /\ ready' = ready \ {b}
    /\ PeerRemoved(b)
    /\ up' = [up EXCEPT ![b] = <<>>]
    /\ down' = [RemovalTold(b) EXCEPT ![b] = <<>>]
    /\ stray' = [stray EXCEPT ![b] = {}]

\* A native source answers its viewer: it offers, or declines (handleNotification,
\* toBrowserScreenSignal).
NativeAnswers(b, s) ==
    /\ Quick /\ b \in watchers[s] \cap ready
    /\ \E type \in {"signal", "close"} : down' = Tell(down, {b}, About(type, s, s))
    /\ UNCHANGED <<ui, up, ready, shares, watchers, stray>>

\* TeamSpeak refuses the join of a native share (joinNativeScreenStream).
NativeRefuses(b, s) ==
    /\ Quick /\ b \in watchers[s] \cap ready
    /\ watchers' = [watchers EXCEPT ![s] = @ \ {b}]
    /\ down' = Tell(LeaveTold(down, b, s), {b}, Msg("error", None))
    /\ UNCHANGED <<ui, up, ready, shares, stray>>

Next ==
    \E b \in Browsers :
       \/ Share(b) \/ Grant(b) \/ Deny(b) \/ StopShare(b) \/ Leave(b)
       \/ \E s \in Streams : Join(b, s)
       \/ \E x \in Peers : PeerFails(b, x)
       \/ Receive(b) \/ Handle(b)
       \/ SessionDrops(b) \/ Attempt(b) \/ SessionReady(b) \/ ConnectionLost(b)
       \/ \E s \in Natives : NativeAnswers(b, s) \/ NativeRefuses(b, s)

Spec == Init /\ [][Next]_vars

-----------------------------------------------------------------------------
(* Properties. *)

\* Nothing is on its way between a browser and its session at the gateway.
Quiet(b) == b \in ready /\ up[b] = <<>> /\ down[b] = <<>>

\* The user's screen is captured only for a share that is being started or that others
\* can watch, and a share that the gateway offers to the channel is one its owner's
\* browser knows to be active: whatever stops, errors, reconnects and second starts cross
\* each other on the way. Left out is a start the session refused because it was not
\* connected: the browser is not told, and captures until its user stops.
SharesAgree ==
    \A b \in Browsers :
       /\ ui[b].capturing <=> (ui[b].pending # None \/ ui[b].active # None)
       /\ Quiet(b) => /\ OwnShares(b) = {ui[b].active} \ {None}
                      /\ ui[b].pending \in stray[b] \cup {None}

\* A browser whose messages have settled shows a stream exactly if the gateway counts it
\* among the viewers, and has no connection left to someone who neither watches its share
\* nor is watched. Left out are the memberships the browser gives up untold: a second join
\* answered before the first view is left, and a declined one.
ViewersAgree ==
    \A b \in Browsers : Quiet(b) =>
       /\ {ui[b].viewing} \ {None} \subseteq Watched(b)
       /\ Watched(b) \subseteq {ui[b].viewing} \cup stray[b]
       /\ \A x \in ui[b].peers :
             \/ ui[b].viewing # None /\ Owner(ui[b].viewing) = x
             \/ \E s \in OwnShares(b) : x \in watchers[s]
=============================================================================
