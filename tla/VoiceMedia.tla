----------------------------- MODULE VoiceMedia -----------------------------
(***************************************************************************)
(* The WebRTC peer of one voice session and the microphone state its       *)
(* TeamSpeak client shows: offers that supersede each other while the      *)
(* handler of an earlier one is suspended, and the queue of clientupdate   *)
(* commands that offers, stops and browser commands share.                 *)
(*                                                                         *)
(* Sources: handleWebRtcOffer and stopWebRtc of                            *)
(* src/src/server/voice-bridge.ts, updateInputState of ts-client.ts,       *)
(* setMicrophoneMuted and setAccompanimentActive of voice-commands.ts,     *)
(* createAnswer and close of webrtc-audio.ts.                              *)
(*                                                                         *)
(* Promises that settle without I/O are continued before the next event is *)
(* handled: an event is an action with the guard Drained.                  *)
(***************************************************************************)
EXTENDS Naturals, Sequences

CONSTANTS
    Offers,     \* handlers of webrtcOffer; one is reused when its peer is closed
    None,
    Values,     \* the mute and accompaniment states the browser asks for
    MaxPending  \* bound: no command or stop arrives while so many updates wait

ASSUME OffersAssumption == None \notin Offers
ASSUME ValuesAssumption == Values \subseteq BOOLEAN
ASSUME PendingAssumption == MaxPending \in Nat

VARIABLES
    link,      \* "up" while the session is connected, "down" in a recovery,
               \* "left" once torn down, "gone" once TSClient has disconnected
    latest,    \* the offer whose generation is webrtcGeneration, or None
    webrtc,    \* entry.webrtc
    offer,     \* the suspended handlers
    peer,      \* the WebRtcAudioSession each of them created
    queue,     \* inputStateQueue: updates not settled, the first under way if sent
    input,     \* TSClient.inputState
    synced,    \* TSClient.syncedInputMuted, "unknown" for null
    server,    \* client_input_muted as the TeamSpeak server has it
    answered,  \* the offer the browser holds an answer to, since the last stop
    asked,     \* history: what the browser last asked for on this connection
    crossed,   \* history: it gave a command while an offer was being handled
    failed     \* history: an update failed on this connection

vars == <<link, latest, webrtc, offer, peer, queue, input, synced, server,
          answered, asked, crossed, failed>>

Input == [muted: BOOLEAN, accompaniment: BOOLEAN]

\* by: whose update it is; id: the handler that waits for it, or the peer a
\* setAccompanimentActive command was given for.
Update ==
    [by: {"offer"}, id: Offers, set: {"muted", "accompaniment"}, to: BOOLEAN, sent: BOOLEAN]
    \cup [by: {"stop"}, id: Offers \cup {None}, set: {"accompaniment"}, to: {FALSE}, sent: BOOLEAN]
    \cup [by: {"command"}, id: {None}, set: {"muted"}, to: BOOLEAN, sent: BOOLEAN]
    \cup [by: {"command"}, id: Offers, set: {"accompaniment"}, to: BOOLEAN, sent: BOOLEAN]

Phase == {"free", "closing", "muting", "accompanying", "resolving", "answering",
          "discarding", "failing", "restoring"}

Quiet == [muted |-> FALSE, accompaniment |-> FALSE]

Free == [phase |-> "free", wants |-> Quiet, old |-> None]

NoPeer == [state |-> "closed", has |-> Quiet]

-----------------------------------------------------------------------------
(* Helpers. *)

IsCurrent(o) == latest = o /\ link = "up"

IsCurrentPeer(o) == IsCurrent(o) /\ webrtc = o

Pending(by, id, set, to) == [by |-> by, id |-> id, set |-> set, to |-> to, sent |-> FALSE]

Changed(u) == [input EXCEPT ![u.set] = u.to]

\* TeamSpeak drops all audio of an input-muted client, music included.
Shown(i) == IF i.muted /\ ~i.accompaniment THEN "muted" ELSE "audible"

\* close() of a peer is memoised; its mixer is of no more use.
Closing(p) == IF p.state = "open" THEN [state |-> "closing", has |-> Quiet] ELSE p

PeerClosing(o) == IF o = None THEN peer ELSE [peer EXCEPT ![o] = Closing(@)]

Closed(o) == o # None => peer[o].state = "closed"

To(o, phase) == [offer EXCEPT ![o].phase = phase, ![o].old = None]

Done(o) == [offer EXCEPT ![o] = Free]

\* A handler in "closing" whose awaited stopWebRtc is done.
StopAwaited(o) ==
    /\ Closed(offer[o].old)
    /\ \A n \in DOMAIN queue : ~(queue[n].by = "stop" /\ queue[n].id = o)

Resumable(o) ==
    \/ offer[o].phase = "closing" /\ StopAwaited(o)
    \/ offer[o].phase \in {"discarding", "failing"} /\ Closed(o)

Drained ==
    /\ queue # <<>> => Head(queue).sent
    /\ \A o \in Offers : ~Resumable(o)

Negotiating(o) == offer[o].phase # "free" /\ IsCurrent(o)

\* Fault: the previous peer is forgotten without being closed.
StopPeerForgetting(o) ==
    /\ latest' = o
    /\ webrtc' = None
    /\ answered' = None
    /\ peer' = peer

(* stopWebRtc: a new generation and no peer. o is the offer handler that
   awaits it, if one does. *)
StopPeer(o) ==
    /\ latest' = o
    /\ webrtc' = None
    /\ answered' = None
    /\ peer' = PeerClosing(webrtc)

\* Fault: accompaniment is reset only if there was a peer.
StopWebRtcPlaying(o) ==
    /\ StopPeer(o)
    /\ queue' = IF link = "up" /\ webrtc # None
                THEN Append(queue, Pending("stop", o, "accompaniment", FALSE)) ELSE queue

(* While TeamSpeak is connected it also ends the accompaniment, even if an
   offer is still preparing its first peer. *)
StopWebRtc(o) ==
    /\ StopPeer(o)
    /\ queue' = IF link = "up"
                THEN Append(queue, Pending("stop", o, "accompaniment", FALSE)) ELSE queue

-----------------------------------------------------------------------------
(* Messages of the browser. It reports its mute state when it is connected and
   whenever the user changes it; an offer repeats the state last reported. *)

Offer(o) ==
    /\ Drained /\ link = "up" /\ Len(queue) < MaxPending
    /\ offer[o] = Free /\ peer[o].state = "closed"
    /\ \A p \in Offers : offer[p].old # o
    /\ StopWebRtc(o)
    /\ \E wants \in [muted: {asked.muted}, accompaniment: Values] :
          /\ offer' = [offer EXCEPT ![o] = [phase |-> "closing", wants |-> wants, old |-> webrtc]]
          /\ asked' = wants
    /\ UNCHANGED <<link, input, synced, server, crossed, failed>>

\* webrtcStop is obeyed in every state of the session.
Stop ==
    /\ Drained /\ link \in {"up", "down"} /\ Len(queue) < MaxPending
    /\ StopWebRtc(None)
    /\ asked' = [asked EXCEPT !.accompaniment = FALSE]
    /\ UNCHANGED <<link, offer, input, synced, server, crossed, failed>>

SetMicrophoneMuted ==
    /\ Drained /\ link = "up" /\ Len(queue) < MaxPending
    /\ \E muted \in Values :
          /\ queue' = Append(queue, Pending("command", None, "muted", muted))
          /\ asked' = [asked EXCEPT !.muted = muted]
    /\ crossed' = (crossed \/ \E o \in Offers : Negotiating(o))
    /\ UNCHANGED <<link, latest, webrtc, offer, peer, input, synced, server, answered, failed>>

\* Fault: the command goes ahead without a peer.
SetAccompanimentWithoutPeer ==
    /\ Drained /\ link = "up" /\ Len(queue) < MaxPending
    /\ \E active \in Values :
          /\ queue' = Append(queue, Pending("command", webrtc, "accompaniment", active))
          /\ asked' = [asked EXCEPT !.accompaniment = active]
    /\ crossed' = (crossed \/ \E o \in Offers : Negotiating(o))
    /\ UNCHANGED <<link, latest, webrtc, offer, peer, input, synced, server, answered, failed>>

\* Ignored without a peer; the browser only sends it while it has an attempt.
SetAccompanimentActive ==
    /\ Drained /\ link = "up" /\ Len(queue) < MaxPending
    /\ webrtc # None \/ \E o \in Offers : Negotiating(o)
    /\ \E active \in Values :
          /\ queue' = IF webrtc = None THEN queue
                      ELSE Append(queue, Pending("command", webrtc, "accompaniment", active))
          /\ asked' = [asked EXCEPT !.accompaniment = active]
    /\ crossed' = (crossed \/ \E o \in Offers : Negotiating(o))
    /\ UNCHANGED <<link, latest, webrtc, offer, peer, input, synced, server, answered, failed>>

-----------------------------------------------------------------------------
(* The queue of updates. *)

\* Fault: the mixer keeps the mute state it was created with.
AppliedTooEarly(u) ==
    IF u.by = "command" /\ u.set = "accompaniment" /\ webrtc = u.id
    THEN [peer EXCEPT ![webrtc].has.accompaniment = u.to]
    ELSE peer

\* What a browser command does to the peer once its update is accepted: the
\* mute state goes to whichever peer there is, accompaniment to its own.
Applied(u) ==
    IF u.by = "command" /\ webrtc # None /\ (u.set = "muted" \/ webrtc = u.id)
    THEN [peer EXCEPT ![webrtc].has[u.set] = u.to]
    ELSE peer

\* An offer handler continues. It gives up if it has been superseded; an
\* update that was rejected is only logged.
Continued(u, accepted) ==
    LET o == u.id
    IN IF u.by # "offer"
       THEN offer' = offer /\ queue' = Tail(queue)
       ELSE IF ~IsCurrent(o) \/ offer[o].phase = "restoring"
       THEN offer' = Done(o) /\ queue' = Tail(queue)
       ELSE IF offer[o].phase = "muting" /\ accepted
       THEN /\ offer' = To(o, "accompanying")
            /\ queue' = Append(Tail(queue), Pending("offer", o, "accompaniment",
                                                    offer[o].wants.accompaniment))
       ELSE offer' = To(o, "resolving") /\ queue' = Tail(queue)

\* The wire state is the wanted one already.
UpdateSkipped ==
    /\ queue # <<>> /\ ~Head(queue).sent
    /\ synced = Shown(Changed(Head(queue)))
    /\ input' = Changed(Head(queue))
    /\ peer' = Applied(Head(queue))
    /\ Continued(Head(queue), TRUE)
    /\ UNCHANGED <<link, latest, webrtc, synced, server, answered, asked, crossed, failed>>

UpdateSent ==
    /\ queue # <<>> /\ ~Head(queue).sent
    /\ synced # Shown(Changed(Head(queue)))
    /\ queue' = [queue EXCEPT ![1].sent = TRUE]
    /\ UNCHANGED <<link, latest, webrtc, offer, peer, input, synced, server, answered,
                   asked, crossed, failed>>

UpdateAccepted ==
    /\ Drained /\ queue # <<>>
    /\ server' = Shown(Changed(Head(queue)))
    /\ synced' = server'
    /\ input' = Changed(Head(queue))
    /\ peer' = Applied(Head(queue))
    /\ Continued(Head(queue), TRUE)
    /\ UNCHANGED <<link, latest, webrtc, answered, asked, crossed, failed>>

\* Fault: a failed command leaves the belief about the server alone.
UpdateFailedUnnoticed ==
    /\ Drained /\ queue # <<>>
    /\ server' \in {server, Shown(Changed(Head(queue)))}
    /\ Continued(Head(queue), FALSE)
    /\ failed' = TRUE
    /\ UNCHANGED <<link, latest, webrtc, peer, input, synced, answered, asked, crossed>>

\* The command failed, after its retries if the server refused it for flooding.
\* Whether a command that got no answer took effect is not known.
UpdateFailed ==
    /\ Drained /\ queue # <<>>
    /\ synced' = "unknown"
    /\ server' \in {server, Shown(Changed(Head(queue)))}
    /\ Continued(Head(queue), FALSE)
    /\ failed' = TRUE
    /\ UNCHANGED <<link, latest, webrtc, peer, input, answered, asked, crossed>>

-----------------------------------------------------------------------------
(* The rest of an offer handler. *)

\* The former peer is closed and its accompaniment reset.
StopDone(o) ==
    /\ offer[o].phase = "closing" /\ StopAwaited(o)
    /\ IF IsCurrent(o)
       THEN /\ offer' = To(o, "muting")
            /\ queue' = Append(queue, Pending("offer", o, "muted", offer[o].wants.muted))
       ELSE offer' = Done(o) /\ queue' = queue
    /\ UNCHANGED <<link, latest, webrtc, peer, input, synced, server, answered, asked,
                   crossed, failed>>

\* Fault: no look at isCurrent() after the media addresses were awaited.
PeerCreatedUnchecked(o) ==
    /\ Drained /\ offer[o].phase = "resolving"
    /\ webrtc' = o
    /\ peer' = [peer EXCEPT ![o] = [state |-> "open", has |-> offer[o].wants]]
    /\ offer' = To(o, "answering")
    /\ UNCHANGED <<link, latest, queue, input, synced, server, answered, asked, crossed, failed>>

\* The peer is installed before its answer is awaited.
PeerCreated(o) ==
    /\ Drained /\ offer[o].phase = "resolving"
    /\ IF IsCurrent(o)
       THEN /\ webrtc' = o
            /\ peer' = [peer EXCEPT ![o] = [state |-> "open", has |-> offer[o].wants]]
            /\ offer' = To(o, "answering")
       ELSE /\ offer' = Done(o)
            /\ UNCHANGED <<webrtc, peer>>
    /\ UNCHANGED <<link, latest, queue, input, synced, server, answered, asked, crossed, failed>>

\* The error is reported only after the accompaniment has been reset.
Restore(o) ==
    IF IsCurrent(o)
    THEN /\ offer' = To(o, "restoring")
         /\ queue' = Append(queue, Pending("offer", o, "accompaniment", FALSE))
    ELSE offer' = Done(o) /\ queue' = queue

PeerUnavailable(o) ==
    /\ Drained /\ offer[o].phase = "resolving"
    /\ Restore(o)
    /\ UNCHANGED <<link, latest, webrtc, peer, input, synced, server, answered, asked,
                   crossed, failed>>

\* Fault: the answer is sent without a look at what has happened meanwhile.
AnswerCreatedUnchecked(o) ==
    /\ Drained /\ offer[o].phase = "answering"
    /\ answered' = o /\ offer' = Done(o) /\ UNCHANGED peer
    /\ UNCHANGED <<link, latest, webrtc, queue, input, synced, server, asked, crossed, failed>>

AnswerCreated(o) ==
    /\ Drained /\ offer[o].phase = "answering"
    /\ IF IsCurrentPeer(o)
       THEN answered' = o /\ offer' = Done(o) /\ UNCHANGED peer
       ELSE offer' = To(o, "discarding") /\ peer' = PeerClosing(o) /\ UNCHANGED answered
    /\ UNCHANGED <<link, latest, webrtc, queue, input, synced, server, asked, crossed, failed>>

AnswerFailed(o) ==
    /\ Drained /\ offer[o].phase = "answering"
    /\ webrtc' = IF webrtc = o THEN None ELSE webrtc
    /\ offer' = To(o, "failing")
    /\ peer' = PeerClosing(o)
    /\ UNCHANGED <<link, latest, queue, input, synced, server, answered, asked, crossed, failed>>

Discarded(o) ==
    /\ offer[o].phase = "discarding" /\ Closed(o)
    /\ offer' = Done(o)
    /\ UNCHANGED <<link, latest, webrtc, peer, queue, input, synced, server, answered,
                   asked, crossed, failed>>

FailedPeerClosed(o) ==
    /\ offer[o].phase = "failing" /\ Closed(o)
    /\ Restore(o)
    /\ UNCHANGED <<link, latest, webrtc, peer, input, synced, server, answered, asked,
                   crossed, failed>>

PeerClosed(o) ==
    /\ Drained /\ peer[o].state = "closing"
    /\ peer' = [peer EXCEPT ![o] = NoPeer]
    /\ UNCHANGED <<link, latest, webrtc, offer, queue, input, synced, server, answered,
                   asked, crossed, failed>>

-----------------------------------------------------------------------------
(* The session. *)

\* Every update of the old connection is rejected, and no handler is current
\* any more: those that waited for an update are done.
Rejected ==
    /\ queue' = <<>>
    /\ offer' = [o \in Offers |->
                   IF offer[o].phase \in {"muting", "accompanying", "restoring"}
                   THEN Free ELSE offer[o]]

\* The TeamSpeak transport drops; resetDirectoryForReconnect stops the peer.
Drop ==
    /\ Drained /\ link = "up"
    /\ link' = "down"
    /\ StopPeer(None)
    /\ Rejected
    /\ UNCHANGED <<input, synced, server, asked, crossed, failed>>

\* TSClient.connect() starts with an empty state, the new client unmuted.
Reconnect ==
    /\ Drained /\ link = "down"
    /\ link' = "up"
    /\ input' = Quiet /\ synced' = "unknown" /\ server' = "audible"
    /\ asked' = Quiet /\ crossed' = FALSE /\ failed' = FALSE
    /\ UNCHANGED <<latest, webrtc, offer, peer, queue, answered>>

\* cleanupEntry: the entry is gone, so that nothing restores the input.
Leave ==
    /\ Drained /\ link \in {"up", "down"}
    /\ link' = "left"
    /\ StopPeer(None)
    /\ UNCHANGED <<offer, queue, input, synced, server, asked, crossed, failed>>

\* cleanupEntry disconnects the client, or the transport is lost before.
Disconnected ==
    /\ Drained /\ link = "left"
    /\ link' = "gone"
    /\ Rejected
    /\ UNCHANGED <<latest, webrtc, peer, input, synced, server, answered, asked, crossed, failed>>

-----------------------------------------------------------------------------
Init ==
    /\ link = "up"
    /\ latest = None /\ webrtc = None /\ answered = None
    /\ offer = [o \in Offers |-> Free]
    /\ peer = [o \in Offers |-> NoPeer]
    /\ queue = <<>>
    /\ input = Quiet /\ synced = "unknown" /\ server = "audible"
    /\ asked = Quiet /\ crossed = FALSE /\ failed = FALSE

Continues(o) == StopDone(o) \/ Discarded(o) \/ FailedPeerClosed(o)

Settles(o) ==
    \/ PeerCreated(o) \/ PeerUnavailable(o)
    \/ AnswerCreated(o) \/ AnswerFailed(o)

UpdateSettles == UpdateAccepted \/ UpdateFailed

Next ==
    \/ Stop \/ SetMicrophoneMuted \/ SetAccompanimentActive
    \/ UpdateSkipped \/ UpdateSent \/ UpdateSettles
    \/ Drop \/ Reconnect \/ Leave \/ Disconnected
    \/ \E o \in Offers : Offer(o) \/ Continues(o) \/ Settles(o) \/ PeerClosed(o)

Spec == Init /\ [][Next]_vars

\* Promises are continued, and what is awaited (acknowledgements, DNS with its
\* deadline, SDP, closes) settles although other events keep arriving.
FairSpec ==
    /\ Spec
    /\ WF_vars(UpdateSkipped \/ UpdateSent)
    /\ SF_vars(UpdateSettles)
    /\ SF_vars(Disconnected)
    /\ \A o \in Offers :
          /\ WF_vars(Continues(o))
          /\ SF_vars(Settles(o))
          /\ SF_vars(PeerClosed(o))

-----------------------------------------------------------------------------
(* Type invariant: every variable holds a value of the kind the code keeps. *)
TypeOK ==
    /\ link \in {"up", "down", "left", "gone"}
    /\ {latest, webrtc, answered} \subseteq Offers \cup {None}
    /\ offer \in [Offers -> [phase: Phase, wants: Input, old: Offers \cup {None}]]
    /\ peer \in [Offers -> [state: {"open", "closing", "closed"}, has: Input]]
    /\ queue \in Seq(Update)
    /\ input \in Input
    /\ synced \in {"muted", "audible", "unknown"} /\ server \in {"muted", "audible"}
    /\ asked \in Input /\ crossed \in BOOLEAN /\ failed \in BOOLEAN

(* However offers, stops, drops and teardowns overtake a suspended handler,
   a peer is open exactly while it is the session's peer, and it is so only
   of the newest offer of a connected session: none is left behind open. *)
PeerOwned ==
    \A o \in Offers : peer[o].state = "open" <=> webrtc = o /\ IsCurrent(o)

(* The answer the browser holds is that of the peer the session forwards. *)
AnswerMatchesPeer == answered # None => webrtc = answered

(* While no command is under way, what the gateway believes TeamSpeak shows
   as the microphone state is what it shows, also after failed commands, and
   it follows from the input state. *)
SyncedTruthful ==
    synced # "unknown" =>
        /\ synced = Shown(input)
        /\ queue = <<>> \/ ~Head(queue).sent => server = synced

Idle == queue = <<>> /\ \A o \in Offers : offer[o].phase = "free"

(* When everything has settled without a failed command, accompaniment is on
   for TeamSpeak exactly if it is for the peer; without a peer it is off, so
   that a muted microphone is muted again. *)
AccompanimentAgrees ==
    Idle /\ link = "up" /\ ~failed =>
        input.accompaniment = (webrtc # None /\ peer[webrtc].has.accompaniment)

Honoured ==
    /\ input.muted = asked.muted
    /\ webrtc # None => peer[webrtc].has = asked

(* What the browser asked for last holds once everything has settled, if it
   did not ask in the middle of a negotiation. *)
LastRequestHonoured == Idle /\ link = "up" /\ ~failed /\ ~crossed => Honoured

(* A muted microphone stops the user's voice packets at the gateway: once
   everything has settled, the mixer knows of the mute. *)
MuteReachesPeer ==
    Idle /\ link = "up" /\ ~failed /\ webrtc # None /\ asked.muted
        => peer[webrtc].has.muted

(* Every offer is dealt with: answered, refused or given up. *)
OffersEnd == \A o \in Offers : offer[o].phase # "free" ~> offer[o].phase = "free"

(* A session that is torn down ends with every handler finished and every
   peer closed. *)
LeaveReleasesMedia ==
    link = "left" ~> \A o \in Offers : offer[o] = Free /\ peer[o] = NoPeer

=============================================================================
