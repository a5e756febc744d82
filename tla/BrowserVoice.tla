---------------------------- MODULE BrowserVoice ----------------------------
(***************************************************************************)
(* The audio of one browser tab: the voice connection (join ticket and     *)
(* socket), the microphone and the graph that captures it, the WebRTC      *)
(* attempt and its fallback to PCM over the socket, the choice of an input *)
(* device, and the settings panel and microphone test that share the       *)
(* microphone with the session.                                            *)
(*                                                                         *)
(* Sources: web/src/composables/useVoiceWebSocket.ts, voice/connection.ts, *)
(* voice/webrtc-transport.ts, voice/microphone-capture.ts,                 *)
(* voice/microphone-test.ts and the settings panel of                      *)
(* composables/useWebClientAudioControls.ts, all under src/web/src, and    *)
(* what the gateway does with an offer, handleWebRtcOffer of               *)
(* src/src/server/voice-bridge.ts (VoiceMedia has it in detail).           *)
(*                                                                         *)
(* External: the browser's media API, which answers or refuses any time    *)
(* later. The gateway takes an offer at once and its answers wait in the   *)
(* socket; its control messages arrive when sent.                          *)
(***************************************************************************)
EXTENDS Naturals, Sequences, SequencesExt

CONSTANTS
    Devices,    \* the input devices, the browser's default among them
    None,
    MaxReplies  \* bound: WebRTC replies of the gateway on their way

ASSUME DevicesAssumption == Devices # {} /\ None \notin Devices
ASSUME RepliesAssumption == MaxReplies \in Nat \ {0}

VARIABLES
    session,    \* state.connecting/connected/reconnecting/reconnectFailed
    requests,   \* createVoiceConnection: join-ticket requests not answered yet,
    sockets,    \* and the open sockets, each of the current attempt or of a past one
    server,     \* the gateway's session behind the current socket
    offer,      \* the offer the gateway holds a peer for
    replies,    \* its replies that wait in the socket
    media,      \* what useVoiceWebSocket() owns of the browser's audio, see Silent
    settings    \* settingsOpen of the settings panel

vars == <<session, requests, sockets, server, offer, replies, media, settings>>

Sessions == {"idle", "connecting", "connected", "reconnecting", "failed"}
Owners == {"current", "past"}

\* An offer and its replies belong to the attempt under way, or to an earlier one.
Offer == [answered: BOOLEAN, own: BOOLEAN]
Reply == [kind: {"answer", "error"}, own: BOOLEAN]

(* microphone  start() awaits prepareMicrophone()
   left        prepareMicrophone() threw: a record without a peer stays current
   offering    createOffer, setLocalDescription and the gathering of candidates
   offered     the offer is sent
   remote tells whose answer was applied, input whether the microphone's graph
   still feeds the peer. unseen (history): begun while a change of the microphone
   was under way, which had found no attempt to restart. *)
Attempt == [step: {"microphone", "left", "offering", "offered"},
            remote: {"none", "own", "past"}, input: BOOLEAN, unseen: BOOLEAN]

\* startMicrophone() under way: who called it, the device it asked for, whether
\* the stream is there. overtaken (history): another device was chosen meanwhile.
Callers == {"start", "fallback", "change", "settings", "test"}
Asking == [by: Callers, device: Devices, granted: BOOLEAN, overtaken: BOOLEAN]

\* micStream and its microphoneCapture, pcm: its samples are handed out.
Microphone == [device: Devices, pcm: BOOLEAN, overtaken: BOOLEAN]

\* The streams of the microphone: of asking, of mic, or of an aborted request.
Streams == {"asked", "kept", "late"}

(* rtc       the attempt createWebRtcTransport() holds
   start     microphoneStartPromise: its microphone is asked for, the devices
             are listed, or it lost the microphone to a later call and will reject
   asking    the startMicrophone() that is not aborted
   late      an aborted startMicrophone() still waits for getUserMedia()
   mic       micStream and microphoneCapture
   open      the streams whose tracks are live
   error     state.microphoneError is shown: whose request failed
   selected, committed
             the device shown as chosen, and the one to fall back to
   change    the current reconfigureMicrophone(): its microphone is asked for,
             to be followed by a new WebRTC attempt or not, or devices are listed
   test      the microphone test: preparing, its preparation overtaken, recording *)
Silent(device) ==
    [rtc |-> None, start |-> "none", asking |-> None, late |-> FALSE, mic |-> None,
     open |-> {}, error |-> "none", selected |-> device, committed |-> device,
     change |-> "none", test |-> "none"]

Media ==
    [rtc: Attempt \cup {None}, start: {"none", "asking", "listing", "overtaken"},
     asking: Asking \cup {None}, late: BOOLEAN, mic: Microphone \cup {None},
     open: SUBSET Streams, error: Callers \cup {"none"},
     selected: Devices, committed: Devices,
     change: {"none", "microphone", "restart", "list"},
     test: {"none", "preparing", "overtaken", "recording"}]

ASSUME NoneAssumption == None \notin Offer \cup Attempt \cup Asking \cup Microphone

\* webrtc.active
Active(m) == m.rtc # None /\ m.rtc.step \in {"offering", "offered"}

-----------------------------------------------------------------------------
(* The microphone. m is what media is changed to. *)

\* Fault: the shared promise is not told that its microphone was taken over.
OvertakeUntold(m) ==
    [m EXCEPT !.asking = None, !.open = @ \ {"asked"},
              !.late = @ \/ (m.asking # None /\ ~m.asking.granted),
              !.change = IF @ \in {"microphone", "restart"} THEN "none" ELSE @,
              !.test = IF @ = "preparing" THEN "overtaken" ELSE @]

\* A later startMicrophone() or stopMicrophone() aborts the pending one and moves
\* microphoneGeneration on: whoever waits for it will find itself cancelled. A graph
\* in preparation is disposed of with its stream, getUserMedia() cannot be recalled.
Overtake(m) ==
    [m EXCEPT !.asking = None, !.open = @ \ {"asked"},
              !.late = @ \/ (m.asking # None /\ ~m.asking.granted),
              !.start = IF @ = "none" THEN @ ELSE "overtaken",
              !.change = IF @ \in {"microphone", "restart"} THEN "none" ELSE @,
              !.test = IF @ = "preparing" THEN "overtaken" ELSE @]

StartMicrophone(m, caller) ==
    [Overtake(m) EXCEPT
        !.asking = [by |-> caller, device |-> m.selected, granted |-> FALSE, overtaken |-> FALSE]]

\* stopMicrophone() with the context closed.
StopMicrophone(m) ==
    [Overtake(m) EXCEPT !.start = "none", !.mic = None, !.open = @ \ {"kept"},
                        !.rtc = IF @ = None THEN @ ELSE [@ EXCEPT !.input = FALSE]]

\* ensureMicrophone(): one promise for all who need it.
EnsureMicrophone(m) ==
    IF m.start # "none" \/ m.mic # None THEN m
    ELSE [StartMicrophone(m, "start") EXCEPT !.start = "asking"]

\* microphoneTest.dispose(): its end releases a microphone no session needs.
EndTest(m, connected) ==
    LET n == [m EXCEPT !.test = "none"]
    IN IF m.test = "none" \/ connected THEN n ELSE StopMicrophone(n)

-----------------------------------------------------------------------------
(* The WebRTC attempt. *)

\* The record start() leaves once the microphone is there: PCM is stopped and the
\* peer is fed by the graph.
BeginOffer(m) ==
    [m EXCEPT !.mic.pcm = FALSE,
              !.rtc = [step |-> "offering", remote |-> "none", input |-> TRUE,
                        unseen |-> m.change = "microphone"]]

StartRtc(m) ==
    LET n == EnsureMicrophone(
                 [m EXCEPT !.rtc = [step |-> "microphone", remote |-> "none",
                                    input |-> FALSE, unseen |-> FALSE]])
    IN IF n.start = "none" THEN BeginOffer(n) ELSE n

\* Offers and replies under way no longer concern the current attempt.
Disowned(queue) == [r \in DOMAIN queue |-> [queue[r] EXCEPT !.own = FALSE]]

\* Fault: the gateway is not told.
FailUntold(waiting) ==
    /\ media' = StartMicrophone([media EXCEPT !.rtc = None], "fallback")
    /\ offer' = IF offer = None THEN None ELSE [offer EXCEPT !.own = FALSE]
    /\ replies' = Disowned(waiting)

\* fail() with these replies still to come: webrtcStop has the gateway close its
\* peer, the attempt ends here, and PCM takes over with a new capture.
Fail(waiting) ==
    /\ media' = StartMicrophone([media EXCEPT !.rtc = None], "fallback")
    /\ offer' = None
    /\ replies' = Disowned(waiting)

-----------------------------------------------------------------------------
(* The connection. *)

\* releaseSessionResources()
Release(m) ==
    LET quiet == [m EXCEPT !.rtc = None, !.selected = m.committed,
                           !.change = "none", !.test = "none"]
    IN StopMicrophone(quiet)

\* createVoiceConnection().stop(): the request is aborted and the socket closed.
Hangup ==
    /\ requests' = IF requests = {} THEN {} ELSE {"past"}
    /\ sockets' = sockets \ {"current"}
    /\ server' = "none"
    /\ offer' = None
    /\ replies' = <<>>

Init ==
    /\ session = "idle"
    /\ requests = {}
    /\ sockets = {}
    /\ server = "none"
    /\ offer = None
    /\ replies = <<>>
    /\ \E d \in Devices : media = Silent(d)
    /\ settings = FALSE

\* connect(): the former connection ends first.
Connect ==
    /\ session' = "connecting"
    /\ requests' = {"current"} \cup (IF requests = {} THEN {} ELSE {"past"})
    /\ sockets' = sockets \ {"current"}
    /\ server' = "none"
    /\ offer' = None
    /\ replies' = <<>>
    /\ media' = [Release(media) EXCEPT !.error = "none"]
    /\ UNCHANGED settings

Disconnect ==
    /\ Hangup
    /\ session' = "idle"
    /\ media' = [Release(media) EXCEPT !.error = "none"]
    /\ UNCHANGED settings

\* The ticket is there: only the current attempt opens a socket with it.
TicketIssued(owner) ==
    /\ owner \in requests
    /\ requests' = requests \ {owner}
    /\ IF owner = "current"
       THEN sockets' = sockets \cup {"current"} /\ server' = "joining"
       ELSE UNCHANGED <<sockets, server>>
    /\ UNCHANGED <<session, offer, replies, media, settings>>

\* Refused, failed or aborted: only the current attempt reports it.
TicketFailed(owner) ==
    /\ owner \in requests
    /\ requests' = requests \ {owner}
    /\ session' = IF owner = "current" THEN "idle" ELSE session
    /\ UNCHANGED <<sockets, server, offer, replies, media, settings>>

\* The deadline of 15 seconds.
TicketTimeout ==
    /\ "current" \in requests
    /\ requests' = {"past"}
    /\ session' = "idle"
    /\ UNCHANGED <<sockets, server, offer, replies, media, settings>>

\* "connected", after the first join or a reconnect; rtc: webrtcAvailable.
Joined(rtc) ==
    /\ server \in {"joining", "retrying"}
    /\ server' = "live"
    /\ session' = "connected"
    /\ media' = IF rtc THEN StartRtc(media) ELSE EnsureMicrophone(media)
    /\ UNCHANGED <<requests, sockets, offer, replies, settings>>

\* "disconnected" and "reconnecting": the gateway has closed its peer.
Dropped ==
    /\ server = "live"
    /\ server' = "retrying"
    /\ session' = "reconnecting"
    /\ offer' = None
    /\ replies' = <<>>
    /\ media' = Release(media)
    /\ UNCHANGED <<requests, sockets, settings>>

\* "connectionFailed" of a first join or of a kick at any time, "reconnectFailed" of
\* a later attempt: the gateway's session ends.
Ended ==
    /\ server \in {"joining", "live", "retrying"}
    /\ server' = "over"
    /\ \/ session' = "idle"
       \/ server = "retrying" /\ session' = "failed"
    /\ offer' = None
    /\ replies' = <<>>
    /\ media' = Release(media)
    /\ UNCHANGED <<requests, sockets, settings>>

\* The socket of the current attempt closes: onClose.
Closed ==
    /\ "current" \in sockets
    /\ Hangup
    /\ session' = IF session = "failed" THEN "failed" ELSE "idle"
    /\ media' = [Release(media) EXCEPT !.error = "none"]
    /\ UNCHANGED settings

-----------------------------------------------------------------------------
(* The microphone's answers. *)

\* getUserMedia() resolves.
Granted ==
    /\ media.asking # None
    /\ ~media.asking.granted
    /\ media' = [media EXCEPT !.asking.granted = TRUE, !.open = @ \cup {"asked"}]
    /\ UNCHANGED <<session, requests, sockets, server, offer, replies, settings>>

\* That of an aborted request resolves.
LateGranted ==
    /\ media.late
    /\ "late" \notin media.open
    /\ media' = [media EXCEPT !.open = @ \cup {"late"}]
    /\ UNCHANGED <<session, requests, sockets, server, offer, replies, settings>>

\* Fault: the stream of an aborted request is not stopped.
LateKept(m, others) == [m EXCEPT !.late = others]

\* assertCurrent() throws before a graph owns the stream, which is stopped; others:
\* further aborted requests wait.
LateReleased(m, others) == [m EXCEPT !.late = others, !.open = @ \ {"late"}]

\* An aborted startMicrophone() ends, with a stream or without. It shows no error.
LateEnds ==
    /\ media.late
    /\ \E others \in BOOLEAN : media' = LateReleased(media, others)
    /\ UNCHANGED <<session, requests, sockets, server, offer, replies, settings>>

\* Fault: a new choice is kept although its device was refused.
RefusedKept ==
    /\ media.asking # None
    /\ media' = [media EXCEPT !.asking = None, !.open = @ \ {"asked"},
                              !.error = media.asking.by, !.change = "none",
                              !.start = "none", !.test = "none"]
    /\ UNCHANGED <<session, requests, sockets, server, offer, replies, settings>>

\* getUserMedia() or the graph fails: an earlier graph stays, its caller is told.
Refused ==
    /\ media.asking # None
    /\ LET m == [media EXCEPT !.asking = None, !.open = @ \ {"asked"},
                              !.error = media.asking.by]
       IN media' = CASE m.start = "asking" ->
                           [m EXCEPT !.start = "none",
                                     !.rtc = IF @ = None THEN None ELSE [@ EXCEPT !.step = "left"]]
                     [] m.change \in {"microphone", "restart"} ->
                           [m EXCEPT !.change = "none", !.selected = m.committed]
                     [] media.asking.by = "test" -> EndTest(m, session = "connected")
                     [] OTHER -> m
    /\ UNCHANGED <<session, requests, sockets, server, offer, replies, settings>>

\* The graph is complete: it replaces the former one, and what waited for it goes on.
Commit ==
    /\ media.asking # None
    /\ media.asking.granted
    /\ LET m == [media EXCEPT
                   !.mic = [device |-> media.asking.device, pcm |-> TRUE,
                            overtaken |-> media.asking.overtaken],
                   !.open = {"kept"},
                   !.rtc = IF @ = None THEN None ELSE [@ EXCEPT !.input = FALSE],
                   !.asking = None, !.error = "none",
                   !.committed = media.selected,
                   !.start = IF @ = "asking" THEN "listing" ELSE @,
                   !.change = IF @ = "list" THEN @ ELSE "none"]
       IN IF media.change = "restart"
          THEN /\ media' = StartRtc(m)
               /\ offer' = IF offer = None THEN None ELSE [offer EXCEPT !.own = FALSE]
               /\ replies' = Disowned(replies)
          ELSE media' = m /\ UNCHANGED <<offer, replies>>
    /\ UNCHANGED <<session, requests, sockets, server, settings>>

\* The devices are listed: microphoneStartPromise resolves.
Listed ==
    /\ media.start = "listing"
    /\ LET m == [media EXCEPT !.start = "none"]
       IN media' = IF m.rtc # None /\ m.rtc.step = "microphone" THEN BeginOffer(m) ELSE m
    /\ UNCHANGED <<session, requests, sockets, server, offer, replies, settings>>

\* It rejects, having lost the microphone: no error is shown for a cancelled start.
Overtaken ==
    /\ media.start = "overtaken"
    /\ media' = [media EXCEPT !.start = "none",
                              !.rtc = IF @ # None /\ @.step = "microphone"
                                      THEN [@ EXCEPT !.step = "left"] ELSE @]
    /\ UNCHANGED <<session, requests, sockets, server, offer, replies, settings>>

-----------------------------------------------------------------------------
(* Negotiation. *)

\* The offer is sent; the gateway drops the one it had.
Offered ==
    /\ media.rtc # None
    /\ media.rtc.step = "offering"
    /\ media' = [media EXCEPT !.rtc.step = "offered"]
    /\ offer' = [answered |-> FALSE, own |-> TRUE]
    /\ UNCHANGED <<session, requests, sockets, server, replies, settings>>

\* createOffer() fails, no answer within 8 seconds, or the peer's connection fails.
RtcFails ==
    /\ Active(media)
    /\ Fail(replies)
    /\ UNCHANGED <<session, requests, sockets, server, settings>>

GatewayAnswers ==
    /\ offer # None
    /\ ~offer.answered
    /\ Len(replies) < MaxReplies
    /\ offer' = [offer EXCEPT !.answered = TRUE]
    /\ replies' = Append(replies, [kind |-> "answer", own |-> offer.own])
    /\ UNCHANGED <<session, requests, sockets, server, media, settings>>

\* Negotiation fails at the gateway, which removes its peer and says so.
GatewayRefuses ==
    /\ offer # None
    /\ ~offer.answered
    /\ Len(replies) < MaxReplies
    /\ offer' = None
    /\ replies' = Append(replies, [kind |-> "error", own |-> offer.own])
    /\ UNCHANGED <<session, requests, sockets, server, media, settings>>

\* An answer is applied to the peer there is: replies name no offer. A peer that
\* has an answer takes no second one, one without an offer yet takes none.
AnswerApplied ==
    /\ replies # <<>>
    /\ Head(replies).kind = "answer"
    /\ IF Active(media) /\ media.rtc.remote = "none"
       THEN /\ media' = [media EXCEPT !.rtc.remote = IF Head(replies).own THEN "own" ELSE "past"]
            /\ UNCHANGED offer
       ELSE ~Active(media) /\ UNCHANGED <<media, offer>>
    /\ replies' = Tail(replies)
    /\ UNCHANGED <<session, requests, sockets, server, settings>>

\* setRemoteDescription() rejects.
AnswerRejected ==
    /\ replies # <<>>
    /\ Head(replies).kind = "answer"
    /\ Active(media)
    /\ Fail(Tail(replies))
    /\ UNCHANGED <<session, requests, sockets, server, settings>>

\* "webrtcError": it fails the attempt there is, whichever it was meant for.
ErrorReceived ==
    /\ replies # <<>>
    /\ Head(replies).kind = "error"
    /\ IF media.rtc # None
       THEN Fail(Tail(replies))
       ELSE replies' = Tail(replies) /\ UNCHANGED <<media, offer>>
    /\ UNCHANGED <<session, requests, sockets, server, settings>>

-----------------------------------------------------------------------------
(* The settings panel, the microphone test and the choice of a device. *)

\* prepareInputDevices()
OpenSettings ==
    /\ ~settings
    /\ settings' = TRUE
    /\ media' = IF media.mic = None THEN StartMicrophone(media, "settings") ELSE media
    /\ UNCHANGED <<session, requests, sockets, server, offer, replies>>

\* stopMicrophoneTest(): a preview ends, the microphone of a session stays.
CloseSettings ==
    /\ settings
    /\ settings' = FALSE
    /\ LET m == [media EXCEPT !.test = "none"]
       IN media' = IF session = "connected" THEN m ELSE StopMicrophone(m)
    /\ UNCHANGED <<session, requests, sockets, server, offer, replies>>

StartTest ==
    /\ settings
    /\ media.test = "none"
    /\ LET m == IF media.mic = None THEN StartMicrophone(media, "test") ELSE media
       IN media' = [m EXCEPT !.test = "preparing"]
    /\ UNCHANGED <<session, requests, sockets, server, offer, replies, settings>>

\* The microphone is there and the devices are listed: it is recorded.
TestRecords ==
    /\ media.test = "preparing"
    /\ media.asking = None
    /\ media' = [media EXCEPT !.test = "recording"]
    /\ UNCHANGED <<session, requests, sockets, server, offer, replies, settings>>

\* Stopped by the user or after 5 seconds, or its preparation was cancelled.
TestEnds ==
    /\ media.test # "none"
    /\ media' = EndTest(media, session = "connected")
    /\ UNCHANGED <<session, requests, sockets, server, offer, replies, settings>>

\* setInputDevice() and reconfigureMicrophone(): by the user, for a device that went
\* away, or with the same device for another noise suppression.
SetInputDevice(device) ==
    /\ LET m == [media EXCEPT !.selected = device]
       IN media' = IF m.mic # None
                   THEN [StartMicrophone(m, "change") EXCEPT
                            !.change = IF Active(media) THEN "restart" ELSE "microphone"]
                   ELSE [m EXCEPT !.change = "list",
                                  !.asking = IF @ = None THEN None
                                             ELSE [@ EXCEPT !.overtaken = (media.asking.device # device)]]
    /\ UNCHANGED <<session, requests, sockets, server, offer, replies, settings>>

\* Without a microphone the choice is committed once the devices are listed.
ChangeListed ==
    /\ media.change = "list"
    /\ media' = [media EXCEPT !.change = "none", !.committed = media.selected]
    /\ UNCHANGED <<session, requests, sockets, server, offer, replies, settings>>

Next ==
    \/ Connect \/ Disconnect \/ TicketTimeout
    \/ \E owner \in Owners : TicketIssued(owner) \/ TicketFailed(owner)
    \/ \E rtc \in BOOLEAN : Joined(rtc)
    \/ Dropped \/ Ended \/ Closed
    \/ Granted \/ LateGranted \/ LateEnds \/ Refused \/ Commit \/ Listed \/ Overtaken
    \/ Offered \/ RtcFails \/ GatewayAnswers \/ GatewayRefuses
    \/ AnswerApplied \/ AnswerRejected \/ ErrorReceived
    \/ OpenSettings \/ CloseSettings \/ StartTest \/ TestRecords \/ TestEnds
    \/ \E device \in Devices : SetInputDevice(device)
    \/ ChangeListed

Spec == Init /\ [][Next]_vars

-----------------------------------------------------------------------------
(* Properties. *)

\* Nothing is asked, listed, negotiated or answered any more.
Settled ==
    /\ media.asking = None
    /\ media.start = "none"
    /\ replies = <<>>
    /\ offer # None => offer.answered
    /\ media.rtc # None =>
           \/ media.rtc.step = "left"
           \/ media.rtc.step = "offered" /\ media.rtc.remote = "own"

\* Every variable has its type; a shared promise and a test wait for a microphone
\* that somebody asks for, and only an attempt with a microphone has an offer.
TypeOK ==
    /\ session \in Sessions
    /\ requests \subseteq Owners
    /\ sockets \subseteq Owners
    /\ server \in {"none", "joining", "live", "retrying", "over"}
    /\ offer \in Offer \cup {None}
    /\ replies \in Seq(Reply) /\ Len(replies) <= MaxReplies
    /\ media \in Media
    /\ settings \in BOOLEAN
    /\ media.start = "asking" <=> media.asking # None /\ media.asking.by = "start"
    /\ media.test = "preparing" => media.asking # None \/ media.mic # None
    /\ Active(media) => media.mic # None

\* Nothing outlives its session. However a session ends - by the user, a new
\* connect, a drop, a kick, a closed socket - in the middle of whatever it waits
\* for, no answer that comes late gives the page a microphone, a peer or a socket
\* it does not own; no stream stays open but that of the microphone, of the request
\* under way, or of an aborted request that is about to stop it; and a tab that says
\* it connects has something under way.
NothingLeftBehind ==
    /\ session # "connected" => media.rtc = None /\ offer = None
    /\ session # "connected" /\ ~settings =>
           media.mic = None /\ media.asking = None /\ media.test = "none"
    /\ "kept" \in media.open => media.mic # None
    /\ "asked" \in media.open => media.asking # None /\ media.asking.granted
    /\ "late" \in media.open => media.late
    /\ "past" \notin sockets
    /\ session \in {"connecting", "connected", "reconnecting"} =>
           "current" \in requests \cup sockets

\* A connected session that has settled is heard, or says why not: over WebRTC with
\* the graph of the live microphone, PCM stopped and the gateway holding the peer of
\* this very attempt; or over PCM, the gateway holding no peer (it drops the PCM of
\* a session that has one). Left out is an attempt a change of device did not see.
UplinkAgrees ==
    session = "connected" /\ Settled /\ media.error = "none" =>
        IF Active(media)
        THEN \/ media.rtc.unseen
             \/ media.rtc.input /\ ~media.mic.pcm /\ offer # None /\ offer.own
        ELSE media.mic # None /\ media.mic.pcm /\ offer = None

\* The comment in refreshAudioDevices(): a replacement input must also restart
\* WebRTC. Whatever attempt has settled is fed by the microphone there is.
ReplacementRestartsRtc == Settled /\ Active(media) => media.rtc.input

\* The device shown as chosen is the one heard, and the one a failed change falls
\* back to: after changes, refusals and fallbacks in any order. Left out are a
\* device chosen while the first microphone was awaited, and one a fallback to PCM
\* took over from its change and failed to get.
DeviceTruthful ==
    media.mic # None /\ media.asking = None /\ media.change = "none" =>
        \/ media.mic.overtaken
        \/ media.error = "fallback"
        \/ media.selected = media.committed /\ media.mic.device = media.committed
=============================================================================
