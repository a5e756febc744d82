# WebSpeak for TeamSpeak: a verification development

WebSpeak lets a browser take part in a TeamSpeak server's voice channels. A
gateway (`src/src/server`) holds one WebSocket per browser, signs in to
TeamSpeak on its behalf, carries the voice over WebRTC or PCM frames, projects
the server's directory and shares screens. This directory holds TLA+ models of
the gateway's control, the TLC configurations that check them on small
instances, and proofs, checked by TLAPS, for instances of any size.

Paths below are relative to the repository's root (`src/` here).

## Inventory

One Node process runs everything; handlers run to their first `await` without
interruption, so all concurrency is between the stretches of code separated by
awaits, timers and events. Per browser session `VoiceBridge` composes:

```
browser --WebSocket--> VoiceBridge.entries[id] --> SessionManager   (slots, teardown)
                          |                   --> IdentityLeaseStore (one identity, one session)
                          |--TSClient --> adapter --> SDK wrapper --> TeamSpeak
                          |     (UDP directly, or through the acceleration relay)
                          |--SessionEvents --> DirectorySync, MemberAvatars --> browser
                          |--WebRtcAudioSession | PcmTransport  <--> SessionAudio (mixing, statistics)
                          `--ScreenShareCoordinator (shared by all sessions of a server)
```

| component | state | operations | what is hard | correct when |
|---|---|---|---|---|
| Session lifecycle: `voice-bridge.ts`, `session-manager.ts`, `connection-state-machine.ts`, `reconnect-policy.ts` | `entries`, `sessions`, `accepting`; per session the connection state, `tsReady`, `initialStateSent`, `hasConnectedOnce`, reconnect timer and window, heartbeat counters | admit, connect, publish, drop, kick, retry, heartbeat, tear down, shut down | a drop, kick or close between any two steps of an unsettled `connect()`; memoised asynchronous teardown | no session waits for nothing; the command gate is never open on a stale connection; the browser is told the truth; slots are exact; recoveries and teardowns end |
| Identity leases: `identity-lease.ts` | `owners` | acquire, release | released only after awaits | one remembered identity is on a server once |
| TeamSpeak client: `ts-client.ts`, `teamspeak-adapter.ts`, `teamspeak-sdk.ts` | `connected`, `inputState`, `syncedInputMuted`, two promise queues, endpoint cache | connect, disconnect, updateInputState, switchChannel, protocol commands, avatars | a teardown while `connect()` prepares; acknowledgements that are lost; queues that outlive a connection | no client survives its session; what is believed of the server is true |
| WebRTC negotiation: `handleWebRtcOffer`, `stopWebRtc` | `webrtc`, `webrtcGeneration`, the suspended handlers | offer, stop, answer, fail | six awaits in one handler, overtaken by other offers, stops, drops | one peer, owned; answers match; everything is closed |
| Browser commands: `voice-commands.ts` | (none of its own) | mute, accompaniment, channel, chat, poke, away, whisper | effects applied after an acknowledgement | the last request wins |
| WebRTC audio: `webrtc-audio.ts`, `session-audio.ts`, `audio-stats.ts` | mixer queues, RTP counters, PCM token bucket | enqueue, pace, close | late ticks, wrap-around, full queues | bounded queues, monotone RTP time, tokens within the burst |
| Directory: `directory-sync.ts`, `session-events.ts`, `directory-view.ts`, `channel-capacity.ts` | members, tombstones, pending deltas, whisper targets | snapshot, enter, move, leave, list refresh | late lists, id reuse, clients that vanish without an event, deltas before the first snapshot | the members shown are the live view; a whisper reaches who was chosen |
| Avatars: `member-avatars.ts` | cache, batch generation | refresh | downloads that outlive the directory | an avatar is shown with its own member |
| Screen sharing: `screen-share-coordinator.ts` | streams, viewers, native publications, discovery passes | start, stop, watch, leave, signal, move, discover, clean up | one registry written by every session, each handling TeamSpeak's notices in its own order; cleanups refused and repeated | nobody watches across channels; registry, TeamSpeak and browsers agree on streams and viewers |
| Browser screen sharing: `web/src/voice/screen-share.ts` | capture, pending and active share, watched stream, peers | start, stop, join, leave, negotiate | answers that cross stops, errors and reconnects | the screen is captured only for a share others can watch |
| Tickets and limits: `join-ticket.ts`, `join-rate-limit.ts`, `voice-gateway-auth.ts` | bounded maps with expiry | issue, consume, count, remember a nonce | eviction at the limit against single use | a ticket and a nonce are used once |
| Acceleration relay: `acceleration-relay.ts` | client tunnel; server session table | open, data, close, sweep | UDP loss; an awaited address lookup | every socket is closed in the end |
| Login limit: `admin/login-rate-limit.ts` | attempts with reservations | reserve, settle | window expiry during a password check | a check in flight counts |
| Browser voice: `useVoiceWebSocket.ts`, `voice/connection.ts`, `webrtc-transport.ts`, `microphone-capture.ts`, `microphone-test.ts` | ticket request, socket, microphone requests, WebRTC attempt, chosen and committed device | connect, acquire, offer, apply answer, fall back, change device, test | one microphone asked for by five callers; replies without an offer id | nothing outlives its session; a connected tab is heard or says why not |
| Plugin runtime: `plugins/runtime.ts` | applications, per-plugin queue | open, revoke, restart | operations queued behind a slow one | a revoked plugin does not run |
| Delegated gateway, HTTP server, probes, wire parsing, administration console, persistence, secrets, skins, user interface, mobile shells | see PROJECT.json | | I/O, stateless checks, synchronous transactions, layout | not modelled, reasons in PROJECT.json |

PROJECT.json lists the same components with their status, and under "hazards"
every place of this code that is hard to test, at its line, with the
properties that cover it or a note.

## What is modelled

| module | models |
|---|---|
| `VoiceSession` | admission, leases, the TeamSpeak connection, recovery, heartbeat and teardown of all sessions |
| `SessionContract` | the abstract promise about sessions, slots and identities that `VoiceSession` implements |
| `VoiceMedia` | the WebRTC offers of one session and the microphone state its TeamSpeak client shows |
| `ScreenShare` | the registry of shares, cards and viewers that all sessions of a server write, and TeamSpeak's streams behind it |
| `ScreenPeers` | the controllers of the browsers and the gateway's handler, with the messages that cross between them |
| `TsDirectory` | what one session knows of the server: members, its own channel, whisper targets, avatars |
| `BrowserVoice` | the audio of one tab: ticket, socket, microphone, WebRTC attempt, devices, settings, test |
| `MC...` | the instances TLC checks |
| `VoiceSession_proofs` | the inductive invariant of `VoiceSession`, twelve theorems and their lemmas |
| `VoiceMedia_proofs` | the inductive invariant of `VoiceMedia`, five theorems and their lemmas |
| `VoiceMediaInput_proofs` | what the queue of updates of `VoiceMedia` leads to, three theorems and their lemmas |
| `ScreenShare_proofs` | the inductive invariant of `ScreenShare`, five theorems and their lemmas |
| `ScreenShareSettled_proofs` | what `ScreenShare` comes to once everything is handled, three theorems and their lemmas |
| `BrowserVoice_proofs` | the inductive invariants of `BrowserVoice`, six theorems and their lemmas |
| `TsDirectory_proofs` | the inductive invariants of `TsDirectory`, five theorems and their lemmas |
| `ScreenPeers_proofs` | the inductive invariant of `ScreenPeers`, three theorems and their lemmas |

### VoiceSession

An action is one uninterrupted stretch of the event loop. The record
`session[s]` is what the gateway and TeamSpeak hold of one browser:

| field | code |
|---|---|
| `stage` | registered in `SessionManager.sessions` and `VoiceBridge.entries` ("live"); awaiting `stopWebRtc` ("stopping") or `tsClient.disconnect()` ("leaving") in `cleanupEntry` |
| `conn` | `ConnectionStateMachine.current`; `Transition` ignores what `ALLOWED_TRANSITIONS` lacks, as `transition()` does |
| `sock`, `silent` | the WebSocket; `isAlive` and `missedHeartbeats` as the pings since the last pong |
| `ready`, `directory`, `published`, `ever` | `tsReady`, `events.ready`, `initialStateSent`, `hasConnectedOnce` |
| `timer`, `window` | `reconnectTimer`; `reconnectStartedAt` with whether the recovery window that starts there has run out |
| `told` | the last lifecycle message sent to the browser |
| `call` | how far the outstanding `TSClient.connect()` has got |
| `link` | the client the TeamSpeak server has for this session |

The operators `Teardown`, `SendInitialState`, `FailConnect`, `FailReconnect`,
`ScheduleReconnect`, `OnDisconnect`, `OnKick`, `ConnectFulfilled` and
`ConnectRejected` are the closures of the connection handler of the same names,
as functions from a record to a record. The actions are the events that call
them: a browser arrives (`Admit`, `EncoderUnavailable`), `connect()` advances
(`PrepareDone`, `HandshakeAccepted`, `ViewRead`, `ConnectFulfils`,
`ConnectRejects`), TeamSpeak acts (`ViewChanged`, `TransportLost`, `Kicked`),
timers (`ReconnectTimerFires`, `ReconnectWindowExpires`, `Heartbeat`), the
browser (`Pong`, `BrowserCloses`), operators (`Terminated`, `Shutdown`), and
the awaited parts of teardown (`MediaStopped`, `Removed`).

What the model takes as given, and why:

- Two `connect()` calls of a session do not overlap: a retry waits at least
  900 ms, and a call whose SDK client is gone settles before that. TSClient's
  own handling of overlapping calls is not modelled.
- `disconnect()` aborts a handshake in progress, but finds nothing to abort
  while `connect()` prepares a relay tunnel or resolves an alias: no SDK client
  exists. `Prepared` is the set of sessions for which that wait exists.
- The handshake lasts until the SDK's view is ready; a view stays live as long
  as its transport is up.
- Refused admissions give back what they took before any other event is handled
  and are not steps.
- Messages that publish server information after the directory, plugin
  participants and traffic statistics do not influence the session's state.

### VoiceMedia

One session, several offer handlers (`Offers`). `latest` stands for
`webrtcGeneration` (the offer whose generation it is, `None` after a stop),
`webrtc` is `entry.webrtc`, `peer[o]` the `WebRtcAudioSession` handler `o`
created, with the mute and accompaniment state of its mixer. `offer[o].phase`
is the await `handleWebRtcOffer` is suspended in:

| phase | await |
|---|---|
| closing | the `stopWebRtc` with which the handler begins: the former peer's close and the reset of accompaniment |
| muting, accompanying | the two `updateInputState` calls |
| resolving | the addresses of the media endpoint |
| answering | `createAnswer` |
| discarding, failing | the close of a superseded peer; of one whose negotiation failed |
| restoring | the reset of accompaniment before the error is reported |

`queue` is `inputStateQueue`, with the continuation each update has; `input`,
`synced`, `server` are `inputState`, `syncedInputMuted` and what the TeamSpeak
server has. `asked`, `crossed` and `failed` are history: what the browser asked
for last on this connection, whether it gave a command during a negotiation, and
whether an update failed. A continuation that needs no I/O runs before the next
event: events carry the guard `Drained`.

Simplified: an update refused for flooding is retried inside one step; WebRTC
switched off by the administrator at run time, the interval between a closing
WebSocket and its close event, and peer statistics are left out. The session
itself appears as `link`; its drops, recoveries and teardown are those of
`VoiceSession`.

### ScreenShare

`streams` is `screenStreams`, a browser's share under its owner (there is at most
one) and a native card under its TeamSpeak id; a record keeps `viewerEntryIds`,
`teamSpeakStreamId` (`link`) and `nativeViewerClids`. `viewing` is what each
browser was told it watches, `scan` the running discovery pass and the pending
entry, `retry` the cleanup commands that `sendProtocolCommand` holds back.
`inbox[b]` holds what TeamSpeak has sent to session `b` and `b` has not handled;
each session's inbox is in order, and the sessions lag behind each other at will.
That is where the difficulty lies: one registry, written by every session after
its own view of the past. An action is a request of a browser (`Start`, `Stop`,
`Join`, `Leave`, `Evict`), the handling of the first message of an inbox
(`OwnStarted`, `CardStarted`, `StoppedNotice`, `AtNotice`, `JoinAskedNotice`,
`ClientLeftNotice`, and the continuations `JoinRefusedAnswer`, `RemovedAnswer`),
a change of a session (`Connect`, `Detach`, `BrowserMove`), a repeated cleanup
(`Resend`), a step of discovery (`ScanAsk`, `ScanBreak`) or an event of the
TeamSpeak server, which is external (`Publish`, `EndStream`, `NativeMove`,
`Watch`, `Unwatch`).

Taken as given: TeamSpeak executes a command when it is sent or refuses it; only
the publisher is told that a viewer left; a native source that moves loses its
audience. A refusal is for flooding (and then repeated) or without effect. A
native client has one live stream. `missed` is history: for each stream, what the
gateway could not learn or clean up by any means it has (its end while nobody was
connected, a cleanup that is held back or was given up), and what a late notice
made it do to a stream that it was not about (`"moved"`: a card retired because of a
move its source has taken back; `"crossed"`: a viewer removed from the publication
after the one it was removed from). The properties about
agreement with TeamSpeak hold up to it.

### ScreenPeers

`ui[b]` is the controller of browser `b` (`screenShareStarting`, the pending and
active share, the watched one, `screenSharePeers`), `up` and `down` the messages on
their way; `shares` and `watchers` are the registry as far as requests need it. The
user's actions, the handlers of `handleMessage` at both ends and the loss of either
connection are the actions. A negotiation is abstracted to what each end is told;
every resumption inside one first checks `isCurrentPeer`. `stray` is history: the
memberships and starts that the code gives up without telling the other side,
described under "Seen while modelling".

### TsDirectory

`view` is the SDK's live view, `known` the `DirectorySynchronizer` with the
session's own id and channel and the whisper targets, `told` what the browser was
last sent of them; `avatars` is `MemberAvatarLoader` and its cache, `late` the
downloads that a reset left behind. `phase` follows `TSClient.connect()`; `moves` is
`channelSwitchQueue`, `preferred` the channel that a reconnect restores. A packet
changes the view and emits its event in one step (`ClientEnters`, `ClientLeaves`,
`ClientMoves`, `MovedByOther`, `ClientUpdated`); the snapshot of a changed view
follows any time later (`Snapshot`), and a client that goes out of view for another
reason has no event at all (`ClientVanishes`). `Refresh` is `refresh()` with the
pruning of targets. Simplified: a list refresh is atomic, since a list that a
reconnect overtook is discarded by its generation; a dead `connect()` settles
before the next begins.

Every move of the session's own client is `OwnMove`: the view changes and the
listener of `clientMoved` sets `preferred` before any acknowledgement. A switch is
therefore two steps, `SwitchExecuted` and `SwitchAcknowledged`, whose assignment
comes after the awaited acknowledgement; a switch may also be refused, or its
acknowledgement may find another connection (`SwitchRefused`). The move back after
a reconnect has the same parts (`RestoreExecuted`, `RestoreAcknowledged`,
`RestoreRefused`); `target` is the channel it was called with, which others' moves
in that wait do not change. `executed` says that the first switch of `moves` waits
for its acknowledgement, and `crossed` is history: somebody moved the client
elsewhere in that wait.

### BrowserVoice

`media` is what `useVoiceWebSocket()` owns of the browser's audio: the current WebRTC
attempt (`rtc`), the shared promise of `ensureMicrophone` (`start`), the one request
that is not aborted (`asking`), the committed graph (`mic`), the device shown and
the one to fall back to (`selected`, `committed`), the running
`reconfigureMicrophone` (`change`) and the microphone test. `requests` and `sockets`
are those of `createVoiceConnection`, each of the current attempt or of a past one;
`offer` and `replies` are what `handleWebRtcOffer` of the gateway holds and has sent,
where a reply may concern an earlier attempt (`VoiceMedia` has that handler in
detail). An aborted `startMicrophone()` cannot recall its `getUserMedia()`: `late`
says that one still waits, `open` which streams are live, and `LateGranted` and
`LateEnds` are its answer and its end, which stops the stream (`LateReleased`). The state of the session follows the gateway's messages (`Joined`,
`Dropped`, `Ended`, `Closed`).

## What the runs check

| run | instance | shows |
|---|---|---|
| `voice_session` | 4 browsers, 2 slots, two of them with the same remembered identity, 2 missed heartbeats; no awaited preparation | types; no session waits for nothing; the command gate; what the browser is told; leases exact; slots respected; one identity on the server once; the recovery window is not restarted; a teardown is final |
| `voice_session_fair` | 2 browsers with distinct identities, one behind a relay | recoveries, teardowns and silent browsers come to an end; a TeamSpeak client outlives its session only through an awaited preparation; the gateway implements `SessionContract` |
| `voice_session_relay` | 2 browsers with one identity, both behind a relay | finding 1 (a violation) |
| `voice_media` | 2 overlapping offers, all mute and accompaniment values, commands while fewer than 2 updates wait | types; no orphaned or doubly owned peer; answers match the peer; belief about the server is true; accompaniment agrees; the last request holds |
| `voice_media_fair` | the same, values all false | every offer is dealt with; a session that is left closes all peers |
| `voice_media_mute` | as `voice_media` | finding 2 (a violation) |
| `screen_share` | a browser that shares, another browser, a native viewer, 2 channels, 2 stream ids, 3 unhandled messages, 1 cleanup held back | types; nobody watches across channels; browser and registry agree on who watches; publications at TeamSpeak are exactly those of the shares; native viewers agree |
| `screen_share_native` | a native user that shares, moves, leaves and returns, 2 browsers that come, go and watch; 1 stream id, 2 unhandled messages | a late refusal undoes no newer request; the cards are the live streams, those that began before anyone was connected included |
| `ts_directory` | the session's id and another, 2 identities behind them, 2 channels, a queue of 3 deltas, 1 switch waiting | types; the members shown are the live view; the channel kept for a reconnect; whispers; avatars |
| `browser_voice` | 2 input devices, 3 replies on their way | types; nothing outlives its session; a settled connected tab is heard or says why not; the device shown is the one heard |
| `browser_voice_mute` | the same | finding 3 (a violation) |
| `screen_peers` | 2 browsers, one of which shares, a native share, 2 request ids, 2 messages on their way | captures, shares and views of browsers agree with the gateway's registry |

Bounds. Sessions interact only through slots and leases: two that contend for a
key and two keyless ones, of which any three want two slots, meet every
combination (with one keyless browser the lease alone would keep the slots from
filling up), and an entry id is reused once nothing is left of its session, so runs are
unbounded in length. `MaxMissed = 2` has a ping answered, one missed and the last
one. A third overlapping offer would relate to the second as the second to
the first: only the newest is current, and offers are reused as soon as their
peer is closed. `MaxPending = 2` bounds only when a browser's message arrives:
the continuations of handlers append beyond it. The runs that check liveness
are smaller because TLC explores the graph of a temporal formula, and because
the values of mute and accompaniment do not influence progress.
`ScreenShare` is checked in two instances, one for browser shares and one for
native ones, since they share code but few races; an id is given out again once
nothing refers to it, so two ids already have a publication and its successor
at once. `MaxInbox` bounds when something new happens, never the messages that
follow from it; with 3, one session is late by a setup, a stop and one more.
`Queried` bounds whose discovery is followed. In `TsDirectory` two ids are
reused by two identities any number of times; a queue of 3 (4096 in the code)
makes overflow happen, and 4 has been checked as well (4.8 million states). In
`ScreenPeers` `MaxWire` limits users and faults, not replies; 3 has been checked
as well (5 million states). `BrowserVoice` needs no bound but `MaxReplies`.

`CHECK_DEADLOCK FALSE` for `VoiceSession` and `VoiceMedia`: after a shutdown and the
last teardown, and after a session has been left, the modelled system does stop;
for `ScreenShare` and `ScreenPeers`, whose bounds may stop it. The others are
checked for deadlock.

Symmetry is used in safety runs only: over sessions with the same key, offers,
channels, stream ids, browsers and devices that the instance does not tell apart.

Fairness. `VoiceSession`: the heartbeat interval ticks, timers fire, the phases
of `connect()` end (the SDK's deadlines and the 15 s abort signal), teardown's
awaits end. Nothing is assumed of browsers, administrators, drops or kicks, and
`ConnectSettles` may always choose rejection. `VoiceMedia`: promise
continuations are weakly fair; what is awaited (acknowledgements, DNS with a
deadline, SDP, closes) settles under strong fairness, because the guard
`Drained` goes up and down while other events keep arriving and an I/O
completion is not lost by that.

## What is proved

`VoiceSession_proofs` holds for any finite set of sessions, any keys, any
assignment of keys, any slot and heartbeat limit, from the named assumptions of
`VoiceSession` only (`SessionsAssumption`, `KeysAssumption`,
`PreparedAssumption`, `LimitsAssumption`).

The safety invariants are not inductive: that a session never waits for nothing
depends on `call`, `timer` and `link` moving together with `conn`. The inductive
invariant `IInv` says that the record of a session has one of five shapes: it is
*attempting* (authenticating, an unsettled `connect()`, nothing published, no
timer), *talking* (everything true and a live link), *waiting* (reconnecting, an
armed timer, link down), *departing* or *gone*; in each, `CallMatchesLink` ties
the outstanding call to the TeamSpeak client. With it go `LeaseMatchesSession`,
`CapacityRespected` and, for sessions without preparation, `DirectInv`: from
"leaving" on no call can bring a client up. There is a lemma for each handler
that says which shape it takes to which, one step per action in
`SessionStepInv`, and the invariance theorem.

From `IInv` follow `TypeCorrect`, `Unparked`, `GateCorrect`, `Informed`,
`LeasesExact`, `CapacityHeld`, `NoDirectOrphans` and `IdentitySafe`. The last is
stated for `Prepared = {}`: with a preparation it is false (finding 1). The
action properties `OneWindow` and `OneWay` rest on the lemma that every handler
*respects* stage, window and `told` (`Respects`). `Refinement` proves that
`VoiceSession` implements `SessionContract`: initial states map to initial
states, and each step to a join, an establishment, an interruption, a departure
of any number of sessions, the closing, an end, or a stutter.

`VoiceMedia_proofs` holds for any number of overlapping offers and any bound
`MaxPending`, from `OffersAssumption` and `ValuesAssumption`. `PeerOwned` alone is
not inductive: that the handler which comes back from resolving addresses does
not overwrite an open peer follows only because no peer is open while the newest
offer is still preparing, and that in turn needs the queue: an update of an
offer handler is in the queue once at most, and only while its handler waits for
it. `IInv` is the type invariant, `PeerInv` (webrtc, latest, answered and the
phases agree), `Orderly` (queue and phases agree) and `BeliefInv`
(`syncedInputMuted`, unless unknown, follows from `inputState` and is what the
server has). The lemmas on queues say what appending, settling and cutting off
do to `Orderly`; one lemma per action carries `IInv` over, and `PeersOwned`,
`AnswersMatch` and `BeliefTrue` follow from it.

`VoiceMediaInput_proofs` goes on from that `IInv`. `AccompanimentAgrees` and
`LastRequestHonoured` speak of a state in which the queue is empty; the invariant
has to say what the queue leads to while it is not. `Ends(queue, kind, now, v)` says
that the last queued update of a kind sets v, or that there is none and v holds
already. `OrderInv` says what may wait behind the update of the newest offer and
behind its peer, `AccompanimentInv` that without a peer the queue ends the
accompaniment unless the newest offer is about to set it, `RequestInv` that
TeamSpeak's mute state and the peer's state both end in what the browser asked for
last and that the offer under way wants just that. Together with `IInv` they are
inductive (`QueueLeadsThere`); the three lemmas `EndsEmpty`, `EndsAppend` and
`EndsTail` are all that is said about sequences. `failed` and `crossed` weaken the
two last parts exactly as they weaken the properties.

`ScreenShare_proofs` holds for any sets of sessions, native users, channels and
watched clients and any finite set of stream ids, and whatever `MaxInbox` and
`MaxRetry` are: no step of the proof looks at a bound. It assumes
`ClientsAssumption`, `NoneAssumption`, `StreamAssumption` (None is not a stream)
and `IdsAssumption` (finitely many ids, so that the streams that end together can
be told in some order). `IInv` is `TypeOK`, `Located` (a connected session is in a
channel) and the three properties themselves, which need each other:
`stopScreenStream` tells the channel of the stream, so `Told` survives it only
because, by `ChannelIsolation`, no viewer is in another channel. The type invariant
is part of it because a handler trusts its notice: that the announcement of a
stream names an id and a client, and that ids are not browsers, keeps a card from
replacing a share. The lemmas say what a retirement, an announcement and a refused
command do to registry, inboxes and server (`RetireInv`, `TellInv`, `SendInv`,
`AlteredInv`), and there is one lemma per action or group of like actions. From
`IInv` follow `TypeCorrect`, `Isolated`, `ToldTrue` and `RequestsKept`.

`BrowserVoice_proofs` holds for any devices and any number of replies in transit,
from `DevicesAssumption` and `NoneAssumption` (None is not one of the records that
stand for an attempt, an offer, a microphone or a question). `IInv` says which of
tab, ticket, socket and gateway session go together (`ConnectionInv`), who may be
asking for a microphone and who waits for the answer (`MicrophoneInv`), when the
device shown, heard and committed may differ (`DeviceInv`), whom the microphone
feeds (`AttemptInv`), what a page without a session owns (`SessionInv`), and that an
attempt's own offer has one reply, waiting or applied, and meets the gateway's peer
(`NegotiationInv`). The last is what `UplinkAgrees` rests on: replies carry no
offer id, so that the proof has to tell the attempt's own replies from those of
abandoned attempts. There is a lemma for each operator that changes the page's
audio and one per action; from `IInv` follow `TypeCorrect`, `UplinkAgreement` and
`DeviceTruth`. `StreamInv`, inductive beside it (`StreamsOwned`), says whose each live
stream is, and the two together give `LeavesNothingBehind`.

`TsDirectory_proofs` holds for any ids, identities and channels and whatever
`MaxPending` and `MaxMoves` are, from `ClientsAssumption` (the followed avatars are
those of finitely many identities, so that a batch is a sequence) and
`NoneAssumption`. `RosterInv` carries it. A snapshot is stronger than what is known,
except for tombstones, so what has to hold is that no tombstone hides a client in
view: before the first snapshot the queue, unless a delta was dropped, has an `enter`
for each client in view and no later `leave` (`Announced`), and from then on no client
in view has a tombstone. Who is behind an id agrees with the view even while a
snapshot is due, which is what keeps a whisper target its identity. The first snapshot
folds the queue over the view; since induction over a sequence is out of the
prover's reach, `FoldKeeps` is proved from well-foundedness instead: of the parts of
the queue for which the invariant of the fold would fail, one is smallest. There is a
lemma for each operator of `DirectorySynchronizer`, one for any event (`EventStep`),
for any view (`ViewStep`) and for a session that goes live (`GoLiveStep`), and one per
action. `OwnInv` is added for the session's own channel: when the kept channel may
differ from the one the client is in, and that a switch executed and not crossed
leaves the client where it asked to be. From both follow `TypeCorrect`,
`DirectoryTruth`, `WhisperTruth` and `AvatarTruth`.

`ScreenPeers_proofs` holds for any finite sets of browsers, native shares and request
ids and whatever `MaxWire` is, from `NativesAssumption`, `FiniteAssumption` (what a
removal sends is one message after the other, a fold over a set) and `NoneAssumption`.
Both properties speak of a browser whose messages have all arrived, so `IInv` has to
say what holds while they have not: each thing one end knows is true at the other, or
a message on its way corrects it, or the browser is about to start afresh (`reset`).
Queues are described without positions: `Msgs` is what is on the way, `Follow` what
stands behind a message, `Once` that something is on its way at most once. `GatewayInv`
says that the gateway keeps shares and viewers of connected browsers only, and has told
nobody the end of a share that lasts; `StartInv`, `ShareInv`, `PendingInv`, `ViewInv` and
`PeerInv` say it of a start, a share, a request, a view and a peer of one browser. Every
action is then either a step of a browser that takes one message and sends some
(`BrowserStep`) or one of the gateway that sends each browser some (`GatewayStep`); five
lemmas say what each form keeps, the folds are handled by a smallest subset for which
they would fail, and there is one lemma per action or handler. `SharesTruth` and
`ViewersTruth` follow, as nothing is left on the way to excuse a difference.

`ScreenShareSettled_proofs` is about `ScreenShare` once every inbox is empty, and so
about what is true while they are not. `Published` carries it: a publication of a
browser is linked to the browser's share, or its announcement is on the way to its
owner with nothing behind it that ends it, or a stop for it is held back and will be
repeated (`Held`); a share's link is a live publication unless its end is on the way
to the owner or was lost (`RefTrue`). An action is described once, by `Step`: which
inboxes lose their head (`heads`), which sessions lose everything (`lost`), what each
inbox gets (`new`) and which continuations go out of date (`out`). Positions in a queue
are dealt with in a few lemmas (`Passed`, `Comes`, `Stays`); one lemma then says that
any `Step` keeps `Published`, and one per action that it is a `Step`.

`Shown` does the same for native users and their cards. What a session knows of a
user, corrected by the moves it has not handled, is where the user is (`Settles`); a
card that is in another channel is doomed by a move that a connected session is still
to handle (`DoomedBy`), a move in a queue has the new announcement behind it unless it
was missed (`MoveFollowed`), and a stream without a card is about to be announced or
is still asked for by discovery (`Found`). `Turn` says of an action what `Step` leaves
out: what the sessions learn, which cards change, what discovery is still to ask.
That discovery's next pass asks for everybody its session knows (`PassesSeek`) is what
makes a lost session harmless as long as another one is connected.

`Seated` compares the viewers the registry has with the audience at TeamSpeak. A native
viewer whom the owner counts is in the audience, or a `clientLeft` about them is still
in the owner's queue (`NativesTrue`); a member of the audience is counted, or the
request for them is in the queue of the owner, who is linked by then (`NativesKnown`,
`Seen`), and in either case nothing that would remove them stands behind it (`After`).
The requests themselves name members or people whose leaving follows (`AskedTrue`). A
browser that watches a card is a member, or its refusal is on the way, or the card is
doomed (`ViewersTrue`), and a member watches (`ViewersKnown`); so `Seated` needs
`Published` for the owner of an id and `Shown` for the fate of a card. Where flood control, a
continuation for an older publication or a late notice of a move has come between,
`Marked` or `"flooded"` excuses it, and the marks stay as long as the id (`MarkStays`).
`Seats` says of an action what `Step` and `Turn` leave out: audiences, counts, viewers
and marks. Whichever way an action's queues are described, what it adds to them is the
same (`NewUnique`), so that the lemmas for `Step` and for `Seats` are independent.
`PublicationsSettle`, `CardsSettle` and `AudienceSettles` read the three properties off
`Published`, `Shown` and `Seated` once every queue is empty.

Only model-checked: the liveness properties, which are out of the prover's reach. Every
other property of a passing run is a theorem.

## Findings

1. `voice_session_relay`: `TSClient.disconnect()` during the wait for a relay tunnel
   (`src/server/ts-client.ts:171`) or a DNS alias (`teamspeak-sdk.ts:132`) cancels
   nothing. `connect()` resumes, builds an SDK client and joins TeamSpeak for a
   session that no longer exists; as its lease is released, the same identity
   may be there twice, against `identity-lease.ts:1-4`.
2. `voice_media_mute`: an offer's mute state is read before several awaits and the
   peer is created with it after them (`voice-bridge.ts:865`, `:888`). A mute
   command between finds no peer; the mixer stays unmuted, against the comment at
   `webrtc-audio.ts:180`.

3. `browser_voice_mute`: whether WebRTC must be restarted with a new device is read
   before the device is awaited (`web/src/composables/useVoiceWebSocket.ts:827`, `:830`). An attempt begun
   in between keeps the input of the former microphone, which is disposed: the
   peer stays up, PCM stays suppressed, and nobody hears the user, against the
   comment at `:619`.

### Seen while modelling

Races the models exhibit and whose outcome no sentence of the repository rules
out, or which the properties except by name. In `screen-share-coordinator.ts`:

- A discovery whose session drops in mid-pass is abandoned; the entry whose own
  request it had replaced is left without one, though the comment at `:197` has a
  rescan on each connection.
- A session that lags behind links a share to a publication that has ended; if it
  drops before it handles the stop, the share keeps the dead link
  (`PublicationsAccounted` excepts `"end"`).
- The late answer to a `removeclientfromstream` for an earlier publication removes
  the same viewer of a later one (`:439`).
- A session with an older directory stops a good card, and its viewers with it
  (`:745-763`); a source that moved away and back has its card stopped while its
  viewers are still members at TeamSpeak (`:611-613`).
- A leave that flood control holds back is repeated after the same browser joined
  again, and ends the newer membership (`ts-client.ts:571`).
- With several sessions behind, a share that is stopped and started again may lose
  its new publication to the stop meant for the old one (`:717`).
- A card whose source left while no session was connected stays until its stream
  id or source is heard of again. `:588` reads "Rediscover on the next connection
  instead of retaining stale cards"; the code before it asks whether another entry
  is left, connected or not.

In the browser (`web/src/voice/screen-share.ts`):

- A join answered while another stream is watched replaces it without a leave: the
  gateway goes on counting the viewer (`:842`). So does a native source's decline,
  which ends the view only locally (`:574`).
- A start sent while the session is not connected is refused with an error that the
  controller does not read; the screen stays captured until the user stops it
  (`voice-bridge.ts:599`).
- Stopping a share, leaving a view or starting one closes all peers (`:289`), so who
  shares and watches at once breaks the other; any `screenShareError` ends a start
  and a view, whichever it was about (`:876`).

In `ts-client.ts` and the directory:

- The acknowledgement of a channel switch that comes after somebody else's move of
  the client was handled sets the kept channel back to that of the switch
  (`:530-532`): the next reconnect restores the wrong channel (`DirectoryAgrees`
  excepts it by `crossed`).
- A drop during the move back to the preferred channel counts as a refusal: the
  channel is forgotten, and `connected` is set on a dead transport (`:220-234`).
- Beyond 4096 deltas before the first snapshot (`directory-sync.ts:80`) a dropped
  enter leaves a member hidden behind its tombstone (`overflow`).
- A whisper target id taken over before the disappearance of its holder was
  published goes on being whispered to (`session-events.ts:215`).
- An avatar that failed to load once is not asked for again in the session.

In the browser's voice: a device chosen while the first microphone is awaited is
committed although the earlier one is heard (`useVoiceWebSocket.ts:712`), and an
answer for an abandoned attempt is applied to the next (`webrtc-transport.ts:171`),
which then fails and falls back to PCM.

## Not modelled

- Vue views, translations, skins, layout editor and administration pages: more than
  half of the repository's lines, with local state only. Administration router,
  database, secrets: forwarding, synchronous transactions and stateless checks.
- Acceleration relay, join tickets and rate limits, mixer queues and PCM budget,
  login limit, plugin runtime: components with state of their own, each small and
  nearly independent of the others. What is at stake there is listed under "hazards"
  in PROJECT.json; one is visible without a model: `openRelaySession` that comes
  back from its address lookup after its session was cleaned up opens a socket
  that nothing closes (`acceleration-relay.ts:312`).
- Of the modelled files: chat, pokes, away status, files and server information
  (no state that another part relies on), the output device, accompaniment capture
  and voice activation in the browser, ICE candidates, statistics.

## Plan

Done: `VoiceSession`, `SessionContract`, `VoiceMedia`, `ScreenShare`, `ScreenPeers`,
`TsDirectory`, `BrowserVoice`.

Next, modules: `AccelerationRelay` (handshake over a lossy channel, server session
table), `JoinTicket` (single use under eviction, nonces against clock skew),
`MixerQueue` (token bucket, RTP counters modulo 2^16 and 2^32), `PluginRuntime`.

## Running

```
tlc -workers 2 -config VoiceSession.cfg MCVoiceSession
tlc -workers 2 -config VoiceMedia.cfg MCVoiceMedia
tlc -workers 2 -config ScreenShare.cfg MCScreenShare
tlc -workers 2 -config ScreenPeers.cfg MCScreenPeers
tlc -workers 2 -config TsDirectory.cfg MCTsDirectory
tlc -workers 2 -config BrowserVoice.cfg MCBrowserVoice
tlapm VoiceSession_proofs.tla
tlapm VoiceMedia_proofs.tla
tlapm VoiceMediaInput_proofs.tla
tlapm ScreenShare_proofs.tla
tlapm ScreenShareSettled_proofs.tla
tlapm BrowserVoice_proofs.tla
tlapm TsDirectory_proofs.tla
tlapm ScreenPeers_proofs.tla
```
