----------------------------- MODULE TsDirectory -----------------------------
(***************************************************************************)
(* What one gateway session knows of the TeamSpeak server it is connected  *)
(* to: the merged directory and the members shown to the browser, the      *)
(* session's own channel across reconnects, the whisper targets pruned by  *)
(* each refresh, and the avatars downloaded for the members.               *)
(*                                                                         *)
(* Sources: src/src/server/ts-client.ts, session-events.ts,                *)
(* directory-sync.ts, directory-view.ts, member-avatars.ts,                *)
(* teamspeak-sdk.ts, the whisper commands of voice-commands.ts and the     *)
(* reset and publication of a session in voice-bridge.ts.                  *)
(*                                                                         *)
(* The TeamSpeak server and the SDK's live view are external: each packet  *)
(* changes the view and emits its event at once, the snapshot of a changed *)
(* view follows any time later. A client that goes out of view for another *)
(* reason than leaving has no event. The browser reads what it is sent at  *)
(* once.                                                                   *)
(***************************************************************************)
EXTENDS Naturals, Sequences, FiniteSets, SequencesExt, FiniteSetsExt

CONSTANTS
    Ids,        \* TeamSpeak client ids, used again when a client has left
    Me,         \* the id of the gateway's own client
    People,     \* the identities (uid) behind the ids
    Us,         \* the identity of the gateway's own client
    Pictured,   \* bound: the identities whose avatars are followed
    Channels,
    None,
    MaxPending, \* deltas that DirectorySynchronizer queues before a snapshot
    MaxMoves    \* bound: channel switches that wait for an acknowledgement

ASSUME ClientsAssumption ==
    /\ Me \in Ids /\ Us \in People
    /\ Pictured \subseteq People /\ IsFiniteSet(Pictured)
ASSUME NoneAssumption ==
    None \notin Ids \cup People \cup Channels \cup [who: People, at: Channels]

VARIABLES
    phase,      \* TSClient.connect(): where the connection stands, see Phases
    view,       \* external: the SDK's live view, who is behind each id and where
    dirty,      \* external: the view has changed since the last snapshot
    preferred,  \* TSClient.preferredChannelId
    target,     \* the channel connect() asked to be moved back to, while not moved
    moves,      \* TSClient.channelSwitchQueue: the channels asked for
    executed,   \* external: the server has executed moves[1], not yet acknowledged
    crossed,    \* history: somebody moved the client elsewhere between the execution
                \* of the last switch and its acknowledgement
    known,      \* the session's DirectorySynchronizer, its own place and whisper targets
    told,       \* the whisper targets the browser was last sent
    chosen,     \* history: the identity the browser chose behind each whisper target,
                \* None when the id was taken over before its holder was seen to leave
    avatars,    \* MemberAvatarLoader with its cache
    late,       \* downloads started for a directory that was reset
    asked       \* history: the identities whose download started since the last reset

switching == <<moves, executed, crossed>>
vars == <<phase, view, dirty, preferred, target, switching, known, told, chosen, avatars, late, asked>>

(* down     no connection; the session waits for its reconnect timer
   welcome  the SDK connects and collects the view
   join     connected, waiting for channelsubscribeall
   restore  waiting for the move back to the preferred channel
   dead     the connection went away in that wait
   live     connected and published to the browser *)
Phases == {"down", "welcome", "join", "restore", "dead", "live"}

Entry == [who: People, at: Channels]
Directory == [Ids -> Entry \cup {None}]
Nowhere == [i \in Ids |-> None]

\* The deltas of DirectorySynchronizer that change a member.
Delta == [kind: {"enter", "leave", "moved", "updated"}, id: Ids, entry: Entry \cup {None}]

(* ready, clients, departed, pending
              DirectorySynchronizer: a snapshot arrived, the roster, the
              tombstones of explicit leaves, the deltas before the snapshot
   overflow   history: a delta was dropped because the queue was full
   self, at   SessionEventCoordinator.clientId is known, and its channelId
   targets, whispering
              whisperTargetIds and whisperActive of the session *)
Unknown ==
    [ready |-> FALSE, clients |-> Nowhere, departed |-> {}, pending |-> <<>>,
     overflow |-> FALSE, self |-> FALSE, at |-> None, targets |-> {}, whispering |-> FALSE]

\* timer, batch: the batch timer and the running batch, whose head is being
\* downloaded. cache: what is known of each avatar, an image by its owner.
Loading == [id: Ids, who: People, found: BOOLEAN]
NoAvatars == [timer |-> FALSE, batch |-> <<>>, cache |-> [p \in Pictured |-> "unknown"]]

Connected == phase \in {"welcome", "join", "restore", "live"}
Published == phase = "live"

\* client.channelID() of an SDK client whose view is v.
Here(v) == IF v[Me] = None THEN None ELSE v[Me].at

-----------------------------------------------------------------------------
(* DirectorySynchronizer. k is what the session knows. *)

\* Fault: an enter does not release the tombstone of a reused id.
EnterKeepsTombstone(k, i, entry) == [k EXCEPT !.clients[i] = entry]

Enter(k, i, entry) == [k EXCEPT !.clients[i] = entry, !.departed = @ \ {i}]

Leave(k, i) == [k EXCEPT !.clients[i] = None, !.departed = @ \cup {i}]

\* Fault: a member nobody knows yet is created from its move.
MovedUnknown(k, i, to) ==
    [k EXCEPT !.clients[i] = IF @ = None THEN [at |-> to] ELSE [@ EXCEPT !.at = to]]

Moved(k, i, to) == IF k.clients[i] = None THEN k ELSE [k EXCEPT !.clients[i].at = to]

ApplyDelta(k, d) ==
    LET i == d.id IN
    CASE d.kind = "enter" -> Enter(k, i, d.entry)
      [] d.kind = "leave" -> Leave(k, i)
      [] d.kind = "updated" -> IF i \in k.departed THEN k ELSE [k EXCEPT !.clients[i] = d.entry]
      [] d.kind = "moved" -> Moved(k, i, d.entry.at)

ApplyOrQueue(k, d) ==
    IF k.ready THEN ApplyDelta(k, d)
    ELSE IF Len(k.pending) < MaxPending THEN [k EXCEPT !.pending = Append(@, d)]
    ELSE [k EXCEPT !.overflow = TRUE]

\* A complete view replaces the roster, but for the explicitly departed.
ApplySnapshot(k, v) ==
    FoldLeft(ApplyDelta,
             [k EXCEPT !.ready = TRUE, !.pending = <<>>,
                       !.clients = [i \in Ids |-> IF i \in k.departed THEN None ELSE v[i]]],
             k.pending)

\* A list read from the view enriches the members that are known.
ApplyList(k, v) ==
    [k EXCEPT !.clients = [i \in Ids |->
        IF @[i] # None /\ v[i] # None /\ i \notin k.departed THEN v[i] ELSE @[i]]]

-----------------------------------------------------------------------------
(* SessionEventCoordinator. *)

\* normalizeDirectorySnapshot: the session's own client is always a member,
\* shown in the channel the session knows for it.
Shown(k) ==
    IF k.ready /\ k.at # None
    THEN [k.clients EXCEPT ![Me] = [who |-> Us, at |-> k.at]]
    ELSE IF k.ready THEN k.clients ELSE Nowhere

Members(k) == {i \in Ids : Shown(k)[i] # None}

\* Fault: the targets are not looked at again.
KeepTargets(k) == k

Prune(k) ==
    LET left == (k.targets \cap Members(k)) \ {Me}
    IN [k EXCEPT !.targets = left, !.whispering = @ /\ left # {}]

\* refresh(), over a view v.
Refresh(k, v) ==
    IF ~k.ready THEN k
    ELSE Prune(IF k.at = None THEN [k EXCEPT !.at = Here(v)] ELSE k)

\* The session now knows k: its browser is told of targets that changed.
Learn(k) ==
    /\ known' = k
    /\ told' = IF Published /\ k.targets # known.targets
               THEN [targets |-> k.targets, whispering |-> k.whispering] ELSE told

Receive(d, k) == Learn(Refresh(ApplyOrQueue(k, d), view'))

-----------------------------------------------------------------------------
(* MemberAvatarLoader. *)

\* schedule(), from a session that knows k.
Scheduled(a, live) ==
    IF live /\ a.batch = <<>> THEN [a EXCEPT !.timer = TRUE] ELSE a

Lacking(a, k) ==
    {p \in Pictured : a.cache[p] = "unknown" /\ \E i \in Members(k) : Shown(k)[i].who = p}

\* The member a queued download is for is still the one it was queued for.
SameMember(h) == Shown(known)[h.id] # None /\ Shown(known)[h.id].who = h.who

\* The loop goes on with the first member that is still there; getClientAvatar
\* reads the avatar marker from the view and refuses another identity.
Advance(queue) ==
    LET there == {n \in DOMAIN queue : SameMember(queue[n])} IN
    IF there = {} THEN <<>>
    ELSE LET rest == SubSeq(queue, Min(there), Len(queue))
             h == rest[1]
         IN [rest EXCEPT ![1].found = view[h.id] # None /\ view[h.id].who = h.who]

\* The batch goes on with queue, or ends and is scheduled again while an avatar
\* is missing.
Proceed(a, queue) ==
    LET next == Advance(queue) IN
    /\ avatars' = IF next = <<>>
                  THEN [a EXCEPT !.batch = <<>>, !.timer = Published /\ Lacking(a, known) # {}]
                  ELSE [a EXCEPT !.batch = next]
    /\ asked' = IF next = <<>> THEN asked ELSE asked \cup {next[1].who}

\* Fault: a download that outlived its directory is stored.
KeepsLate(h, current) == SameMember(h)

Keeps(h, current) == current /\ SameMember(h)

\* The cache after a download answered with an image, or with nothing.
Stored(h, image, current) ==
    IF Keeps(h, current)
    THEN [avatars.cache EXCEPT ![h.who] = IF image /\ h.found THEN h.who ELSE "none"]
    ELSE avatars.cache

AvatarTimer ==
    /\ avatars.timer
    /\ \E order \in SetToSeqs(Lacking(avatars, known)) :
         \E at \in [DOMAIN order -> Members(known)] :
            /\ \A n \in DOMAIN order : Shown(known)[at[n]].who = order[n]
            /\ Proceed([avatars EXCEPT !.timer = FALSE],
                       [n \in DOMAIN order |-> [id |-> at[n], who |-> order[n], found |-> FALSE]])
    /\ UNCHANGED <<phase, view, dirty, preferred, target, switching, known, told, chosen, late>>

AvatarAnswered ==
    /\ avatars.batch # <<>>
    /\ \E image \in BOOLEAN :
          Proceed([avatars EXCEPT !.cache = Stored(avatars.batch[1], image, TRUE)],
                  Tail(avatars.batch))
    /\ UNCHANGED <<phase, view, dirty, preferred, target, switching, known, told, chosen, late>>

LateAvatar ==
    \E h \in late :
        /\ late' = late \ {h}
        /\ \E image \in BOOLEAN : avatars' = [avatars EXCEPT !.cache = Stored(h, image, FALSE)]
        /\ UNCHANGED <<phase, view, dirty, preferred, target, switching, known, told, chosen,
                      asked>>

-----------------------------------------------------------------------------
(* The connection. *)

Init ==
    /\ phase = "down"
    /\ view = Nowhere
    /\ dirty = FALSE
    /\ preferred = None
    /\ target = None
    /\ moves = <<>>
    /\ executed = FALSE
    /\ crossed = FALSE
    /\ known = Unknown
    /\ told = [targets |-> {}, whispering |-> FALSE]
    /\ chosen = [i \in Ids |-> None]
    /\ avatars = NoAvatars
    /\ late = {}
    /\ asked = {}

Connect ==
    /\ phase = "down"
    /\ phase' = "welcome"
    /\ UNCHANGED <<view, dirty, preferred, target, switching, known, told, chosen, avatars,
                  late, asked>>

\* The SDK's view is ready: its first snapshot, then adapter.connect() returns.
ViewReady ==
    /\ phase = "welcome"
    /\ view[Me] # None
    /\ phase' = "join"
    /\ Learn(Refresh(ApplySnapshot(known, view), view))
    /\ dirty' = FALSE
    /\ UNCHANGED <<view, preferred, target, switching, chosen, avatars, late, asked>>

\* connect() is fulfilled: syncSelf() and sendInitialState().
GoLive(k, v) ==
    LET synced == Refresh([k EXCEPT !.self = TRUE, !.at = Here(v),
                                    !.clients[Me] = IF @ = None THEN v[Me] ELSE @], v) IN
    /\ phase' = "live"
    /\ known' = synced
    /\ told' = [targets |-> synced.targets, whispering |-> synced.whispering]
    /\ avatars' = Scheduled(avatars, TRUE)

\* channelsubscribeall has answered or failed; the view is read and published.
Subscribed ==
    LET k == Refresh(ApplySnapshot(known, view), view) IN
    /\ phase = "join"
    /\ IF preferred \in {None, Here(view)}
       THEN GoLive(k, view) /\ UNCHANGED target
       ELSE /\ phase' = "restore" /\ target' = preferred
            /\ known' = k /\ UNCHANGED <<told, avatars>>
    /\ preferred' = IF preferred = None THEN Here(view) ELSE preferred
    /\ UNCHANGED <<view, dirty, switching, chosen, late, asked>>

\* The own client is in another channel: clientMoved, of TSClient and of the session.
SelfMoved(k, to) ==
    ApplyOrQueue(IF k.self THEN [k EXCEPT !.at = to] ELSE k,
                 [kind |-> "moved", id |-> Me, entry |-> [who |-> Us, at |-> to]])

\* The event reaches the handlers; TSClient learns its own id when
\* adapter.connect() has returned.
OwnMove(to) ==
    /\ view' = [view EXCEPT ![Me].at = to]
    /\ dirty' = (phase # "welcome")
    /\ preferred' = IF phase = "welcome" THEN preferred ELSE to
    /\ Learn(Refresh(SelfMoved(known, to), view'))

\* The server moves the client back and acknowledges it; it refuses a move to the
\* channel the client is in. A refusal may also be an acknowledgement that is late.
RestoreExecuted ==
    /\ phase = "restore"
    /\ target \notin {None, view[Me].at}
    /\ OwnMove(target)
    /\ target' = None
    /\ UNCHANGED <<phase, switching, chosen, avatars, late, asked>>

RestoreAcknowledged ==
    /\ phase = "restore" /\ target = None
    /\ GoLive(known, view)
    /\ UNCHANGED <<view, dirty, preferred, target, switching, chosen, late, asked>>

\* Fault: the channel that cannot be restored is kept.
PreferredKept(v) == preferred

PreferredRefused(v) == Here(v)

RestoreRefused ==
    /\ phase = "restore"
    /\ preferred' = PreferredRefused(view)
    /\ GoLive(known, view)
    /\ target' = None
    /\ UNCHANGED <<view, dirty, switching, chosen, late, asked>>

\* The catch in connect() takes a dropped connection for a refusal.
RestoreDropped ==
    /\ phase = "dead"
    /\ phase' = "down"
    /\ preferred' = PreferredRefused(view)
    /\ view' = Nowhere
    /\ UNCHANGED <<dirty, target, switching, known, told, chosen, avatars, late, asked>>

(* The transport goes away: onDisconnect resets the directory, the whisper
   targets and the avatars (SessionEventCoordinator.reset). A connect() may
   also fail without a "disconnected" event, which resets nothing. The channel
   switches that wait are rejected. *)
Reset ==
    /\ known' = Unknown
    /\ avatars' = NoAvatars
    /\ late' = late \cup {avatars.batch[n] : n \in {1} \cap DOMAIN avatars.batch}
    /\ asked' = {}

Drop ==
    /\ Connected
    /\ phase' = IF phase = "restore" THEN "dead" ELSE "down"
    /\ view' = IF phase = "restore" THEN view ELSE Nowhere
    /\ \/ Reset
       \/ phase = "welcome" /\ UNCHANGED <<known, avatars, late, asked>>
    /\ dirty' = FALSE
    /\ target' = None
    /\ moves' = <<>> /\ executed' = FALSE /\ crossed' = FALSE
    /\ UNCHANGED <<preferred, told, chosen>>

-----------------------------------------------------------------------------
(* External: packets of the TeamSpeak server. *)

Aside == UNCHANGED <<phase, target, switching, late, asked>>
Unmoved == Aside /\ UNCHANGED chosen

ClientEnters(i, entry) ==
    /\ Connected
    /\ view[i] = None
    /\ (i = Me) <=> (entry.who = Us)
    /\ view' = [view EXCEPT ![i] = entry]
    /\ dirty' = (phase # "welcome")
    /\ Receive([kind |-> "enter", id |-> i, entry |-> entry],
               IF i = Me THEN [known EXCEPT !.self = TRUE, !.at = entry.at] ELSE known)
    /\ avatars' = Scheduled(avatars, Published)
    /\ chosen' = IF known.clients[i] = None THEN chosen ELSE [chosen EXCEPT ![i] = None]
    /\ UNCHANGED preferred
    /\ Aside

ClientLeaves(i) ==
    /\ Connected
    /\ i # Me /\ view[i] # None
    /\ view' = [view EXCEPT ![i] = None]
    /\ dirty' = (phase # "welcome")
    /\ Receive([kind |-> "leave", id |-> i, entry |-> None], known)
    /\ UNCHANGED <<preferred, avatars>>
    /\ Unmoved

\* A client goes out of view without an event, as by an unsubscribe.
ClientVanishes(i) ==
    /\ Connected
    /\ i # Me /\ view[i] # None
    /\ view' = [view EXCEPT ![i] = None]
    /\ dirty' = (phase # "welcome")
    /\ UNCHANGED <<preferred, known, told, avatars>>
    /\ Unmoved

ClientMoves(i, to) ==
    /\ Connected
    /\ i # Me /\ view[i] # None /\ view[i].at # to
    /\ view' = [view EXCEPT ![i].at = to]
    /\ dirty' = (phase # "welcome")
    /\ Receive([kind |-> "moved", id |-> i, entry |-> view'[i]], known)
    /\ UNCHANGED <<preferred, avatars>>
    /\ Unmoved

\* Another user moves the gateway's client, or the server executes a command
\* nobody waits for any more.
MovedByOther(to) ==
    /\ Connected
    /\ view[Me] # None /\ view[Me].at # to
    /\ OwnMove(to)
    /\ crossed' = (executed /\ to # moves[1])
    /\ UNCHANGED <<phase, target, moves, executed, chosen, avatars, late, asked>>

\* An attribute changes: the handler takes the whole record from the view.
ClientUpdated(i) ==
    /\ Connected
    /\ view[i] # None
    /\ Receive([kind |-> "updated", id |-> i, entry |-> view[i]], known)
    /\ UNCHANGED <<view, dirty, preferred, avatars>>
    /\ Unmoved

\* viewChanged: the SDK's wrapper publishes a revision once.
Snapshot ==
    /\ Connected /\ phase # "welcome"
    /\ dirty
    /\ dirty' = FALSE
    /\ Learn(Refresh(ApplySnapshot(known, view), view))
    /\ avatars' = Scheduled(avatars, Published)
    /\ UNCHANGED <<view, preferred>>
    /\ Unmoved

\* refreshDirectoryClients: 300 ms after the last enter. The list is read from
\* the view and delivered before any other event.
StatusRefresh ==
    /\ Published
    /\ Learn(Refresh(ApplyList(known, view), view))
    /\ UNCHANGED <<view, dirty, preferred, avatars>>
    /\ Unmoved

-----------------------------------------------------------------------------
(* Commands of the browser. *)

SwitchChannel(to) ==
    /\ Published
    /\ Len(moves) < MaxMoves
    /\ moves' = Append(moves, to)
    /\ UNCHANGED <<phase, view, dirty, preferred, target, executed, crossed, known, told,
                  chosen, avatars, late, asked>>

\* The server executes the first switch; the acknowledgement follows, and others
\* may move the client in between.
SwitchExecuted ==
    /\ moves # <<>> /\ ~executed
    /\ view[Me].at # moves[1]
    /\ OwnMove(moves[1])
    /\ executed' = TRUE
    /\ crossed' = FALSE
    /\ UNCHANGED <<phase, target, moves, chosen, avatars, late, asked>>

SwitchAcknowledged ==
    /\ executed
    /\ preferred' = moves[1]
    /\ moves' = Tail(moves)
    /\ executed' = FALSE
    /\ UNCHANGED <<phase, view, dirty, target, crossed, known, told, chosen, avatars, late, asked>>

\* The switch is refused, or nobody waits for its acknowledgement any more.
SwitchRefused ==
    /\ moves # <<>>
    /\ moves' = Tail(moves)
    /\ executed' = FALSE
    /\ crossed' = (crossed /\ ~executed)
    /\ UNCHANGED <<phase, view, dirty, preferred, target, known, told, chosen, avatars, late, asked>>

SetWhisperTargets(ids) ==
    /\ Published
    /\ Me \notin ids /\ ids \subseteq Members(known)
    /\ LET k == [known EXCEPT !.targets = ids, !.whispering = @ /\ ids # {}] IN
       /\ known' = k
       /\ told' = [targets |-> k.targets, whispering |-> k.whispering]
    /\ chosen' = [i \in Ids |-> IF i \in ids THEN Shown(known)[i].who ELSE None]
    /\ UNCHANGED <<phase, view, dirty, preferred, target, switching, avatars, late, asked>>

SetWhisperActive(on) ==
    /\ Published
    /\ on => known.targets # {}
    /\ known' = [known EXCEPT !.whispering = on]
    /\ told' = [targets |-> known.targets, whispering |-> on]
    /\ UNCHANGED <<phase, view, dirty, preferred, target, switching, chosen, avatars, late,
                  asked>>

Next ==
    \/ Connect \/ ViewReady \/ Subscribed \/ Drop
    \/ RestoreExecuted \/ RestoreAcknowledged \/ RestoreRefused \/ RestoreDropped
    \/ Snapshot \/ StatusRefresh
    \/ \E i \in Ids : ClientLeaves(i) \/ ClientVanishes(i) \/ ClientUpdated(i)
    \/ \E i \in Ids, entry \in Entry : ClientEnters(i, entry)
    \/ \E i \in Ids, to \in Channels : ClientMoves(i, to)
    \/ \E to \in Channels : MovedByOther(to) \/ SwitchChannel(to)
    \/ SwitchExecuted \/ SwitchAcknowledged \/ SwitchRefused
    \/ \E ids \in SUBSET Ids : SetWhisperTargets(ids)
    \/ \E on \in BOOLEAN : SetWhisperActive(on)
    \/ AvatarTimer \/ AvatarAnswered \/ LateAvatar

Spec == Init /\ [][Next]_vars

-----------------------------------------------------------------------------
(* Properties. *)

TypeOK ==
    /\ phase \in Phases
    /\ view \in Directory
    /\ dirty \in BOOLEAN
    /\ preferred \in Channels \cup {None}
    /\ target \in Channels \cup {None}
    /\ moves \in Seq(Channels) /\ (executed => moves # <<>>)
    /\ executed \in BOOLEAN /\ crossed \in BOOLEAN
    /\ known.clients \in Directory
    /\ known.departed \subseteq Ids /\ known.targets \subseteq Ids
    /\ known.pending \in Seq(Delta)
    /\ known.at \in Channels \cup {None}
    /\ avatars.batch \in Seq(Loading)
    /\ avatars.cache \in [Pictured -> {"unknown", "none"} \cup Pictured]
    /\ late \subseteq Loading

Settled == Published /\ ~dirty

(* Whatever order enters, leaves, silent disappearances, snapshots, list
   refreshes, moves and reconnects came in, the members shown are those of the
   live view once its last change is published, each in its channel: nobody
   departed is shown again and nobody present stays hidden ("Explicit leave
   events remain authoritative removals", "Client IDs can be reused"). This
   takes that no delta was dropped before the first snapshot. The channel kept
   for the next reconnect is the one the client is in, unless somebody moved the
   client between the execution of its own switch and the acknowledgement: the
   switch that is acknowledged then overwrites the newer channel. *)
DirectoryAgrees ==
    Settled => /\ ~known.overflow => Shown(known) = view
               /\ ~crossed => preferred = view[Me].at

(* A whisper reaches the people it was meant for: each target is a member other
   than the session's own client and still the identity the browser chose, and
   the browser knows who they are and whether it whispers. Targets are kept by
   id, so an id that is taken over before the disappearance of its holder was
   published is excepted. *)
WhisperReachesChosen ==
    Published =>
        /\ told = [targets |-> known.targets, whispering |-> known.whispering]
        /\ known.whispering => known.targets # {}
        /\ \A i \in known.targets : i # Me /\ Shown(known)[i] # None
                                    /\ chosen[i] \in {Shown(known)[i].who, None}

(* An avatar is shown for the identity it belongs to and comes from a download
   of the present connection: none started for an earlier directory is stored,
   however late it answers. *)
AvatarsBelong ==
    \A p \in Pictured : avatars.cache[p] # "unknown" =>
        avatars.cache[p] \in {"none", p} /\ p \in asked
=============================================================================
