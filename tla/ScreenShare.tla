----------------------------- MODULE ScreenShare -----------------------------
(***************************************************************************)
(* Screen sharing between the browsers of one TeamSpeak server and its     *)
(* native users: the registry of ScreenShareCoordinator, the notifications *)
(* that each gateway session handles in an order of its own, the discovery *)
(* of streams that started before a session was connected, and cleanup     *)
(* commands that flood control refuses and that are sent again later.      *)
(*                                                                         *)
(* Sources: src/src/server/screen-share-coordinator.ts, its callers in     *)
(* voice-bridge.ts and session-events.ts, sendProtocolCommand of           *)
(* ts-client.ts.                                                           *)
(*                                                                         *)
(* The TeamSpeak server is external. It executes a command when it is sent *)
(* unless it refuses it; its answers and notifications reach each session  *)
(* in order, any time later. What a browser is sent, it reads at once.     *)
(***************************************************************************)
EXTENDS Naturals, Sequences, FiniteSets, SequencesExt

CONSTANTS
    Browsers,   \* browser sessions of one TeamSpeak server
    Natives,    \* native TeamSpeak users
    Sharers,    \* the browsers that share
    Publishers, \* the native users that share, move, leave and come back
    Watchers,   \* the native users that watch a browser's share
    Queried,    \* bound: the clients whose discovery is followed
    Channels,
    Ids,        \* stream ids given out by the TeamSpeak server
    None,
    Gone,       \* an entry that discovery still refers to and that was torn down
    MaxInbox,   \* bound: nothing new happens while a session is that far behind
    MaxRetry    \* bound: refused commands that wait at the same time

ASSUME ClientsAssumption ==
    /\ Browsers \cap (Natives \cup Ids) = {}
    /\ Sharers \subseteq Browsers
    /\ Publishers \cup Watchers \subseteq Natives
    /\ Publishers \subseteq Queried /\ Queried \subseteq Browsers \cup Natives
ASSUME NoneAssumption ==
    /\ None # Gone
    /\ {None, Gone} \cap (Browsers \cup Natives \cup Channels \cup Ids) = {}
ASSUME IdsAssumption == IsFiniteSet(Ids)

VARIABLES
    session,    \* "absent" (no entry), "down" (no connection) or "up"
    channel,    \* getChannelId of each connected session
    directory,  \* the channel of each native user as each session knows it
    streams,    \* screenStreams: a browser's share under its owner, a native card under its id
    viewing,    \* the streams each browser was told it watches
    requested,  \* history: the cards a browser asked to watch and was not refused
    scan,       \* discoveries: the running pass and the pending entry
    inbox,      \* notifications and answers each session has not handled
    retry,      \* cleanup commands that wait to be sent again
    place,      \* server: the channel of each native user
    live,       \* server: the publisher of each stream id
    audience,   \* server: who joined each stream
    missed      \* history, per stream id: what the gateway could not learn or clean up

vars == <<session, channel, directory, streams, viewing, requested, scan, inbox, retry, place,
          live, audience, missed>>

registry == <<streams, viewing, requested>>
sessions == <<session, channel, directory>>

Keys == Browsers \cup Ids
Clients == Browsers \cup Natives

Stream == [src: Clients, channel: Channels, viewers: SUBSET Browsers,
           link: Ids \cup {None}, natives: SUBSET Natives]

ASSUME StreamAssumption == None \notin Stream

NewStream(src, ch) == [src |-> src, channel |-> ch, viewers |-> {}, link |-> None, natives |-> {}]

\* Notifications, and the answers the coordinator acts upon. An answer is current
\* while the membership or the share that it was asked for exists; a start notice
\* of a gateway client is, while that client is connected.
Msg(type, id, of) == [type |-> type, id |-> id, of |-> of, current |-> TRUE]

Message ==
    [type: {"started"}, id: Ids, of: Clients, current: BOOLEAN]
    \cup [type: {"stopped", "joinRefused"}, id: Ids, of: {None}, current: BOOLEAN]
    \cup [type: {"joinAsked", "clientLeft", "removed"}, id: Ids, of: Natives, current: BOOLEAN]
    \cup [type: {"at"}, id: Channels \cup {None}, of: Natives, current: BOOLEAN]

\* Sent by session by: removeclientfromstream of a client, or stopstream (of is None).
\* It is current while the share of its sender that it was sent for exists.
Cleanup == [by: Browsers, id: Ids, of: Clients \cup {None}, current: BOOLEAN]

-----------------------------------------------------------------------------
(* Helpers. *)

Up == {b \in Browsers : session[b] = "up"}

Viewed(b) == {k \in Keys : streams[k] # None /\ b \in streams[k].viewers}

\* An id the server may give out: nothing refers to it any more.
Fresh(id) ==
    /\ live[id] = None /\ streams[id] = None
    /\ \A b \in Browsers :
          /\ streams[b] # None => streams[b].link # id
          /\ \A n \in DOMAIN inbox[b] : inbox[b][n].id # id
    /\ \A c \in retry : c.id # id

\* Bound: nothing new happens while MaxInbox messages wait.
Roomy == FoldFunction(LAMBDA q, n : Len(q) + n, 0, inbox) < MaxInbox

ToAll(inb, msgs) == [b \in Browsers |-> IF b \in Up THEN inb[b] \o msgs ELSE inb[b]]

\* One message of a type about each of the ids, in that order.
Notices(type, order, of) == [n \in DOMAIN order |-> Msg(type, order[n], of)]

\* The inboxes after the streams ids end, in some order.
Ends(inb, ids) == {ToAll(inb, Notices("stopped", order, None)) : order \in SetToSeqs(ids)}

Miss(ids, what) == [id \in Ids |-> IF id \in ids THEN missed[id] \cup {what} ELSE missed[id]]

Outdate(q, Old(_)) ==
    [n \in DOMAIN q |-> IF Old(q[n]) THEN [q[n] EXCEPT !.current = FALSE] ELSE q[n]]

(* The effect on the registry of stopScreenStream of the keys in stops and of
   leaveScreenStream of the pairs in leaves. A stop is broadcast to the channel
   and to the owner, a leave is told to the browser. *)
Retired(stops, leaves) ==
    [k \in Keys |-> IF k \in stops \/ streams[k] = None THEN None
                    ELSE [streams[k] EXCEPT !.viewers = {v \in @ : <<v, k>> \notin leaves}]]

(* Fault: a browser that leaves is not told. *)
TellStopsOnly(stops, leaves) ==
    /\ viewing' = [v \in Browsers |-> {k \in viewing[v] :
          ~(k \in stops /\ channel[v] = streams[k].channel)}]
    /\ requested' = [v \in Browsers |-> {k \in requested[v] :
          k \notin stops /\ <<v, k>> \notin leaves}]

Tell(stops, leaves) ==
    /\ viewing' = [v \in Browsers |-> {k \in viewing[v] :
          /\ <<v, k>> \notin leaves
          /\ ~(k \in stops /\ channel[v] = streams[k].channel)}]
    /\ requested' = [v \in Browsers |-> {k \in requested[v] :
          k \notin stops /\ <<v, k>> \notin leaves}]

Retire(stops, leaves) == streams' = Retired(stops, leaves) /\ Tell(stops, leaves)

\* The inboxes after it: answers about what has ended are not current.
Outdated(stops, leaves) ==
    [v \in Browsers |-> Outdate(inbox[v], LAMBDA m :
        \/ m.type = "joinRefused" /\ (m.id \in stops \/ <<v, m.id>> \in leaves)
        \/ m.type = "removed" /\ v \in stops)]

LateCleanups(stops) ==
    {[c EXCEPT !.current = @ /\ ~(c.by \in stops /\ c.of \in Natives)] : c \in retry}

\* The commands it sends: by the publisher of a linked share, by a viewer of a card.
Cleanups(stops, leaves) ==
    {c \in Cleanup : /\ c.by \in Up /\ c.current
                     /\ \/ c.of = None /\ c.by \in stops /\ c.id = streams[c.by].link
                        \/ c.of = c.by /\ <<c.by, c.id>> \in leaves}

(* sendProtocolCommand of cleanup commands: each is executed at once or refused
   for flooding and kept to be sent again. inb and waiting are the state of the
   inboxes and of the refused commands. *)
Send(cmds, inb, waiting) ==
    \E done \in SUBSET cmds :
        LET ended == {id \in Ids : \E c \in done : c.id = id /\ c.of = None /\ live[id] = c.by} IN
        /\ live' = [id \in Ids |-> IF id \in ended THEN None ELSE live[id]]
        /\ audience' = [id \in Ids |-> IF id \in ended THEN {}
                                       ELSE audience[id] \ {c.of : c \in {d \in done : d.id = id}}]
        /\ inbox' \in Ends(inb, ended)
        /\ retry' = waiting \cup (cmds \ done)
        /\ done # cmds => Cardinality(retry') <= MaxRetry
        /\ missed' = Miss({c.id : c \in cmds \ done}, "flooded")

(* discoverExistingStreams: a pass by the pending entry if it is connected, else by
   any session that is, over the clients it knows; the states in which it may
   start. It takes no step to start, and none if there is nobody to ask. *)
Idle == [by |-> None, todo |-> {}, next |-> None]

Passes(entry) ==
    LET up == {b \in Browsers : session'[b] = "up"}
        known(b) == {c \in Queried : IF c \in Natives THEN directory'[b][c] # None ELSE c \in up}
        able == IF entry = None THEN {} ELSE IF entry \in up THEN {entry} ELSE up IN
    IF able = {} THEN {Idle}
    ELSE {IF known(b) = {} THEN Idle ELSE [Idle EXCEPT !.by = b, !.todo = known(b)] : b \in able}

-----------------------------------------------------------------------------
Init ==
    /\ session = [b \in Browsers |-> "absent"]
    /\ channel = [b \in Browsers |-> None]
    /\ directory = [b \in Browsers |-> [n \in Natives |-> None]]
    /\ streams = [k \in Keys |-> None]
    /\ viewing = [b \in Browsers |-> {}]
    /\ requested = [b \in Browsers |-> {}]
    /\ scan = Idle
    /\ inbox = [b \in Browsers |-> <<>>]
    /\ retry = {}
    /\ place \in [Natives -> Channels]
    /\ live = [id \in Ids |-> None]
    /\ audience = [id \in Ids |-> {}]
    /\ missed = [id \in Ids |-> {}]

-----------------------------------------------------------------------------
(* Sessions. *)

Arrive(b) ==
    /\ session[b] = "absent"
    /\ session' = [session EXCEPT ![b] = "down"]
    /\ UNCHANGED <<channel, directory, registry, scan, inbox, retry, place, live, audience, missed>>

(* A session is connected: its directory is that of the server, and it asks for
   a discovery, which joins the running one as its pending pass. *)
Connect(b) ==
    /\ session[b] = "down" /\ Roomy
    /\ session' = [session EXCEPT ![b] = "up"]
    /\ \E ch \in Channels : channel' = [channel EXCEPT ![b] = ch]
    /\ directory' = [directory EXCEPT ![b] = place]
    /\ scan' \in IF scan = Idle THEN Passes(b) ELSE {[scan EXCEPT !.next = b]}
    /\ UNCHANGED <<registry, inbox, retry, place, live, audience, missed>>

(* removePeer: the connection is lost (to "down") or the entry is torn down. The
   share of the session stops, it leaves what it watches, and the last entry of
   a server takes every stream with it. The server ends what it published. *)
Detach(b, to) ==
    /\ \/ session[b] = "up" /\ to \in {"down", "absent"}
       \/ session[b] = "down" /\ to = "absent"
    /\ LET alone == \A v \in Browsers \ {b} : session[v] = "absent"
           stops == {k \in Keys : streams[k] # None /\ (k = b \/ alone)}
           leaves == {b} \X Viewed(b)
           ended == {id \in Ids : live[id] = b}
           former == [v \in Browsers |-> Outdate(Outdated(stops, leaves)[v],
                                                 LAMBDA m : m.type = "started" /\ m.of = b)]
           cut(type) == {m \in ToSet(inbox[b]) : m.type = type} IN
       /\ Retire(stops, leaves)
       /\ live' = [id \in Ids |-> IF id \in ended THEN None ELSE live[id]]
       /\ audience' = [id \in Ids |-> IF id \in ended THEN {} ELSE audience[id] \ {b}]
       /\ inbox' \in {[inb EXCEPT ![b] = <<>>] : inb \in Ends(former, ended)}
       /\ missed' = [id \in Ids |-> missed[id]
             \cup {"end" : m \in {x \in cut("stopped") : x.id = id}
                           \cup {x \in cut("at") : streams[id] # None /\ streams[id].src = x.of}}
             \cup {"start" : m \in {x \in cut("started") : x.id = id /\ x.of \in Natives}}]
    /\ retry' = {c \in retry : c.by # b}
    /\ session' = [session EXCEPT ![b] = to]
    /\ channel' = [channel EXCEPT ![b] = None]
    /\ directory' = [directory EXCEPT ![b] = [n \in Natives |-> None]]
    /\ scan' = IF to = "down" THEN scan
               ELSE [scan EXCEPT !.by = IF @ = b THEN Gone ELSE @, !.next = IF @ = b THEN Gone ELSE @]
    /\ place' = place

(* Fault: a session that moves keeps what it watches. *)
BrowserMoveStillViewing(b, ch) ==
    /\ b \in Up /\ ch # channel[b] /\ Roomy
    /\ channel' = [channel EXCEPT ![b] = ch]
    /\ LET stops == {k \in {b} : streams[k] # None} IN
       Retire(stops, {}) /\ Send(Cleanups(stops, {}), Outdated(stops, {}), LateCleanups(stops))
    /\ UNCHANGED <<session, directory, scan, place>>

(* onClientMove of the session itself. *)
BrowserMove(b, ch) ==
    /\ b \in Up /\ ch # channel[b] /\ Roomy
    /\ channel' = [channel EXCEPT ![b] = ch]
    /\ LET stops == {k \in {b} : streams[k] # None}
           leaves == {b} \X {k \in Viewed(b) : streams[k].channel # ch} IN
       Retire(stops, leaves) /\ Send(Cleanups(stops, leaves), Outdated(stops, leaves), LateCleanups(stops))
    /\ UNCHANGED <<session, directory, scan, place>>

-----------------------------------------------------------------------------
(* Requests of a browser. *)

\* screenShareStart: the publication on TeamSpeak may be refused; the share stays.
Start(b) ==
    /\ b \in Up \cap Sharers /\ streams[b] = None /\ Roomy
    /\ streams' = [streams EXCEPT ![b] = NewStream(b, channel[b])]
    /\ \/ \E id \in Ids :
            /\ Fresh(id)
            /\ live' = [live EXCEPT ![id] = b]
            /\ missed' = [missed EXCEPT ![id] = {}]
            /\ inbox' = ToAll(inbox, <<Msg("started", id, b)>>)
       \/ UNCHANGED <<live, missed, inbox>>
    /\ UNCHANGED <<sessions, viewing, requested, scan, retry, place, audience>>

Stop(b) ==
    /\ b \in Up /\ streams[b] # None /\ Roomy
    /\ Retire({b}, {}) /\ Send(Cleanups({b}, {}), Outdated({b}, {}), LateCleanups({b}))
    /\ UNCHANGED <<sessions, scan, place>>

(* screenShareJoin. For a native card TeamSpeak is asked too; its refusal is
   answered later. *)
Join(b, k) ==
    /\ b \in Up /\ streams[k] # None /\ k # b /\ Roomy
    /\ streams[k].channel = channel[b] /\ b \notin streams[k].viewers
    /\ streams' = [streams EXCEPT ![k].viewers = @ \cup {b}]
    /\ viewing' = [viewing EXCEPT ![b] = @ \cup {k}]
    /\ IF k \in Browsers
       THEN UNCHANGED <<requested, audience, inbox>>
       ELSE /\ requested' = [requested EXCEPT ![b] = @ \cup {k}]
            /\ \/ /\ live[k] # None
                  /\ live[k] \in Natives => place[live[k]] = channel[b]
                  /\ audience' = [audience EXCEPT ![k] = @ \cup {b}]
                  /\ inbox' = inbox
               \/ /\ inbox' = [inbox EXCEPT ![b] = Append(@, Msg("joinRefused", k, None))]
                  /\ audience' = audience
    /\ UNCHANGED <<sessions, scan, retry, place, live, missed>>

\* screenShareLeave, or the closing signal of a viewer of a native card.
Leave(b, k) ==
    /\ b \in Up /\ k \in Viewed(b) /\ Roomy
    /\ Retire({}, {<<b, k>>})
    /\ Send(Cleanups({}, {<<b, k>>}), Outdated({}, {<<b, k>>}), retry)
    /\ UNCHANGED <<sessions, scan, place>>

\* What the server does and tells b when it executes removeclientfromstream of n.
Expelled(b, id, n, current) ==
    /\ audience' = [audience EXCEPT ![id] = @ \ {n}]
    /\ inbox' = [inbox EXCEPT ![b] = @
                                  \o (IF n \in audience[id] THEN <<Msg("clientLeft", id, n)>> ELSE <<>>)
                                  \o <<[Msg("removed", id, n) EXCEPT !.current = current]>>]

(* The owner closes the peer of a native viewer. *)
Evict(b, n) ==
    /\ b \in Up /\ Roomy
    /\ streams[b] # None /\ streams[b].link # None /\ n \in streams[b].natives
    /\ LET id == streams[b].link IN
       \/ Expelled(b, id, n, TRUE) /\ UNCHANGED <<retry, missed>>
       \/ /\ Cardinality(retry) < MaxRetry
          /\ retry' = retry \cup {[by |-> b, id |-> id, of |-> n, current |-> TRUE]}
          /\ missed' = Miss({id}, "flooded")
          /\ UNCHANGED <<audience, inbox>>
    /\ UNCHANGED <<sessions, registry, scan, place, live>>

-----------------------------------------------------------------------------
(* sendProtocolCommand: a refused cleanup is sent again by the same connection,
   a limited number of times. *)
Resend(c) ==
    /\ c \in retry
    /\ \/ /\ c.of \in Natives
          /\ Expelled(c.by, c.id, c.of, c.current)
          /\ UNCHANGED <<live, missed>>
       \/ /\ c.of \in Browsers
          /\ audience' = [audience EXCEPT ![c.id] = @ \ {c.of}]
          /\ UNCHANGED <<live, inbox, missed>>
       \/ /\ c.of = None /\ live[c.id] = c.by
          /\ live' = [live EXCEPT ![c.id] = None]
          /\ audience' = [audience EXCEPT ![c.id] = {}]
          /\ inbox' = ToAll(inbox, <<Msg("stopped", c.id, None)>>)
          /\ missed' = missed
       \/ \* given up, or the stream is gone
          /\ missed' = IF live[c.id] # None THEN Miss({c.id}, "abandoned") ELSE missed
          /\ UNCHANGED <<live, audience, inbox>>
    /\ retry' = retry \ {c}
    /\ UNCHANGED <<sessions, registry, scan, place>>

-----------------------------------------------------------------------------
(* The TeamSpeak server and its native users: external. *)

Publish(n, id) ==
    /\ n \in Publishers /\ place[n] # None /\ Fresh(id) /\ Roomy
    /\ \A i \in Ids : live[i] # n
    /\ live' = [live EXCEPT ![id] = n]
    /\ missed' = [missed EXCEPT ![id] = {}]
    /\ inbox' = ToAll(inbox, <<Msg("started", id, n)>>)
    /\ UNCHANGED <<sessions, registry, scan, retry, place, audience>>

\* The publisher or the server ends a stream.
EndStream(id) ==
    /\ live[id] # None /\ Roomy
    /\ live' = [live EXCEPT ![id] = None]
    /\ audience' = [audience EXCEPT ![id] = {}]
    /\ inbox' = ToAll(inbox, <<Msg("stopped", id, None)>>)
    /\ missed' = IF Up = {} THEN Miss({id}, "end") ELSE missed
    /\ UNCHANGED <<sessions, registry, scan, retry, place>>

\* A native user moves, comes (from None) or goes (to None). Streams are scoped to a
\* channel: a move dissolves the audience, and nothing promises a new announcement.
NativeMove(n, ch) ==
    /\ n \in Publishers /\ ch # place[n] /\ Roomy
    /\ place' = [place EXCEPT ![n] = ch]
    /\ LET own == {id \in Ids : live[id] = n}
           stale == {id \in Ids : streams[id] # None /\ streams[id].src = n} IN
       /\ live' = [id \in Ids |-> IF id \in own /\ ch = None THEN None ELSE live[id]]
       /\ audience' = [id \in Ids |-> IF id \in own THEN {} ELSE audience[id]]
       /\ inbox' \in {ToAll(inb, <<Msg("at", ch, n)>>) :
                         inb \in IF ch = None THEN Ends(inbox, own) ELSE {inbox}}
       /\ missed' = [id \in Ids |-> missed[id]
             \cup (IF id \in own THEN {"start"} ELSE {})
             \cup {"end" : i \in IF Up = {} THEN (own \cup stale) \cap {id} ELSE {}}]
    /\ UNCHANGED <<sessions, registry, scan, retry>>

Watch(n, id) ==
    /\ n \in Watchers /\ live[id] \in Browsers /\ n \notin audience[id] /\ Roomy
    /\ audience' = [audience EXCEPT ![id] = @ \cup {n}]
    /\ inbox' = [inbox EXCEPT ![live[id]] = Append(@, Msg("joinAsked", id, n))]
    /\ UNCHANGED <<sessions, registry, scan, retry, place, live, missed>>

Unwatch(n, id) ==
    /\ n \in audience[id] \cap Natives /\ Roomy
    /\ audience' = [audience EXCEPT ![id] = @ \ {n}]
    /\ inbox' = [inbox EXCEPT ![live[id]] = Append(@, Msg("clientLeft", id, n))]
    /\ UNCHANGED <<sessions, registry, scan, retry, place, live, missed>>

-----------------------------------------------------------------------------
(* discoverExistingStreams. *)

\* requeststreaminfo: the answer describes every stream of the client.
ScanAsk(c) ==
    /\ scan.by \in Up /\ c \in scan.todo /\ Roomy
    /\ LET own == {id \in Ids : live[id] = c} IN
       \/ /\ \E order \in SetToSeqs(own) :
                inbox' = [inbox EXCEPT ![scan.by] = @ \o Notices("started", order, c)]
          /\ missed' = IF \A b \in Browsers : inbox[b] = <<>>
                       THEN [id \in Ids |-> missed[id] \ {"start" : i \in own \cap {id}}]
                       ELSE missed
       \/ inbox' = inbox /\ missed' = IF c \in Natives THEN Miss(own, "start") ELSE missed
    /\ UNCHANGED <<sessions, registry, retry, place, live, audience>>
    /\ scan' \in IF scan.todo = {c} THEN Passes(scan.next) ELSE {[scan EXCEPT !.todo = @ \ {c}]}

(* The session of the pass was lost: the rest of the pass is dropped, and the
   pending pass follows if there is one. *)
BrokenPass ==
    /\ scan.by # None /\ scan.by \notin Up
    /\ missed' = IF scan.next = None \/ Up = {}
                 THEN Miss({id \in Ids : live[id] \in scan.todo \cap Natives}, "start") ELSE missed
    /\ UNCHANGED <<sessions, registry, inbox, retry, place, live, audience>>

(* Fault: a lost session ends the discovery. *)
ScanBreakForGood == BrokenPass /\ scan' = Idle

ScanBreak == BrokenPass /\ scan' \in Passes(scan.next)

-----------------------------------------------------------------------------
(* handleNotification and the continuations of commands: session b handles the
   first message of its inbox. *)

Rest(inb, b) == [inb EXCEPT ![b] = Tail(@)]

Heads(b, type) == inbox[b] # <<>> /\ Head(inbox[b]).type = type

(* Fault: a publication that belongs to no share is left alone. *)
OwnStartedLeftAlone(b) ==
    /\ Heads(b, "started")
    /\ LET m == Head(inbox[b]) IN
       /\ m.of \in Browsers /\ m.current
       /\ streams' = IF streams[m.of] # None /\ streams[m.of].link \in {None, m.id}
                     THEN [streams EXCEPT ![m.of].link = m.id] ELSE streams
       /\ inbox' = Rest(inbox, b)
    /\ UNCHANGED <<sessions, viewing, requested, scan, place, live, audience, retry, missed>>

(* notifystreamstarted and notifystreaminfo of a client of the gateway: the
   publication is linked to the share it belongs to, or stopped. *)
OwnStarted(b) ==
    /\ Heads(b, "started")
    /\ LET m == Head(inbox[b]) IN
       /\ m.of \in Browsers /\ m.current
       /\ IF streams[m.of] # None /\ streams[m.of].link \in {None, m.id}
          THEN /\ streams' = [streams EXCEPT ![m.of].link = m.id]
               /\ inbox' = Rest(inbox, b)
               /\ UNCHANGED <<live, audience, retry, missed>>
          ELSE /\ Send({[by |-> m.of, id |-> m.id, of |-> None, current |-> TRUE]},
                       Rest(inbox, b), retry)
               /\ UNCHANGED streams
    /\ UNCHANGED <<sessions, viewing, requested, scan, place>>

(* The same of any other client: a card in the channel where the directory has
   the source. The directory entry of a former gateway client is not modelled:
   it is anywhere or gone. *)
SourceChannels(b, m) ==
    IF m.of \in Browsers THEN Channels \cup {None}
    ELSE IF directory[b][m.of] # None THEN {directory[b][m.of]}
    ELSE LET others == {directory[v][m.of] : v \in Up} \ {None} IN
         IF others = {} THEN {None} ELSE others

(* Fault: a source without a known channel gets a card in no channel. *)
CardStartedAnywhere(b) ==
    /\ Heads(b, "started")
    /\ LET m == Head(inbox[b]) IN
       /\ m.of \in Natives \/ ~m.current
       /\ \E ch \in SourceChannels(b, m) :
          streams' = [streams EXCEPT ![m.id] = IF @ = None THEN NewStream(m.of, ch) ELSE @]
    /\ inbox' = Rest(inbox, b)
    /\ UNCHANGED <<sessions, viewing, requested, scan, retry, place, live, audience, missed>>

(* Fault: the channel of a card is corrected in place, and its viewers stay. *)
CardStartedInPlace(b) ==
    /\ Heads(b, "started")
    /\ LET m == Head(inbox[b]) IN
       /\ m.of \in Natives \/ ~m.current
       /\ \E ch \in SourceChannels(b, m) \ {None} :
          streams' = [streams EXCEPT ![m.id] = IF @ = None THEN NewStream(m.of, ch)
                                               ELSE [@ EXCEPT !.channel = ch]]
    /\ inbox' = Rest(inbox, b)
    /\ UNCHANGED <<sessions, viewing, requested, scan, retry, place, live, audience, missed>>

CardStarted(b) ==
    /\ Heads(b, "started")
    /\ LET m == Head(inbox[b])
           old == streams[m.id] IN
       /\ m.of \in Natives \/ ~m.current
       /\ \E ch \in SourceChannels(b, m) :
          IF ch = None
          THEN /\ inbox' = Rest(inbox, b)
               /\ missed' = IF m.of \in Natives THEN Miss({m.id}, "start") ELSE missed
               /\ UNCHANGED <<registry, live, audience, retry>>
          ELSE LET moved == old # None /\ old.channel # ch
                   stops == IF moved THEN {m.id} ELSE {}
                   leaves == IF moved THEN old.viewers \X {m.id} ELSE {} IN
               /\ streams' = [Retired(stops, leaves) EXCEPT
                     ![m.id] = IF @ = None THEN NewStream(m.of, ch) ELSE [@ EXCEPT !.src = m.of]]
               /\ Tell(stops, leaves)
               /\ Send(Cleanups(stops, leaves), Rest(Outdated(stops, leaves), b), retry)
    /\ UNCHANGED <<sessions, scan, place>>

(* notifystreamstopped: a card is retired; a share loses its publication only. *)
StoppedNotice(b) ==
    /\ Heads(b, "stopped")
    /\ LET id == Head(inbox[b]).id
           cards == {k \in {id} : streams[k] # None}
           linked == {v \in Browsers : streams[v] # None /\ streams[v].link = id} IN
       /\ inbox' = Rest(Outdated(cards, {}), b)
       /\ Tell(cards, {})
       /\ streams' = IF cards # {} THEN Retired(cards, {})
                     ELSE [k \in Keys |-> IF k \in linked
                           THEN [streams[k] EXCEPT !.link = None, !.natives = {}] ELSE streams[k]]
    /\ UNCHANGED <<sessions, scan, retry, place, live, audience, missed>>

(* onClientMove and onClientLeave of a native user; an entering user has no cards
   to stop. *)
AtNotice(b) ==
    /\ Heads(b, "at")
    /\ LET m == Head(inbox[b])
           stops == {id \in Ids : /\ directory[b][m.of] # None
                                  /\ streams[id] # None /\ streams[id].src = m.of
                                  /\ streams[id].channel # m.id} IN
       /\ Retire(stops, {})
       /\ inbox' = Rest(Outdated(stops, {}), b)
       /\ directory' = [directory EXCEPT ![b][m.of] = m.id]
       /\ missed' = Miss(stops, "moved")
    /\ UNCHANGED <<session, channel, scan, retry, place, live, audience>>

(* Fault: a request for any publication of the session is taken for its share. *)
JoinAskedOfAny(b) ==
    /\ Heads(b, "joinAsked")
    /\ LET m == Head(inbox[b]) IN
       streams' = IF streams[b] # None THEN [streams EXCEPT ![b].natives = @ \cup {m.of}] ELSE streams
    /\ inbox' = Rest(inbox, b)
    /\ UNCHANGED <<sessions, viewing, requested, scan, retry, place, live, audience, missed>>

(* notifyjoinstreamrequest, handled for the session's own publication. *)
JoinAskedNotice(b) ==
    /\ Heads(b, "joinAsked")
    /\ LET m == Head(inbox[b]) IN
       streams' = IF streams[b] # None /\ streams[b].link = m.id
                  THEN [streams EXCEPT ![b].natives = @ \cup {m.of}] ELSE streams
    /\ inbox' = Rest(inbox, b)
    /\ UNCHANGED <<sessions, viewing, requested, scan, retry, place, live, audience, missed>>

(* notifystreamclientleft. *)
ClientLeftNotice(b) ==
    /\ Heads(b, "clientLeft")
    /\ LET m == Head(inbox[b]) IN
       streams' = [k \in Keys |-> IF k \in Browsers /\ streams[k] # None /\ streams[k].link = m.id
                                  THEN [streams[k] EXCEPT !.natives = @ \ {m.of}] ELSE streams[k]]
    /\ inbox' = Rest(inbox, b)
    /\ UNCHANGED <<sessions, viewing, requested, scan, retry, place, live, audience, missed>>

(* Fault: the refusal of an older membership ends the present one. *)
JoinRefusedAnyMembership(b) ==
    /\ Heads(b, "joinRefused")
    /\ LET m == Head(inbox[b])
           leaves == {b} \X ({m.id} \cap Viewed(b)) IN
       /\ streams' = Retired({}, leaves)
       /\ viewing' = [viewing EXCEPT ![b] = @ \ {m.id}]
       /\ requested' = IF m.current THEN [requested EXCEPT ![b] = @ \ {m.id}] ELSE requested
       /\ Send(Cleanups({}, leaves), Rest(Outdated({}, leaves), b), retry)
    /\ UNCHANGED <<sessions, scan, place>>

(* The catch of joinNativeScreenStream: the browser leaves, if the refusal is
   about the membership it has. *)
JoinRefusedAnswer(b) ==
    /\ Heads(b, "joinRefused")
    /\ LET m == Head(inbox[b])
           leaves == IF m.current THEN {<<b, m.id>>} ELSE {} IN
       /\ Retire({}, leaves)
       /\ Send(Cleanups({}, leaves), Rest(Outdated({}, leaves), b), retry)
    /\ UNCHANGED <<sessions, scan, place>>

(* The continuation of removeclientfromstream sent for the owner of a share,
   whichever publication the share has by then. *)
RemovedAnswer(b) ==
    /\ Heads(b, "removed")
    /\ LET m == Head(inbox[b])
           own == m.current /\ streams[b] # None IN
       /\ streams' = IF own THEN [streams EXCEPT ![b].natives = @ \ {m.of}] ELSE streams
       /\ missed' = IF own THEN Miss({streams[b].link} \ {m.id}, "crossed") ELSE missed
    /\ inbox' = Rest(inbox, b)
    /\ UNCHANGED <<sessions, viewing, requested, scan, retry, place, live, audience>>

-----------------------------------------------------------------------------
Handle(b) ==
    \/ OwnStarted(b) \/ CardStarted(b) \/ StoppedNotice(b) \/ AtNotice(b) \/ JoinAskedNotice(b)
    \/ ClientLeftNotice(b) \/ JoinRefusedAnswer(b) \/ RemovedAnswer(b)

Next ==
    \/ \E b \in Browsers :
        \/ Arrive(b) \/ Connect(b) \/ Detach(b, "down") \/ Detach(b, "absent")
        \/ Start(b) \/ Stop(b) \/ Handle(b)
        \/ \E ch \in Channels : BrowserMove(b, ch)
        \/ \E k \in Keys : Join(b, k) \/ Leave(b, k)
        \/ \E n \in Natives : Evict(b, n)
    \/ \E c \in retry : Resend(c)
    \/ \E n \in Natives :
        \/ \E id \in Ids : Publish(n, id) \/ Watch(n, id) \/ Unwatch(n, id)
        \/ \E ch \in Channels \cup {None} : NativeMove(n, ch)
    \/ \E id \in Ids : EndStream(id)
    \/ ScanBreak \/ \E c \in Clients : ScanAsk(c)

Spec == Init /\ [][Next]_vars

-----------------------------------------------------------------------------
(* Properties. *)

TypeOK ==
    /\ session \in [Browsers -> {"absent", "down", "up"}]
    /\ channel \in [Browsers -> Channels \cup {None}]
    /\ directory \in [Browsers -> [Natives -> Channels \cup {None}]]
    /\ streams \in [Keys -> Stream \cup {None}]
    /\ viewing \in [Browsers -> SUBSET Keys]
    /\ requested \in [Browsers -> SUBSET Ids]
    /\ scan \in [by: Browsers \cup {None, Gone}, todo: SUBSET Clients,
                 next: Browsers \cup {None, Gone}]
    /\ inbox \in [Browsers -> Seq(Message)]
    /\ retry \subseteq Cleanup
    /\ place \in [Natives -> Channels \cup {None}]
    /\ live \in [Ids -> Clients \cup {None}]
    /\ audience \in [Ids -> SUBSET Clients]
    /\ missed \in [Ids -> SUBSET {"start", "end", "moved", "flooded", "crossed", "abandoned"}]

\* Every notice is handled, nothing waits to be sent again and no discovery runs.
Quiet == retry = {} /\ scan = Idle /\ \A b \in Browsers : inbox[b] = <<>>

(* Nobody watches across channels: a share lives in the channel of its connected
   owner, and a viewer is connected and in the channel of what it watches, for
   every order of moves, reconnects and late notices ("A browser share belongs
   to the gateway user's current channel", onClientMove). *)
ChannelIsolation ==
    /\ \A b \in Browsers : streams[b] # None => b \in Up /\ streams[b].channel = channel[b]
    /\ \A b \in Browsers : \A k \in Viewed(b) :
          b \in Up /\ k # b /\ channel[b] = streams[k].channel

(* What a browser was told it watches is what the registry has: no order of
   stops, moves and refusals leaves a browser with a viewer the gateway dropped,
   nor the gateway with a viewer that was told to leave. *)
Told == \A b \in Browsers : viewing[b] = Viewed(b)

(* A refusal of an earlier request never undoes a later one: a card the browser
   asked for and was not refused keeps it as a viewer (the membership symbol of
   joinNativeScreenStream). *)
RequestKept == \A b \in Browsers : requested[b] \subseteq Viewed(b)

(* Once everything is handled, the publications of the gateway on TeamSpeak are
   exactly those linked to a share: a setup that outlives its share is stopped,
   a stop that flood control refused is sent again, and a share forgets a
   publication that ended, unless the session that was to tell was lost. *)
PublicationsAccounted ==
    Quiet => \A id \in Ids, b \in Browsers :
        LET linked == streams[b] # None /\ streams[b].link = id IN
        /\ live[id] = b /\ "abandoned" \notin missed[id] => linked
        /\ linked /\ "end" \notin missed[id] => live[id] = b

(* Once everything is handled, the gateway has no viewer that TeamSpeak has not,
   and misses none. Left out are streams of which a cleanup was refused, cards
   retired by a late notice of a move of their source, and shares whose owner
   removed a viewer from the publication before this one. *)
AudienceAgrees ==
    Quiet => \A id \in Ids :
        LET agrees(here, there) ==
                /\ "end" \notin missed[id] /\ "flooded" \notin missed[id] => here \subseteq there
                /\ missed[id] \subseteq {"start", "end"} => there \subseteq here IN
        /\ \A b \in Browsers : streams[b] # None /\ streams[b].link = id =>
               agrees(streams[b].natives, audience[id] \cap Natives)
        /\ streams[id] # None => agrees(streams[id].viewers, audience[id] \cap Browsers)

(* Once everything is handled, the cards are the live native streams, each in the
   channel of its source: discovery finds those that started while nobody was
   connected. Left out are an end or move that no connected session could tell,
   and a stream whose announcement and query were both lost with a session. *)
CardsAgree ==
    Quiet => \A id \in Ids :
        /\ streams[id] # None /\ "end" \notin missed[id] =>
              /\ live[id] = streams[id].src
              /\ live[id] \in Natives => place[live[id]] = streams[id].channel
        /\ Up # {} /\ live[id] \in Natives /\ "start" \notin missed[id] => streams[id] # None
=============================================================================
