------------------------- MODULE ScreenShare_proofs -------------------------
(***************************************************************************)
(* Proofs about ScreenShare, for any number of sessions, native users,     *)
(* channels and stream ids, and without its bounds on messages.            *)
(***************************************************************************)
EXTENDS ScreenShare, FiniteSetTheorems, TLAPS

-----------------------------------------------------------------------------
(* The inductive invariant. *)

Inboxes == [Browsers -> Seq(Message)]

ScanRecord == [by: Browsers \cup {None, Gone}, todo: SUBSET Clients,
               next: Browsers \cup {None, Gone}]

SessionsOK ==
    /\ session \in [Browsers -> {"absent", "down", "up"}]
    /\ channel \in [Browsers -> Channels \cup {None}]
    /\ directory \in [Browsers -> [Natives -> Channels \cup {None}]]

RegistryOK ==
    /\ streams \in [Keys -> Stream \cup {None}]
    /\ viewing \in [Browsers -> SUBSET Keys]
    /\ requested \in [Browsers -> SUBSET Ids]

MissedOK == missed \in [Ids -> SUBSET {"start", "end", "moved", "flooded", "crossed", "abandoned"}]

ServerOK ==
    /\ inbox \in Inboxes
    /\ retry \subseteq Cleanup
    /\ live \in [Ids -> Clients \cup {None}]
    /\ audience \in [Ids -> SUBSET Clients]
    /\ MissedOK

PlaceOK == place \in [Natives -> Channels \cup {None}]

\* A connected session is in a channel.
Located == \A b \in Up : channel[b] # None

Agreement == ChannelIsolation /\ Told /\ RequestKept

IInv == TypeOK /\ Located /\ Agreement

LEMMA Types ==
    TypeOK <=> SessionsOK /\ RegistryOK /\ ServerOK /\ PlaceOK /\ scan \in ScanRecord
  BY DEF TypeOK, SessionsOK, RegistryOK, ServerOK, MissedOK, PlaceOK, ScanRecord, Inboxes

LEMMA TypesNext ==
    SessionsOK' /\ RegistryOK' /\ ServerOK' /\ PlaceOK' /\ scan' \in ScanRecord => TypeOK'
  BY DEF TypeOK, SessionsOK, RegistryOK, ServerOK, MissedOK, PlaceOK, ScanRecord, Inboxes

-----------------------------------------------------------------------------
(* Messages and inboxes. *)

LEMMA MessageShape ==
    ASSUME NEW m \in Message
    PROVE  /\ m.current \in BOOLEAN
           /\ m.type = "started" => m.id \in Ids /\ m.of \in Clients
           /\ m.type \in {"stopped", "joinRefused"} => m.id \in Ids
           /\ m.type \in {"joinAsked", "clientLeft", "removed"} => m.id \in Ids /\ m.of \in Natives
           /\ m.type = "at" => m.id \in Channels \cup {None} /\ m.of \in Natives
  BY DEF Message

LEMMA MsgMessage ==
    ASSUME NEW id \in Ids
    PROVE  /\ \A c \in Clients : Msg("started", id, c) \in Message
           /\ Msg("stopped", id, None) \in Message
           /\ Msg("joinRefused", id, None) \in Message
           /\ \A n \in Natives : /\ Msg("joinAsked", id, n) \in Message
                                 /\ Msg("clientLeft", id, n) \in Message
                                 /\ \A c \in BOOLEAN :
                                       [Msg("removed", id, n) EXCEPT !.current = c] \in Message
  BY DEF Msg, Message

LEMMA AtMessage ==
    ASSUME NEW n \in Natives, NEW ch \in Channels \cup {None}
    PROVE  Msg("at", ch, n) \in Message
  BY DEF Msg, Message

LEMMA OrderShape ==
    ASSUME NEW ids \in SUBSET Ids, NEW order \in SetToSeqs(ids)
    PROVE  order \in Seq(Ids)
  <1>1. IsFiniteSet(ids)
    BY IdsAssumption, FS_Subset
  <1>2. Cardinality(ids) \in Nat
    BY <1>1, FS_CardinalityType
  <1>3. order \in [1..Cardinality(ids) -> ids]
    BY DEF SetToSeqs
  <1> QED BY <1>2, <1>3

LEMMA NoticesShape ==
    ASSUME NEW ids \in SUBSET Ids, NEW order \in SetToSeqs(ids)
    PROVE  /\ Notices("stopped", order, None) \in Seq(Message)
           /\ \A c \in Clients : Notices("started", order, c) \in Seq(Message)
  <1>1. order \in Seq(Ids)
    BY OrderShape
  <1>2. Notices("stopped", order, None) \in Seq(Message)
    BY <1>1, MsgMessage DEF Notices
  <1>3. ASSUME NEW c \in Clients
        PROVE  Notices("started", order, c) \in Seq(Message)
    BY <1>1, MsgMessage DEF Notices
  <1> QED BY <1>2, <1>3

LEMMA ToAllShape ==
    ASSUME NEW inb \in Inboxes, NEW msgs \in Seq(Message)
    PROVE  ToAll(inb, msgs) \in Inboxes
  BY DEF ToAll, Inboxes

LEMMA SentToAll ==
    ASSUME NEW inb \in Inboxes, NEW m \in Message
    PROVE  ToAll(inb, <<m>>) \in Inboxes
  <1>1. <<m>> \in Seq(Message)
    OBVIOUS
  <1> QED BY <1>1, ToAllShape

LEMMA EndsShape ==
    ASSUME NEW inb \in Inboxes, NEW ids \in SUBSET Ids, NEW after \in Ends(inb, ids)
    PROVE  after \in Inboxes
  BY NoticesShape, ToAllShape DEF Ends

LEMMA RestShape ==
    ASSUME NEW inb \in Inboxes, NEW b \in Browsers, inb[b] # <<>>
    PROVE  Rest(inb, b) \in Inboxes
  BY DEF Rest, Inboxes

LEMMA HeadShape ==
    ASSUME TypeOK, NEW b \in Browsers, inbox[b] # <<>>
    PROVE  Head(inbox[b]) \in Message
  BY DEF TypeOK

\* Inboxes in which some messages are no longer current.
LEMMA OutdateShape ==
    ASSUME NEW inb \in Inboxes, NEW after,
           after = [b \in Browsers |-> after[b]],
           \A b \in Browsers : after[b] = [n \in DOMAIN inb[b] |-> after[b][n]],
           \A b \in Browsers : \A n \in DOMAIN inb[b] :
              after[b][n] \in {inb[b][n], [inb[b][n] EXCEPT !.current = FALSE]}
    PROVE  /\ after \in Inboxes
           /\ \A b \in Browsers : inb[b] # <<>> => after[b] # <<>>
  <1>1. ASSUME NEW b \in Browsers
        PROVE  after[b] \in Seq(Message) /\ Len(after[b]) = Len(inb[b])
    <2>1. inb[b] \in Seq(Message)
      BY DEF Inboxes
    <2>2. after[b] \in [1..Len(inb[b]) -> Message]
      <3>1. \A n \in 1..Len(inb[b]) : /\ inb[b][n] \in Message
                                       /\ [inb[b][n] EXCEPT !.current = FALSE] \in Message
        <4>1. ASSUME NEW m \in Message
              PROVE  [m EXCEPT !.current = FALSE] \in Message
          BY DEF Message
        <4>2. \A n \in 1..Len(inb[b]) : inb[b][n] \in Message
          BY <2>1
        <4> QED BY <4>1, <4>2, Zenon
      <3>2. DOMAIN inb[b] = 1..Len(inb[b])
        BY <2>1
      <3> QED BY <3>1, <3>2
    <2> QED BY <2>1, <2>2
  <1>2. after \in Inboxes
    BY <1>1 DEF Inboxes
  <1>3. \A b \in Browsers : inb[b] # <<>> => after[b] # <<>>
    BY <1>1 DEF Inboxes
  <1> QED BY <1>2, <1>3

LEMMA OutdatedShape ==
    ASSUME TypeOK, NEW stops, NEW leaves
    PROVE  /\ Outdated(stops, leaves) \in Inboxes
           /\ \A b \in Browsers : inbox[b] # <<>> => Outdated(stops, leaves)[b] # <<>>
  <1> DEFINE after == Outdated(stops, leaves)
  <1>1. inbox \in Inboxes
    BY Types DEF ServerOK
  <1>2. after = [b \in Browsers |-> after[b]]
    BY DEF Outdated, Outdate
  <1>3. ASSUME NEW b \in Browsers
        PROVE  after[b] = [n \in DOMAIN inbox[b] |-> after[b][n]]
    BY DEF Outdated, Outdate
  <1>4. ASSUME NEW b \in Browsers, NEW n \in DOMAIN inbox[b]
        PROVE  after[b][n] \in {inbox[b][n], [inbox[b][n] EXCEPT !.current = FALSE]}
    BY DEF Outdated, Outdate
  <1> HIDE DEF after
  <1>5. after \in Inboxes /\ \A b \in Browsers : inbox[b] # <<>> => after[b] # <<>>
    BY <1>1, <1>2, <1>3, <1>4, OutdateShape
  <1> QED BY <1>5 DEF after

LEMMA MissShape ==
    ASSUME MissedOK, NEW ids,
           NEW what \in {"start", "end", "moved", "flooded", "crossed", "abandoned"}
    PROVE  Miss(ids, what) \in [Ids -> SUBSET {"start", "end", "moved", "flooded", "crossed", "abandoned"}]
  BY DEF Miss, MissedOK

LEMMA SendInv ==
    ASSUME TypeOK, NEW cmds \in SUBSET Cleanup, NEW inb \in Inboxes,
           NEW waiting \in SUBSET Cleanup, Send(cmds, inb, waiting)
    PROVE  ServerOK'
  <1>1. PICK done \in SUBSET cmds :
          LET ended == {id \in Ids : \E c \in done : c.id = id /\ c.of = None /\ live[id] = c.by} IN
          /\ live' = [id \in Ids |-> IF id \in ended THEN None ELSE live[id]]
          /\ audience' = [id \in Ids |-> IF id \in ended THEN {}
                                         ELSE audience[id] \ {c.of : c \in {d \in done : d.id = id}}]
          /\ inbox' \in Ends(inb, ended)
          /\ retry' = waiting \cup (cmds \ done)
          /\ missed' = Miss({c.id : c \in cmds \ done}, "flooded")
    BY DEF Send
  <1>2. inbox' \in Inboxes
    BY <1>1, EndsShape
  <1>3. MissedOK'
    BY <1>1, Types, MissShape DEF ServerOK, MissedOK
  <1>4. retry' \subseteq Cleanup
    BY <1>1
  <1>5. /\ live' \in [Ids -> Clients \cup {None}]
        /\ audience' \in [Ids -> SUBSET Clients]
    BY <1>1 DEF TypeOK
  <1> QED BY <1>2, <1>3, <1>4, <1>5 DEF ServerOK

LEMMA CleanupsShape ==
    ASSUME NEW stops, NEW leaves
    PROVE  Cleanups(stops, leaves) \in SUBSET Cleanup
  BY DEF Cleanups

LEMMA LateCleanupsShape ==
    ASSUME TypeOK, NEW stops
    PROVE  LateCleanups(stops) \in SUBSET Cleanup
  <1>1. \A c \in Cleanup, v \in BOOLEAN : [c EXCEPT !.current = v] \in Cleanup
    BY DEF Cleanup
  <1>2. \A c \in retry : c \in Cleanup
    BY DEF TypeOK
  <1>3. \A c \in retry : (c.current /\ ~(c.by \in stops /\ c.of \in Natives)) \in BOOLEAN
    OBVIOUS
  <1> QED BY <1>1, <1>2, <1>3 DEF LateCleanups

-----------------------------------------------------------------------------
(* The registry. *)

LEMMA StreamShape ==
    ASSUME NEW s \in Stream
    PROVE  /\ s.src \in Clients /\ s.channel \in Channels /\ s.viewers \in SUBSET Browsers
           /\ s.link \in Ids \cup {None} /\ s.natives \in SUBSET Natives
  BY DEF Stream

(* Updates of a stream: r is the stream s with another field. *)

Altered(r, s) == r \in Stream /\ r.channel = s.channel /\ r.viewers = s.viewers

LEMMA ViewersSet ==
    \A s \in Stream, set \in SUBSET Browsers :
       /\ [s EXCEPT !.viewers = set] \in Stream
       /\ [s EXCEPT !.viewers = set].viewers = set
       /\ [s EXCEPT !.viewers = set].channel = s.channel
  BY DEF Stream

LEMMA NativesSet ==
    \A s \in Stream, set \in SUBSET Natives : Altered([s EXCEPT !.natives = set], s)
  BY DEF Stream, Altered

LEMMA LinkSet ==
    \A s \in Stream, id \in Ids : Altered([s EXCEPT !.link = id], s)
  BY DEF Stream, Altered

LEMMA Unlinked ==
    \A s \in Stream : Altered([s EXCEPT !.link = None, !.natives = {}], s)
  BY DEF Stream, Altered

LEMMA SourceSet ==
    \A s \in Stream, c \in Clients : Altered([s EXCEPT !.src = c], s)
  BY DEF Stream, Altered

LEMMA NewStreamShape ==
    ASSUME NEW c \in Clients, NEW ch \in Channels
    PROVE  /\ NewStream(c, ch) \in Stream
           /\ NewStream(c, ch).viewers = {} /\ NewStream(c, ch).channel = ch
  BY DEF NewStream, Stream

\* An entry of the registry is none or a stream.
LEMMA EntryShape ==
    ASSUME TypeOK, NEW k \in Keys
    PROVE  streams[k] # None <=> streams[k] \in Stream
  BY StreamAssumption DEF TypeOK

LEMMA RetiredShape ==
    ASSUME TypeOK, NEW stops, NEW leaves, NEW k \in Keys
    PROVE  LET r == Retired(stops, leaves)[k] IN
           /\ r \in Stream \cup {None}
           /\ r # None <=> k \notin stops /\ streams[k] # None
           /\ r # None => /\ r.channel = streams[k].channel
                          /\ r.viewers = {v \in streams[k].viewers : <<v, k>> \notin leaves}
  <1>1. CASE k \in stops \/ streams[k] = None
    BY <1>1 DEF Retired
  <1>2. CASE k \notin stops /\ streams[k] # None
    <2>1. streams[k] \in Stream
      BY <1>2, EntryShape
    <2> DEFINE set == {v \in streams[k].viewers : <<v, k>> \notin leaves}
    <2>2. set \in SUBSET Browsers
      BY <2>1, StreamShape
    <2>3. Retired(stops, leaves)[k] = [streams[k] EXCEPT !.viewers = set]
      BY <1>2 DEF Retired
    <2> HIDE DEF set
    <2> PICK s \in Stream : s = streams[k]
      BY <2>1
    <2>4. Retired(stops, leaves)[k] = [s EXCEPT !.viewers = set]
      BY <2>3
    <2>5. /\ Retired(stops, leaves)[k] \in Stream
          /\ Retired(stops, leaves)[k].viewers = set
          /\ Retired(stops, leaves)[k].channel = streams[k].channel
      BY <2>2, <2>4, ViewersSet DEF Stream
    <2> QED BY <1>2, <2>5, StreamAssumption DEF set
  <1> QED BY <1>1, <1>2

\* What a browser has left to view after stops and leaves.
Remaining(v, stops, leaves) == {k \in Viewed(v) : k \notin stops /\ <<v, k>> \notin leaves}

LEMMA TellInv ==
    ASSUME TypeOK, Agreement, NEW stops, NEW leaves, Tell(stops, leaves),
           \A v \in Browsers : Viewed(v)' = Remaining(v, stops, leaves)
    PROVE  /\ viewing' \in [Browsers -> SUBSET Keys]
           /\ requested' \in [Browsers -> SUBSET Ids]
           /\ Told' /\ RequestKept'
  <1>1. \A v \in Browsers : viewing[v] = Viewed(v) /\ requested[v] \subseteq Viewed(v)
    BY DEF Agreement, Told, RequestKept
  <1>2. \A v \in Browsers : \A k \in Viewed(v) : channel[v] = streams[k].channel
    BY DEF Agreement, ChannelIsolation
  <1>3. \A v \in Browsers : viewing'[v] = Remaining(v, stops, leaves)
    BY <1>1, <1>2 DEF Tell, Remaining
  <1>4. \A v \in Browsers : requested'[v] \subseteq Remaining(v, stops, leaves)
    BY <1>1 DEF Tell, Remaining
  <1>5. Told' /\ RequestKept'
    BY <1>3, <1>4 DEF Told, RequestKept
  <1>6. /\ viewing' \in [Browsers -> SUBSET Keys]
        /\ requested' \in [Browsers -> SUBSET Ids]
    BY DEF Tell, TypeOK
  <1> QED BY <1>5, <1>6

LEMMA RetireInv ==
    ASSUME TypeOK, Agreement, NEW stops, NEW leaves, Retire(stops, leaves)
    PROVE  /\ RegistryOK' /\ Told' /\ RequestKept'
           /\ \A v \in Browsers : Viewed(v)' = Remaining(v, stops, leaves)
           /\ \A k \in Keys : streams'[k] # None =>
                 /\ k \notin stops /\ streams[k] # None
                 /\ streams'[k].channel = streams[k].channel
  <1>1. /\ streams' = Retired(stops, leaves)
        /\ Tell(stops, leaves)
    BY DEF Retire
  <1>2. streams' = [k \in Keys |-> streams'[k]]
    BY <1>1 DEF Retired
  <1>3. \A v \in Browsers : Viewed(v)' = Remaining(v, stops, leaves)
    BY <1>1, RetiredShape DEF Viewed, Remaining
  <1>4. streams' \in [Keys -> Stream \cup {None}]
    BY <1>1, <1>2, RetiredShape
  <1>5. \A k \in Keys : streams'[k] # None =>
           /\ k \notin stops /\ streams[k] # None
           /\ streams'[k].channel = streams[k].channel
    BY <1>1, RetiredShape
  <1> QED BY <1>1, <1>3, <1>4, <1>5, TellInv DEF RegistryOK

LEMMA StillIsolated ==
    ASSUME ChannelIsolation, UNCHANGED sessions,
           \A v \in Browsers : Viewed(v)' \subseteq Viewed(v),
           \A k \in Keys : streams'[k] # None /\ (k \in Browsers \/ \E v \in Browsers : k \in Viewed(v)') =>
              streams[k] # None /\ streams'[k].channel = streams[k].channel
    PROVE  ChannelIsolation'
  <1>1. session' = session /\ channel' = channel
    BY DEF sessions
  <1>2. Up' = Up
    BY <1>1 DEF Up
  <1>3. \A b \in Browsers : streams'[b] # None => b \in Up /\ streams'[b].channel = channel[b]
    BY DEF ChannelIsolation, Keys
  <1>4. \A b \in Browsers : \A k \in Viewed(b)' :
           b \in Up /\ k # b /\ channel[b] = streams'[k].channel
    <2> TAKE b \in Browsers
    <2> TAKE k \in Viewed(b)'
    <2>1. k \in Keys /\ streams'[k] # None /\ k \in Viewed(b)
      BY DEF Viewed
    <2> QED BY <2>1 DEF ChannelIsolation
  <1> QED BY <1>1, <1>2, <1>3, <1>4 DEF ChannelIsolation

LEMMA StillLocated ==
    ASSUME Located, UNCHANGED sessions
    PROVE  Located'
  BY DEF Located, Up, sessions

LEMMA RegistryKept ==
    ASSUME IInv, UNCHANGED <<sessions, registry>>
    PROVE  SessionsOK' /\ RegistryOK' /\ Located' /\ Agreement'
  <1>1. /\ UNCHANGED <<session, channel, directory, streams, viewing, requested>>
        /\ SessionsOK /\ RegistryOK /\ Located /\ Agreement
    BY Types DEF sessions, registry, IInv
  <1>2. \A b \in Browsers : Viewed(b)' = Viewed(b)
    BY <1>1 DEF Viewed
  <1>3. Up' = Up
    BY <1>1 DEF Up
  <1>4. SessionsOK' /\ RegistryOK'
    BY <1>1 DEF SessionsOK, RegistryOK
  <1>5. Located'
    BY <1>1, <1>3 DEF Located
  <1>6. Agreement'
    BY <1>1, <1>2, <1>3 DEF Agreement, ChannelIsolation, Told, RequestKept
  <1> QED BY <1>4, <1>5, <1>6

\* Streams change in nothing that the invariant is about.
StreamsAltered ==
    /\ streams' = [k \in Keys |-> streams'[k]]
    /\ \A k \in Keys : streams'[k] # streams[k] =>
          streams[k] # None /\ Altered(streams'[k], streams[k])

LEMMA AlteredInv ==
    ASSUME IInv, UNCHANGED <<sessions, viewing, requested>>, StreamsAltered
    PROVE  SessionsOK' /\ RegistryOK' /\ Located' /\ Agreement'
  <1>1. /\ UNCHANGED <<session, channel, directory, viewing, requested>>
        /\ StreamsAltered /\ SessionsOK /\ RegistryOK /\ Located /\ Agreement
    BY Types DEF sessions, IInv
  <1>2. \A k \in Keys : /\ streams'[k] \in Stream \cup {None}
                        /\ streams'[k] # None <=> streams[k] # None
                        /\ streams'[k] # None => /\ streams'[k].channel = streams[k].channel
                                                 /\ streams'[k].viewers = streams[k].viewers
    BY <1>1, StreamAssumption DEF StreamsAltered, Altered, RegistryOK
  <1>3. \A b \in Browsers : Viewed(b)' = Viewed(b)
    BY <1>2 DEF Viewed
  <1>4. Located' /\ SessionsOK'
    BY <1>1 DEF SessionsOK, Located, Up
  <1>5. RegistryOK'
    BY <1>1, <1>2 DEF RegistryOK, StreamsAltered
  <1>6. ChannelIsolation'
    BY <1>1, <1>2, <1>3, StillIsolated DEF Agreement, sessions
  <1>7. Told' /\ RequestKept'
    BY <1>1, <1>3 DEF Agreement, Told, RequestKept
  <1> QED BY <1>4, <1>5, <1>6, <1>7 DEF Agreement

\* Streams are retired and nobody moves.
LEMMA RetiredInv ==
    ASSUME IInv, UNCHANGED sessions, NEW stops, NEW leaves, Retire(stops, leaves)
    PROVE  SessionsOK' /\ RegistryOK' /\ Located' /\ Agreement'
  <1>1. /\ UNCHANGED <<session, channel, directory>>
        /\ TypeOK /\ SessionsOK /\ Located /\ Agreement
    BY Types DEF sessions, IInv
  <1>2. /\ \A v \in Browsers : Viewed(v)' = Remaining(v, stops, leaves)
        /\ \A k \in Keys : streams'[k] # None =>
              streams[k] # None /\ streams'[k].channel = streams[k].channel
        /\ RegistryOK' /\ Told' /\ RequestKept'
    BY <1>1, RetireInv
  <1>3. ChannelIsolation'
    <2>1. \A v \in Browsers : Viewed(v)' \subseteq Viewed(v)
      BY <1>2 DEF Remaining
    <2>2. ChannelIsolation
      BY <1>1 DEF Agreement
    <2> QED BY <1>2, <2>1, <2>2, StillIsolated
  <1>4. Located' /\ SessionsOK'
    BY <1>1 DEF SessionsOK, Located, Up
  <1> QED BY <1>2, <1>3, <1>4 DEF Agreement

-----------------------------------------------------------------------------
(* Sessions. *)

LEMMA ArriveInv ==
    ASSUME IInv, NEW b \in Browsers, Arrive(b)
    PROVE  IInv'
  <1>1. /\ session[b] = "absent" /\ session' = [session EXCEPT ![b] = "down"]
        /\ UNCHANGED <<channel, directory, registry, scan, inbox, retry, place, live, audience,
                       missed>>
    BY DEF Arrive
  <1>2. TypeOK'
    BY <1>1 DEF IInv, TypeOK, registry
  <1>3. Up' = Up
    BY <1>1 DEF Up, IInv, TypeOK
  <1>4. \A v \in Browsers : Viewed(v)' = Viewed(v)
    BY <1>1 DEF Viewed, registry
  <1>5. Located' /\ Agreement'
    BY <1>1, <1>3, <1>4
    DEF IInv, Located, Agreement, ChannelIsolation, Told, RequestKept, registry
  <1> QED BY <1>2, <1>5 DEF IInv

LEMMA PassesShape ==
    ASSUME NEW entry \in Browsers \cup {None, Gone}, NEW s \in Passes(entry)
    PROVE  s \in ScanRecord
  <1> DEFINE up == {b \in Browsers : session'[b] = "up"}
             known(b) == {c \in Queried : IF c \in Natives THEN directory'[b][c] # None
                                          ELSE c \in up}
             able == IF entry = None THEN {} ELSE IF entry \in up THEN {entry} ELSE up
  <1>1. \/ s = Idle
        \/ \E b \in able : s = [by |-> b, todo |-> known(b), next |-> None]
    BY DEF Passes, Idle
  <1>2. able \subseteq Browsers /\ \A b \in able : known(b) \subseteq Clients
    BY ClientsAssumption DEF Clients
  <1> HIDE DEF able, known
  <1> QED BY <1>1, <1>2 DEF Idle, ScanRecord

\* A session that is connected neither shares nor watches yet.
LEMMA ConnectInv ==
    ASSUME IInv, NEW b \in Browsers, Connect(b)
    PROVE  IInv'
  <1>1. PICK ch \in Channels : channel' = [channel EXCEPT ![b] = ch]
    BY DEF Connect
  <1>2. /\ session[b] = "down" /\ session' = [session EXCEPT ![b] = "up"]
        /\ directory' = [directory EXCEPT ![b] = place]
        /\ UNCHANGED <<registry, inbox, retry, place, live, audience, missed>>
    BY DEF Connect
  <1>3. scan' \in ScanRecord
    <2>1. scan \in ScanRecord
      BY Types DEF IInv
    <2>2. [scan EXCEPT !.next = b] \in ScanRecord
      BY <2>1 DEF ScanRecord
    <2>3. scan' \in Passes(b) \/ scan' = [scan EXCEPT !.next = b]
      BY DEF Connect
    <2> QED BY <2>2, <2>3, PassesShape
  <1>4. TypeOK'
    BY <1>1, <1>2, <1>3 DEF IInv, TypeOK, registry, ScanRecord
  <1>5. b \notin Up /\ Up' = Up \cup {b}
    BY <1>2 DEF Up, IInv, TypeOK
  <1>6. \A v \in Browsers : Viewed(v)' = Viewed(v)
    BY <1>2 DEF Viewed, registry
  <1>7. Located'
    BY <1>1, <1>5, NoneAssumption DEF IInv, Located, TypeOK
  <1>8. ChannelIsolation'
    BY <1>1, <1>2, <1>5, <1>6 DEF IInv, Agreement, ChannelIsolation, registry, TypeOK
  <1>9. Told' /\ RequestKept'
    BY <1>2, <1>6 DEF IInv, Agreement, Told, RequestKept, registry
  <1> QED BY <1>4, <1>7, <1>8, <1>9 DEF IInv, Agreement

LEMMA DetachInv ==
    ASSUME IInv, NEW b \in Browsers, NEW to \in {"down", "absent"}, Detach(b, to)
    PROVE  IInv'
  <1> DEFINE alone == \A v \in Browsers \ {b} : session[v] = "absent"
             stops == {k \in Keys : streams[k] # None /\ (k = b \/ alone)}
             leaves == {b} \X Viewed(b)
             ended == {id \in Ids : live[id] = b}
             former == [v \in Browsers |-> Outdate(Outdated(stops, leaves)[v],
                                                   LAMBDA m : m.type = "started" /\ m.of = b)]
  <1>1. /\ TypeOK /\ Agreement /\ Located
        /\ Retire(stops, leaves)
        /\ session' = [session EXCEPT ![b] = to]
        /\ channel' = [channel EXCEPT ![b] = None]
        /\ directory' = [directory EXCEPT ![b] = [n \in Natives |-> None]]
    BY DEF IInv, Detach
  <1>2. SessionsOK'
    BY <1>1 DEF SessionsOK, TypeOK
  <1>3. RegistryOK' /\ Told' /\ RequestKept'
    BY <1>1, RetireInv
  <1>4. scan' \in ScanRecord
    BY DEF Detach, IInv, TypeOK, ScanRecord
  <1>5. PlaceOK'
    BY DEF Detach, IInv, TypeOK, PlaceOK
  <1>6. ServerOK'
    <2>1. former \in Inboxes
      <3> DEFINE inb == Outdated(stops, leaves)
                 after == former
      <3>1. inb \in Inboxes
        BY <1>1, OutdatedShape
      <3> HIDE DEF inb
      <3>2. after = [v \in Browsers |-> after[v]]
        BY DEF Outdate, inb
      <3>3. ASSUME NEW v \in Browsers
            PROVE  after[v] = [n \in DOMAIN inb[v] |-> after[v][n]]
        BY DEF Outdate, inb
      <3>4. ASSUME NEW v \in Browsers, NEW n \in DOMAIN inb[v]
            PROVE  after[v][n] \in {inb[v][n], [inb[v][n] EXCEPT !.current = FALSE]}
        BY DEF Outdate, inb
      <3> HIDE DEF after
      <3>5. after \in Inboxes
        BY <3>1, <3>2, <3>3, <3>4, OutdateShape
      <3> QED BY <3>5 DEF after
    <2>2. PICK inb \in Ends(former, ended) : inbox' = [inb EXCEPT ![b] = <<>>]
      BY DEF Detach
    <2>3. inbox' \in Inboxes
      <3>1. ended \in SUBSET Ids
        OBVIOUS
      <3> HIDE DEF ended, former
      <3>2. inb \in Inboxes
        BY <2>1, <2>2, <3>1, EndsShape
      <3> QED BY <2>2, <3>2 DEF Inboxes
    <2>4. live' \in [Ids -> Clients \cup {None}] /\ audience' \in [Ids -> SUBSET Clients]
      BY DEF Detach, IInv, TypeOK
    <2>5. retry' \subseteq Cleanup
      BY DEF Detach, IInv, TypeOK
    <2>6. MissedOK'
      BY DEF Detach, IInv, TypeOK, MissedOK
    <2> QED BY <2>3, <2>4, <2>5, <2>6 DEF ServerOK
  <1>7. Up' = Up \ {b} /\ Located'
    BY <1>1 DEF Up, Located, TypeOK
  <1>8. ChannelIsolation'
    <2>1. \A v \in Browsers : Viewed(v)' = Remaining(v, stops, leaves)
      BY <1>1, RetireInv
    <2>2. \A k \in Keys : streams'[k] # None =>
             /\ k \notin stops /\ streams[k] # None
             /\ streams'[k].channel = streams[k].channel
      BY <1>1, RetireInv
    <2>3. streams'[b] = None
      BY <2>2 DEF Keys
    <2>4. Viewed(b)' = {}
      BY <2>1 DEF Remaining
    <2>5. \A v \in Browsers : streams'[v] # None => v \in Up' /\ streams'[v].channel = channel'[v]
      BY <1>1, <1>7, <2>2, <2>3 DEF Agreement, ChannelIsolation, Keys, TypeOK
    <2>6. \A v \in Browsers : \A k \in Viewed(v)' :
             v \in Up' /\ k # v /\ channel'[v] = streams'[k].channel
      <3> TAKE v \in Browsers
      <3> TAKE k \in Viewed(v)'
      <3>1. v # b /\ k \in Viewed(v)
        BY <2>1, <2>4 DEF Remaining
      <3>2. k \in Keys /\ streams'[k] # None
        BY DEF Viewed
      <3> QED BY <1>1, <1>7, <2>2, <3>1, <3>2 DEF Agreement, ChannelIsolation, TypeOK
    <2> QED BY <2>5, <2>6 DEF ChannelIsolation
  <1> QED BY <1>2, <1>3, <1>4, <1>5, <1>6, <1>7, <1>8, TypesNext DEF IInv, Agreement

\* The commands of a step that retires streams, in the inboxes after it.
LEMMA RetireSendInv ==
    ASSUME TypeOK, NEW stops, NEW leaves, NEW waiting \in SUBSET Cleanup,
           Send(Cleanups(stops, leaves), Outdated(stops, leaves), waiting)
    PROVE  ServerOK'
  BY CleanupsShape, OutdatedShape, SendInv

(* What the mover shares ends, and it leaves what is shared elsewhere. *)
LEMMA BrowserMoveInv ==
    ASSUME IInv, NEW b \in Browsers, NEW ch \in Channels, BrowserMove(b, ch)
    PROVE  IInv'
  <1> DEFINE stops == {k \in {b} : streams[k] # None}
             leaves == {b} \X {k \in Viewed(b) : streams[k].channel # ch}
  <1>1. /\ b \in Up /\ Retire(stops, leaves)
        /\ Send(Cleanups(stops, leaves), Outdated(stops, leaves), LateCleanups(stops))
        /\ channel' = [channel EXCEPT ![b] = ch]
        /\ UNCHANGED <<session, directory, scan, place>>
        /\ TypeOK /\ Agreement /\ Located
    BY DEF BrowserMove, IInv
  <1>2. /\ RegistryOK' /\ Told' /\ RequestKept'
        /\ \A v \in Browsers : Viewed(v)' = Remaining(v, stops, leaves)
        /\ \A k \in Keys : streams'[k] # None =>
              /\ k \notin stops /\ streams[k] # None
              /\ streams'[k].channel = streams[k].channel
    BY <1>1, RetireInv
  <1>3. ServerOK'
    BY <1>1, LateCleanupsShape, RetireSendInv
  <1>4. SessionsOK' /\ PlaceOK' /\ scan' \in ScanRecord
    BY <1>1 DEF TypeOK, SessionsOK, PlaceOK, ScanRecord
  <1>5. Up' = Up /\ Located'
    BY <1>1, NoneAssumption DEF Up, Located, TypeOK
  <1>6. streams'[b] = None
    BY <1>2 DEF Keys
  <1>7. ChannelIsolation'
    <2>1. \A v \in Browsers : streams'[v] # None => v \in Up' /\ streams'[v].channel = channel'[v]
      BY <1>1, <1>2, <1>5, <1>6 DEF Agreement, ChannelIsolation, Keys, TypeOK
    <2>2. \A v \in Browsers : \A k \in Viewed(v)' :
             v \in Up' /\ k # v /\ channel'[v] = streams'[k].channel
      <3> TAKE v \in Browsers
      <3> TAKE k \in Viewed(v)'
      <3>1. k \in Viewed(v) /\ <<v, k>> \notin leaves
        BY <1>2 DEF Remaining
      <3>2. k \in Keys /\ streams'[k] # None
        BY DEF Viewed
      <3>3. v \in Up /\ k # v /\ channel[v] = streams[k].channel
        BY <1>1, <3>1 DEF Agreement, ChannelIsolation
      <3>4. CASE v = b
        <4>1. streams[k].channel = ch
          BY <3>1, <3>4
        <4> QED BY <1>1, <1>2, <1>5, <3>2, <3>3, <3>4, <4>1 DEF TypeOK
      <3>5. CASE v # b
        BY <1>1, <1>2, <1>5, <3>2, <3>3, <3>5 DEF TypeOK
      <3> QED BY <3>4, <3>5
    <2> QED BY <2>1, <2>2 DEF ChannelIsolation
  <1> QED BY <1>2, <1>3, <1>4, <1>5, <1>7, TypesNext DEF IInv, Agreement

-----------------------------------------------------------------------------
(* Requests. *)

LEMMA StartInv ==
    ASSUME IInv, NEW b \in Browsers, Start(b)
    PROVE  IInv'
  <1> DEFINE s == NewStream(b, channel[b])
  <1>1. /\ b \in Up /\ streams[b] = None
        /\ streams' = [streams EXCEPT ![b] = s]
        /\ UNCHANGED <<session, channel, directory, viewing, requested, scan, retry, place,
                       audience>>
        /\ TypeOK /\ Agreement /\ Located
    BY DEF Start, sessions, IInv
  <1>2. s \in Stream /\ s.viewers = {} /\ s.channel = channel[b] /\ b \in Keys
    BY <1>1, NewStreamShape DEF Located, TypeOK, Clients, Keys
  <1> HIDE DEF s
  <1>3. /\ streams' \in [Keys -> Stream \cup {None}]
        /\ streams'[b] = s
        /\ \A k \in Keys \ {b} : streams'[k] = streams[k]
    BY <1>1, <1>2 DEF TypeOK
  <1>4. \A v \in Browsers : Viewed(v)' = Viewed(v)
    BY <1>1, <1>2, <1>3 DEF Viewed
  <1>5. RegistryOK' /\ SessionsOK' /\ PlaceOK' /\ scan' \in ScanRecord /\ Located'
    BY <1>1, <1>3 DEF TypeOK, RegistryOK, SessionsOK, PlaceOK, ScanRecord, Located, Up
  <1>6. ServerOK'
    <2>1. CASE UNCHANGED <<live, missed, inbox>>
      BY <1>1, <2>1, Types DEF ServerOK, MissedOK
    <2>2. CASE ~UNCHANGED <<live, missed, inbox>>
      <3>1. PICK id \in Ids : /\ live' = [live EXCEPT ![id] = b]
                              /\ missed' = [missed EXCEPT ![id] = {}]
                              /\ inbox' = ToAll(inbox, <<Msg("started", id, b)>>)
        BY <2>2 DEF Start
      <3>2. Msg("started", id, b) \in Message
        BY MsgMessage DEF Clients
      <3>3. inbox' \in Inboxes
        BY <1>1, <3>1, <3>2, SentToAll, Types DEF ServerOK
      <3> QED BY <1>1, <3>1, <3>3 DEF TypeOK, ServerOK, MissedOK, Clients
    <2> QED BY <2>1, <2>2
  <1>7. ChannelIsolation'
    <2>1. \A v \in Browsers : streams'[v] # None => v \in Up' /\ streams'[v].channel = channel'[v]
      BY <1>1, <1>2, <1>3 DEF Agreement, ChannelIsolation, Up, Keys
    <2>2. \A v \in Browsers : \A k \in Viewed(v) : k # b /\ k \in Keys
      BY <1>1 DEF Viewed
    <2>3. \A v \in Browsers : \A k \in Viewed(v)' :
             v \in Up' /\ k # v /\ channel'[v] = streams'[k].channel
      BY <1>1, <1>3, <1>4, <2>2 DEF Agreement, ChannelIsolation, Up
    <2> QED BY <2>1, <2>3 DEF ChannelIsolation
  <1>8. Told' /\ RequestKept'
    BY <1>1, <1>4 DEF Agreement, Told, RequestKept
  <1> QED BY <1>5, <1>6, <1>7, <1>8, TypesNext DEF IInv, Agreement

LEMMA StopInv ==
    ASSUME IInv, NEW b \in Browsers, Stop(b)
    PROVE  IInv'
  <1>1. /\ Retire({b}, {}) /\ UNCHANGED <<sessions, scan, place>>
        /\ Send(Cleanups({b}, {}), Outdated({b}, {}), LateCleanups({b}))
        /\ TypeOK
    BY DEF Stop, IInv
  <1>2. SessionsOK' /\ RegistryOK' /\ Located' /\ Agreement'
    BY <1>1, RetiredInv
  <1>3. ServerOK'
    BY <1>1, LateCleanupsShape, RetireSendInv
  <1>4. PlaceOK' /\ scan' \in ScanRecord
    BY <1>1 DEF TypeOK, PlaceOK, ScanRecord
  <1> QED BY <1>2, <1>3, <1>4, TypesNext DEF IInv

LEMMA LeaveInv ==
    ASSUME IInv, NEW b \in Browsers, NEW k \in Keys, Leave(b, k)
    PROVE  IInv'
  <1>1. /\ Retire({}, {<<b, k>>}) /\ UNCHANGED <<sessions, scan, place>>
        /\ Send(Cleanups({}, {<<b, k>>}), Outdated({}, {<<b, k>>}), retry)
        /\ TypeOK /\ retry \in SUBSET Cleanup
    BY DEF Leave, IInv, TypeOK
  <1>2. SessionsOK' /\ RegistryOK' /\ Located' /\ Agreement'
    BY <1>1, RetiredInv
  <1>3. ServerOK'
    BY <1>1, RetireSendInv
  <1>4. PlaceOK' /\ scan' \in ScanRecord
    BY <1>1 DEF TypeOK, PlaceOK, ScanRecord
  <1> QED BY <1>2, <1>3, <1>4, TypesNext DEF IInv

(* The browser is in the channel of what it asks for. *)
LEMMA JoinInv ==
    ASSUME IInv, NEW b \in Browsers, NEW k \in Keys, Join(b, k)
    PROVE  IInv'
  <1> DEFINE set == streams[k].viewers \cup {b}
  <1>1. /\ b \in Up /\ streams[k] # None /\ k # b /\ streams[k].channel = channel[b]
        /\ viewing' = [viewing EXCEPT ![b] = @ \cup {k}]
        /\ UNCHANGED <<session, channel, directory, scan, retry, place, live, missed>>
        /\ TypeOK /\ RegistryOK /\ Agreement /\ Located
    BY Types DEF Join, sessions, IInv
  <1>2. streams[k] \in Stream
    BY <1>1, EntryShape
  <1>3. set \in SUBSET Browsers
    BY <1>2, StreamShape
  <1>4. /\ streams' \in [Keys -> Stream \cup {None}]
        /\ streams'[k] # None /\ streams'[k].viewers = set
        /\ streams'[k].channel = streams[k].channel
        /\ \A i \in Keys \ {k} : streams'[i] = streams[i]
    <2> PICK s \in Stream : s = streams[k]
      BY <1>2
    <2> DEFINE r == [s EXCEPT !.viewers = set]
    <2>1. streams' = [streams EXCEPT ![k] = r]
      BY DEF Join
    <2> HIDE DEF set
    <2>2. r \in Stream /\ r.viewers = set /\ r.channel = s.channel
      BY <1>3, ViewersSet
    <2> HIDE DEF r
    <2> QED BY <1>1, <2>1, <2>2, StreamAssumption DEF RegistryOK
  <1> HIDE DEF set
  <1>5. /\ Viewed(b)' = Viewed(b) \cup {k}
        /\ \A v \in Browsers \ {b} : Viewed(v)' = Viewed(v)
    BY <1>1, <1>4 DEF Viewed, set
  <1>6. SessionsOK' /\ PlaceOK' /\ scan' \in ScanRecord /\ Located'
    BY <1>1 DEF TypeOK, SessionsOK, PlaceOK, ScanRecord, Located, Up
  <1>7. \/ /\ k \in Browsers /\ UNCHANGED <<requested, audience, inbox>>
        \/ /\ k \in Ids /\ requested' = [requested EXCEPT ![b] = @ \cup {k}]
           /\ \/ audience' = [audience EXCEPT ![k] = @ \cup {b}] /\ inbox' = inbox
              \/ /\ inbox' = [inbox EXCEPT ![b] = Append(@, Msg("joinRefused", k, None))]
                 /\ audience' = audience
    BY DEF Join, Keys
  <1>8. viewing' \in [Browsers -> SUBSET Keys] /\ requested' \in [Browsers -> SUBSET Ids]
    BY <1>1, <1>7 DEF RegistryOK
  <1>9. RegistryOK'
    BY <1>4, <1>8 DEF RegistryOK
  <1>10. ServerOK'
    <2>1. inbox \in Inboxes /\ audience \in [Ids -> SUBSET Clients]
      BY <1>1, Types DEF ServerOK
    <2>2. audience' \in [Ids -> SUBSET Clients]
      BY <1>7, <2>1 DEF Clients
    <2>3. CASE inbox' = inbox
      BY <1>1, <2>1, <2>2, <2>3, Types DEF ServerOK, MissedOK
    <2>4. CASE inbox' # inbox
      <3>1. k \in Ids /\ inbox' = [inbox EXCEPT ![b] = Append(@, Msg("joinRefused", k, None))]
        BY <1>7, <2>4
      <3>2. Msg("joinRefused", k, None) \in Message
        BY <3>1, MsgMessage
      <3>3. inbox' \in Inboxes
        BY <2>1, <3>1, <3>2 DEF Inboxes
      <3> QED BY <1>1, <2>2, <3>3, Types DEF ServerOK, MissedOK
    <2> QED BY <2>3, <2>4
  <1>11. ChannelIsolation'
    <2>1. \A v \in Browsers : streams'[v] # None => v \in Up' /\ streams'[v].channel = channel'[v]
      BY <1>1, <1>4 DEF Agreement, ChannelIsolation, Up, Keys
    <2>2. \A v \in Browsers : \A i \in Viewed(v) : i \in Keys
      BY DEF Viewed
    <2>3. \A v \in Browsers : \A i \in Viewed(v)' :
             v \in Up' /\ i # v /\ channel'[v] = streams'[i].channel
      BY <1>1, <1>4, <1>5, <2>2 DEF Agreement, ChannelIsolation, Up
    <2> QED BY <2>1, <2>3 DEF ChannelIsolation
  <1>12. Told'
    BY <1>1, <1>5 DEF Agreement, Told, RegistryOK
  <1>13. RequestKept'
    BY <1>1, <1>5, <1>7 DEF Agreement, RequestKept, RegistryOK
  <1> QED BY <1>6, <1>9, <1>10, <1>11, <1>12, <1>13, TypesNext DEF IInv, Agreement

\* Steps that leave the sessions and the registry alone.
LEMMA ServerStepInv ==
    ASSUME IInv, UNCHANGED <<sessions, registry>>, ServerOK', PlaceOK', scan' \in ScanRecord
    PROVE  IInv'
  BY RegistryKept, TypesNext DEF IInv

LEMMA ScanPlaceKept ==
    ASSUME IInv
    PROVE  /\ UNCHANGED scan => scan' \in ScanRecord
           /\ UNCHANGED place => PlaceOK'
  BY Types DEF IInv, PlaceOK

LEMMA ExpelledShape ==
    ASSUME TypeOK, NEW b \in Browsers, NEW id \in Ids, NEW n \in Natives,
           NEW current \in BOOLEAN, Expelled(b, id, n, current)
    PROVE  audience' \in [Ids -> SUBSET Clients] /\ inbox' \in Inboxes
  <1>1. inbox \in Inboxes /\ audience \in [Ids -> SUBSET Clients]
    BY Types DEF ServerOK
  <1>2. audience' \in [Ids -> SUBSET Clients]
    BY <1>1 DEF Expelled
  <1> DEFINE left == IF n \in audience[id] THEN <<Msg("clientLeft", id, n)>> ELSE <<>>
             told == <<[Msg("removed", id, n) EXCEPT !.current = current]>>
  <1>3. left \in Seq(Message) /\ told \in Seq(Message)
    <2>1. /\ Msg("clientLeft", id, n) \in Message
          /\ [Msg("removed", id, n) EXCEPT !.current = current] \in Message
      BY MsgMessage
    <2> QED BY <2>1
  <1>4. inbox' = [inbox EXCEPT ![b] = @ \o left \o told]
    BY DEF Expelled
  <1> HIDE DEF left, told
  <1>5. inbox' \in Inboxes
    BY <1>1, <1>3, <1>4 DEF Inboxes
  <1> QED BY <1>2, <1>5

LEMMA EvictInv ==
    ASSUME IInv, NEW b \in Browsers, NEW n \in Natives, Evict(b, n)
    PROVE  IInv'
  <1> DEFINE id == streams[b].link
  <1>1. /\ streams[b] # None /\ id # None /\ TypeOK /\ ServerOK
        /\ UNCHANGED <<sessions, registry, scan, place, live>>
    BY Types DEF Evict, IInv
  <1>2. id \in Ids
    BY <1>1, EntryShape, StreamShape DEF Keys
  <1>3. ServerOK'
    <2>1. CASE Expelled(b, id, n, TRUE) /\ UNCHANGED <<retry, missed>>
      BY <1>1, <1>2, <2>1, ExpelledShape DEF ServerOK, MissedOK
    <2>2. CASE /\ retry' = retry \cup {[by |-> b, id |-> id, of |-> n, current |-> TRUE]}
               /\ missed' = Miss({id}, "flooded")
               /\ UNCHANGED <<audience, inbox>>
      <3>1. [by |-> b, id |-> id, of |-> n, current |-> TRUE] \in Cleanup
        BY <1>2 DEF Cleanup, Clients
      <3>2. MissedOK'
        BY <1>1, <2>2, MissShape DEF ServerOK, MissedOK
      <3> QED BY <1>1, <2>2, <3>1, <3>2 DEF ServerOK
    <2> QED BY <2>1, <2>2 DEF Evict
  <1> QED BY <1>1, <1>3, ServerStepInv, ScanPlaceKept

LEMMA ResendInv ==
    ASSUME IInv, NEW c \in retry, Resend(c)
    PROVE  IInv'
  <1>1. /\ TypeOK /\ ServerOK /\ c \in Cleanup
        /\ retry' = retry \ {c}
        /\ UNCHANGED <<sessions, registry, scan, place>>
    BY Types DEF Resend, IInv, ServerOK
  <1>2. c.by \in Browsers /\ c.id \in Ids /\ c.current \in BOOLEAN
    BY <1>1 DEF Cleanup
  <1>3. ServerOK'
    <2>1. CASE /\ c.of \in Natives
               /\ Expelled(c.by, c.id, c.of, c.current)
               /\ UNCHANGED <<live, missed>>
      BY <1>1, <1>2, <2>1, ExpelledShape DEF ServerOK, MissedOK
    <2>2. CASE /\ audience' = [audience EXCEPT ![c.id] = @ \ {c.of}]
               /\ UNCHANGED <<live, inbox, missed>>
      BY <1>1, <1>2, <2>2 DEF ServerOK, MissedOK
    <2>3. CASE /\ live' = [live EXCEPT ![c.id] = None]
               /\ audience' = [audience EXCEPT ![c.id] = {}]
               /\ inbox' = ToAll(inbox, <<Msg("stopped", c.id, None)>>)
               /\ missed' = missed
      <3>1. inbox' \in Inboxes
        BY <1>1, <1>2, <2>3, MsgMessage, SentToAll DEF ServerOK
      <3> QED BY <1>1, <1>2, <2>3, <3>1 DEF ServerOK, MissedOK
    <2>4. CASE /\ missed' = IF live[c.id] # None THEN Miss({c.id}, "abandoned") ELSE missed
               /\ UNCHANGED <<live, audience, inbox>>
      <3>1. MissedOK'
        BY <1>1, <2>4, MissShape DEF ServerOK, MissedOK
      <3> QED BY <1>1, <2>4, <3>1 DEF ServerOK
    <2> QED BY <2>1, <2>2, <2>3, <2>4 DEF Resend
  <1> QED BY <1>1, <1>3, ServerStepInv, ScanPlaceKept

-----------------------------------------------------------------------------
(* The TeamSpeak server and discovery. *)

LEMMA PublishInv ==
    ASSUME IInv, NEW n \in Natives, NEW id \in Ids, Publish(n, id)
    PROVE  IInv'
  <1>1. /\ ServerOK
        /\ live' = [live EXCEPT ![id] = n]
        /\ missed' = [missed EXCEPT ![id] = {}]
        /\ inbox' = ToAll(inbox, <<Msg("started", id, n)>>)
        /\ UNCHANGED <<sessions, registry, scan, retry, place, audience>>
    BY Types DEF Publish, IInv
  <1>2. inbox' \in Inboxes
    BY <1>1, MsgMessage, SentToAll DEF ServerOK, Clients
  <1>3. ServerOK'
    BY <1>1, <1>2 DEF ServerOK, MissedOK, Clients
  <1> QED BY <1>1, <1>3, ServerStepInv, ScanPlaceKept

LEMMA EndStreamInv ==
    ASSUME IInv, NEW id \in Ids, EndStream(id)
    PROVE  IInv'
  <1>1. /\ ServerOK
        /\ live' = [live EXCEPT ![id] = None]
        /\ audience' = [audience EXCEPT ![id] = {}]
        /\ inbox' = ToAll(inbox, <<Msg("stopped", id, None)>>)
        /\ missed' = IF Up = {} THEN Miss({id}, "end") ELSE missed
        /\ UNCHANGED <<sessions, registry, scan, retry, place>>
    BY Types DEF EndStream, IInv
  <1>2. inbox' \in Inboxes
    BY <1>1, MsgMessage, SentToAll DEF ServerOK
  <1>3. MissedOK'
    BY <1>1, MissShape DEF ServerOK, MissedOK
  <1>4. ServerOK'
    BY <1>1, <1>2, <1>3 DEF ServerOK
  <1> QED BY <1>1, <1>4, ServerStepInv, ScanPlaceKept

LEMMA NativeMoveInv ==
    ASSUME IInv, NEW n \in Natives, NEW ch \in Channels \cup {None}, NativeMove(n, ch)
    PROVE  IInv'
  <1> DEFINE own == {id \in Ids : live[id] = n}
             stale == {id \in Ids : streams[id] # None /\ streams[id].src = n}
  <1>1. /\ ServerOK /\ PlaceOK
        /\ place' = [place EXCEPT ![n] = ch]
        /\ UNCHANGED <<sessions, registry, scan, retry>>
    BY Types DEF NativeMove, IInv
  <1>2. /\ live' = [id \in Ids |-> IF id \in own /\ ch = None THEN None ELSE live[id]]
        /\ audience' = [id \in Ids |-> IF id \in own THEN {} ELSE audience[id]]
        /\ missed' = [id \in Ids |-> missed[id]
              \cup (IF id \in own THEN {"start"} ELSE {})
              \cup {"end" : i \in IF Up = {} THEN (own \cup stale) \cap {id} ELSE {}}]
    BY DEF NativeMove
  <1>3. \E inb \in IF ch = None THEN Ends(inbox, own) ELSE {inbox} :
           inbox' = ToAll(inb, <<Msg("at", ch, n)>>)
    BY DEF NativeMove
  <1>4. own \in SUBSET Ids
    OBVIOUS
  <1> HIDE DEF own, stale
  <1>5. inbox' \in Inboxes
    <2>1. inbox \in Inboxes
      BY <1>1 DEF ServerOK
    <2>2. PICK inb \in Inboxes : inbox' = ToAll(inb, <<Msg("at", ch, n)>>)
      BY <1>3, <1>4, <2>1, EndsShape
    <2> QED BY <2>2, AtMessage, SentToAll
  <1>6. live' \in [Ids -> Clients \cup {None}] /\ audience' \in [Ids -> SUBSET Clients]
    BY <1>1, <1>2 DEF ServerOK
  <1>7. MissedOK'
    BY <1>1, <1>2 DEF ServerOK, MissedOK
  <1>8. ServerOK' /\ PlaceOK'
    BY <1>1, <1>5, <1>6, <1>7 DEF ServerOK, PlaceOK
  <1> QED BY <1>1, <1>8, ServerStepInv, ScanPlaceKept

\* A native user joins or leaves a stream of a browser.
LEMMA AudienceInv ==
    ASSUME IInv, NEW n \in Natives, NEW id \in Ids, Watch(n, id) \/ Unwatch(n, id)
    PROVE  IInv'
  <1>1. /\ ServerOK
        /\ UNCHANGED <<sessions, registry, scan, retry, place, live, missed>>
    BY Types DEF Watch, Unwatch, IInv
  <1>2. audience' \in [Ids -> SUBSET Clients]
    BY <1>1 DEF Watch, Unwatch, ServerOK, Clients
  <1>3. PICK m \in Message : inbox' = [inbox EXCEPT ![live[id]] = Append(@, m)]
    BY MsgMessage DEF Watch, Unwatch
  <1>4. inbox' \in Inboxes
    <2>1. inbox \in Inboxes
      BY <1>1 DEF ServerOK
    <2> DEFINE b == live[id]
               q == Append(inbox[b], m)
    <2>2. inbox' = [inbox EXCEPT ![b] = q]
      BY <1>3
    <2>3. b \in Browsers => q \in Seq(Message)
      BY <2>1 DEF Inboxes
    <2> HIDE DEF b, q
    <2> QED BY <2>1, <2>2, <2>3 DEF Inboxes
  <1>5. ServerOK'
    BY <1>1, <1>2, <1>4 DEF ServerOK, MissedOK
  <1> QED BY <1>1, <1>5, ServerStepInv, ScanPlaceKept

LEMMA ScanAskInv ==
    ASSUME IInv, NEW c \in Clients, ScanAsk(c)
    PROVE  IInv'
  <1> DEFINE own == {id \in Ids : live[id] = c}
  <1>1. /\ ServerOK /\ scan \in ScanRecord /\ scan.by \in Up
        /\ UNCHANGED <<sessions, registry, retry, place, live, audience>>
    BY Types DEF ScanAsk, IInv
  <1>2. own \in SUBSET Ids
    OBVIOUS
  <1>3. /\ \/ inbox' = inbox
           \/ \E order \in SetToSeqs(own) :
                 inbox' = [inbox EXCEPT ![scan.by] = @ \o Notices("started", order, c)]
        /\ \/ missed' = [id \in Ids |-> missed[id] \ {"start" : i \in own \cap {id}}]
           \/ missed' = missed
           \/ missed' = Miss(own, "start")
    BY DEF ScanAsk
  <1> HIDE DEF own
  <1>4. inbox' \in Inboxes
    <2>1. inbox \in Inboxes
      BY <1>1 DEF ServerOK
    <2>2. ASSUME NEW order \in SetToSeqs(own),
                 inbox' = [inbox EXCEPT ![scan.by] = @ \o Notices("started", order, c)]
          PROVE  inbox' \in Inboxes
      <3> DEFINE b == scan.by
                 q == inbox[b] \o Notices("started", order, c)
      <3>1. Notices("started", order, c) \in Seq(Message)
        BY <1>2, NoticesShape
      <3>2. b \in Browsers
        BY <1>1 DEF Up
      <3>3. q \in Seq(Message)
        BY <2>1, <3>1, <3>2 DEF Inboxes
      <3>4. inbox' = [inbox EXCEPT ![b] = q]
        BY <2>2
      <3> HIDE DEF b, q
      <3> QED BY <2>1, <3>3, <3>4 DEF Inboxes
    <2> QED BY <1>3, <2>1, <2>2
  <1>5. MissedOK'
    BY <1>1, <1>3, MissShape DEF ServerOK, MissedOK
  <1>6. scan' \in ScanRecord
    <2>1. [scan EXCEPT !.todo = @ \ {c}] \in ScanRecord
      BY <1>1 DEF ScanRecord
    <2>2. scan.next \in Browsers \cup {None, Gone}
      BY <1>1 DEF ScanRecord
    <2>3. scan' \in Passes(scan.next) \/ scan' = [scan EXCEPT !.todo = @ \ {c}]
      BY DEF ScanAsk
    <2> QED BY <2>1, <2>2, <2>3, PassesShape
  <1>7. ServerOK'
    BY <1>1, <1>4, <1>5 DEF ServerOK
  <1> QED BY <1>1, <1>6, <1>7, ServerStepInv, ScanPlaceKept

LEMMA ScanBreakInv ==
    ASSUME IInv, ScanBreak
    PROVE  IInv'
  <1>1. /\ ServerOK /\ scan \in ScanRecord
        /\ UNCHANGED <<sessions, registry, inbox, retry, place, live, audience>>
        /\ scan' \in Passes(scan.next)
    BY Types DEF ScanBreak, BrokenPass, IInv
  <1>2. MissedOK'
    BY <1>1, MissShape DEF ScanBreak, BrokenPass, ServerOK, MissedOK
  <1>3. ServerOK'
    BY <1>1, <1>2 DEF ServerOK
  <1>4. scan' \in ScanRecord
    BY <1>1, PassesShape DEF ScanRecord
  <1> QED BY <1>1, <1>3, <1>4, ServerStepInv, ScanPlaceKept

-----------------------------------------------------------------------------
(* Notifications and answers. *)

LEMMA HandledShape ==
    ASSUME IInv, NEW b \in Browsers, inbox[b] # <<>>
    PROVE  /\ TypeOK /\ RegistryOK /\ ServerOK /\ Agreement
           /\ Head(inbox[b]) \in Message
           /\ Rest(inbox, b) \in Inboxes
           /\ \A stops, leaves : Rest(Outdated(stops, leaves), b) \in Inboxes
           /\ retry \in SUBSET Cleanup
  <1>1. TypeOK /\ RegistryOK /\ ServerOK /\ Agreement
    BY Types DEF IInv
  <1>2. Rest(inbox, b) \in Inboxes
    BY <1>1, RestShape DEF ServerOK
  <1>3. \A stops, leaves : Rest(Outdated(stops, leaves), b) \in Inboxes
    BY <1>1, OutdatedShape, RestShape
  <1> QED BY <1>1, <1>2, <1>3, HeadShape DEF ServerOK

\* Handlers that touch the streams only, in nothing the invariant is about.
LEMMA AlteredStepInv ==
    ASSUME IInv, ServerOK', UNCHANGED <<sessions, viewing, requested, scan, place>>, StreamsAltered
    PROVE  IInv'
  BY AlteredInv, TypesNext, ScanPlaceKept DEF IInv

\* One stream is altered: the condition of the previous lemma.
LEMMA OneAltered ==
    ASSUME RegistryOK, NEW key \in Keys, NEW r, Altered(r, streams[key]), streams[key] # None,
           streams' = [streams EXCEPT ![key] = r]
    PROVE  StreamsAltered
  BY DEF RegistryOK, StreamsAltered

LEMMA StreamsKept ==
    ASSUME RegistryOK, UNCHANGED streams
    PROVE  StreamsAltered
  BY DEF RegistryOK, StreamsAltered

LEMMA InboxOnly ==
    ASSUME ServerOK, inbox' \in Inboxes, UNCHANGED <<retry, live, audience>>,
           missed' = missed \/ \E ids : missed' = Miss(ids, "moved") \/ missed' = Miss(ids, "crossed")
    PROVE  ServerOK'
  BY MissShape DEF ServerOK, MissedOK

LEMMA OwnStartedInv ==
    ASSUME IInv, NEW b \in Browsers, OwnStarted(b)
    PROVE  IInv'
  <1> DEFINE m == Head(inbox[b])
  <1>1. /\ inbox[b] # <<>> /\ m.type = "started" /\ m.of \in Browsers
        /\ UNCHANGED <<sessions, viewing, requested, scan, place>>
    BY DEF OwnStarted, Heads
  <1>2. /\ TypeOK /\ RegistryOK /\ ServerOK /\ m \in Message
        /\ Rest(inbox, b) \in Inboxes /\ retry \in SUBSET Cleanup
    BY <1>1, HandledShape
  <1>3. m.id \in Ids /\ m.of \in Keys
    BY <1>1, <1>2, MessageShape DEF Keys
  <1>4. CASE streams[m.of] # None /\ streams[m.of].link \in {None, m.id}
    <2>1. /\ streams' = [streams EXCEPT ![m.of].link = m.id]
          /\ inbox' = Rest(inbox, b)
          /\ UNCHANGED <<live, audience, retry, missed>>
      BY <1>4 DEF OwnStarted
    <2>2. ServerOK'
      BY <1>2, <2>1, InboxOnly
    <2>3. PICK s \in Stream : s = streams[m.of]
      BY <1>2, <1>3, <1>4, EntryShape
    <2> DEFINE r == [s EXCEPT !.link = m.id]
    <2>4. streams' = [streams EXCEPT ![m.of] = r]
      BY <2>1, <2>3
    <2>5. Altered(r, s)
      BY <1>3, LinkSet
    <2> HIDE DEF r, m
    <2> QED BY <1>1, <1>2, <1>3, <1>4, <2>2, <2>3, <2>4, <2>5, OneAltered, AlteredStepInv
  <1>5. CASE ~(streams[m.of] # None /\ streams[m.of].link \in {None, m.id})
    <2> DEFINE cmd == [by |-> m.of, id |-> m.id, of |-> None, current |-> TRUE]
    <2>1. /\ Send({cmd}, Rest(inbox, b), retry)
          /\ UNCHANGED streams
      BY <1>5 DEF OwnStarted
    <2>2. cmd \in Cleanup
      BY <1>1, <1>3 DEF Cleanup
    <2>3. {cmd} \in SUBSET Cleanup
      BY <2>2
    <2> HIDE DEF cmd
    <2>4. ServerOK'
      BY <1>2, <2>1, <2>3, SendInv
    <2> QED BY <1>1, <1>2, <2>1, <2>4, StreamsKept, AlteredStepInv
  <1> QED BY <1>4, <1>5

LEMMA SourceChannelsShape ==
    ASSUME TypeOK, NEW b \in Browsers, NEW m, m.of \in Clients, NEW ch \in SourceChannels(b, m)
    PROVE  ch \in Channels \cup {None}
  BY DEF SourceChannels, TypeOK, Up, Clients

(* A card is created, or re-created in the channel that its source has moved to:
   its viewers leave. *)
LEMMA CardStartedInv ==
    ASSUME IInv, NEW b \in Browsers, CardStarted(b)
    PROVE  IInv'
  <1> DEFINE m == Head(inbox[b])
             old == streams[m.id]
  <1>1. inbox[b] # <<>> /\ m.type = "started" /\ UNCHANGED <<sessions, scan, place>>
    BY DEF CardStarted, Heads
  <1>2. /\ TypeOK /\ RegistryOK /\ ServerOK /\ Agreement /\ m \in Message
        /\ Rest(inbox, b) \in Inboxes /\ retry \in SUBSET Cleanup
        /\ \A stops, leaves : Rest(Outdated(stops, leaves), b) \in Inboxes
    BY <1>1, HandledShape
  <1>3. m.id \in Ids /\ m.of \in Clients /\ m.id \in Keys /\ m.id \notin Browsers
    BY <1>1, <1>2, MessageShape, ClientsAssumption DEF Keys
  <1>4. PICK ch \in SourceChannels(b, m) :
          IF ch = None
          THEN /\ inbox' = Rest(inbox, b)
               /\ missed' = IF m.of \in Natives THEN Miss({m.id}, "start") ELSE missed
               /\ UNCHANGED <<registry, live, audience, retry>>
          ELSE LET moved == old # None /\ old.channel # ch
                   stops == IF moved THEN {m.id} ELSE {}
                   leaves == IF moved THEN old.viewers \X {m.id} ELSE {} IN
               /\ streams' = [Retired(stops, leaves) EXCEPT
                     ![m.id] = IF @ = None THEN NewStream(m.of, ch) ELSE [@ EXCEPT !.src = m.of]]
               /\ Tell(stops, leaves)
               /\ Send(Cleanups(stops, leaves), Rest(Outdated(stops, leaves), b), retry)
    BY DEF CardStarted
  <1>5. CASE ch = None
    <2>1. /\ inbox' = Rest(inbox, b)
          /\ missed' = IF m.of \in Natives THEN Miss({m.id}, "start") ELSE missed
          /\ UNCHANGED <<registry, live, audience, retry>>
      BY <1>4, <1>5
    <2>2. MissedOK'
      BY <1>2, <2>1, MissShape DEF ServerOK, MissedOK
    <2>3. ServerOK'
      BY <1>2, <2>1, <2>2 DEF ServerOK
    <2> QED BY <1>1, <2>1, <2>3, ServerStepInv, ScanPlaceKept
  <1>6. CASE ch # None
    <2> DEFINE moved == old # None /\ old.channel # ch
               stops == IF moved THEN {m.id} ELSE {}
               leaves == IF moved THEN old.viewers \X {m.id} ELSE {}
               kept == Retired(stops, leaves)
               r == IF kept[m.id] = None THEN NewStream(m.of, ch)
                    ELSE [kept[m.id] EXCEPT !.src = m.of]
    <2>1. /\ streams' = [kept EXCEPT ![m.id] = r]
          /\ Tell(stops, leaves)
          /\ Send(Cleanups(stops, leaves), Rest(Outdated(stops, leaves), b), retry)
      BY <1>4, <1>6
    <2>2. ServerOK'
      BY <1>2, <2>1, CleanupsShape, SendInv
    <2>3. ch \in Channels
      BY <1>2, <1>3, <1>6, SourceChannelsShape
    <2>4. \A k \in Keys :
             /\ kept[k] \in Stream \cup {None}
             /\ kept[k] # None <=> k \notin stops /\ streams[k] # None
             /\ kept[k] # None =>
                   /\ kept[k].channel = streams[k].channel
                   /\ kept[k].viewers = {v \in streams[k].viewers : <<v, k>> \notin leaves}
      BY <1>2, RetiredShape
    <2>5. kept = [k \in Keys |-> kept[k]]
      BY DEF Retired
    <2>6. stops \subseteq {m.id}
      OBVIOUS
    <2>7. kept[m.id] # None => old # None /\ old.channel = ch
      BY <1>3, <2>4
    <2> HIDE DEF m, moved, stops, leaves, kept
    <2>8. /\ r \in Stream
          /\ kept[m.id] = None => r.viewers = {} /\ r.channel = ch
          /\ kept[m.id] # None => r.viewers = kept[m.id].viewers /\ r.channel = kept[m.id].channel
      <3>1. CASE kept[m.id] = None
        BY <1>3, <2>3, <3>1, NewStreamShape
      <3>2. CASE kept[m.id] # None
        <4>1. PICK s \in Stream : s = kept[m.id]
          BY <1>3, <2>4, <3>2
        <4>2. Altered([s EXCEPT !.src = m.of], s)
          BY <1>3, SourceSet
        <4>3. r = [s EXCEPT !.src = m.of]
          BY <3>2, <4>1
        <4> HIDE DEF r
        <4> QED BY <3>2, <4>1, <4>2, <4>3 DEF Altered
      <3> QED BY <3>1, <3>2
    <2> HIDE DEF r
    <2>9. /\ streams' \in [Keys -> Stream \cup {None}]
          /\ streams'[m.id] = r /\ r # None
          /\ \A k \in Keys \ {m.id} : streams'[k] = kept[k]
      <3>1. kept \in [Keys -> Stream \cup {None}]
        BY <2>4, <2>5
      <3> QED BY <1>3, <2>1, <2>8, <3>1, StreamAssumption
    <2>10. \A v \in Browsers : Viewed(v)' = Remaining(v, stops, leaves)
      <3>1. ASSUME NEW v \in Browsers, NEW k \in Keys
            PROVE  streams'[k] # None /\ v \in streams'[k].viewers <=>
                   /\ streams[k] # None /\ v \in streams[k].viewers
                   /\ k \notin stops /\ <<v, k>> \notin leaves
        <4>1. CASE k = m.id
          BY <2>4, <2>8, <2>9, <4>1
        <4>2. CASE k # m.id
          BY <2>4, <2>9, <4>2
        <4> QED BY <4>1, <4>2
      <3> QED BY <3>1 DEF Viewed, Remaining
    <2>11. /\ viewing' \in [Browsers -> SUBSET Keys]
           /\ requested' \in [Browsers -> SUBSET Ids]
           /\ Told' /\ RequestKept'
      BY <1>2, <2>1, <2>10, TellInv
    <2>12. \A k \in Keys : streams'[k] # None /\ (k \in Browsers \/ \E v \in Browsers : k \in Viewed(v)') =>
              streams[k] # None /\ streams'[k].channel = streams[k].channel
      <3> TAKE k \in Keys
      <3>1. CASE k # m.id
        BY <2>4, <2>9, <3>1
      <3>2. CASE k = m.id
        <4>1. ASSUME NEW v \in Browsers, k \in Viewed(v)'
              PROVE  kept[k] # None
          BY <2>8, <2>9, <3>2, <4>1 DEF Viewed
        <4>2. k \notin Browsers
          BY <1>3, <3>2
        <4> QED BY <2>4, <2>8, <2>9, <3>2, <4>1, <4>2
      <3> QED BY <3>1, <3>2
    <2>13. ChannelIsolation'
      BY <1>1, <1>2, <2>10, <2>12, StillIsolated DEF Agreement, Remaining
    <2>14. SessionsOK' /\ Located'
      BY <1>1, Types, StillLocated DEF IInv, SessionsOK, sessions
    <2>15. PlaceOK' /\ scan' \in ScanRecord
      BY <1>1, ScanPlaceKept
    <2> QED BY <2>2, <2>9, <2>11, <2>13, <2>14, <2>15, TypesNext
            DEF IInv, Agreement, RegistryOK
  <1> QED BY <1>5, <1>6

(* A card goes with its viewers; a share only loses its publication. *)
LEMMA StoppedNoticeInv ==
    ASSUME IInv, NEW b \in Browsers, StoppedNotice(b)
    PROVE  IInv'
  <1> DEFINE id == Head(inbox[b]).id
             cards == {k \in {id} : streams[k] # None}
             linked == {v \in Browsers : streams[v] # None /\ streams[v].link = id}
  <1>1. /\ inbox[b] # <<>> /\ Head(inbox[b]).type = "stopped"
        /\ inbox' = Rest(Outdated(cards, {}), b)
        /\ Tell(cards, {})
        /\ UNCHANGED <<sessions, scan, retry, place, live, audience, missed>>
    BY DEF StoppedNotice, Heads
  <1>2. /\ TypeOK /\ RegistryOK /\ ServerOK /\ Agreement /\ Head(inbox[b]) \in Message
        /\ \A stops, leaves : Rest(Outdated(stops, leaves), b) \in Inboxes
    BY <1>1, HandledShape
  <1>3. ServerOK'
    BY <1>1, <1>2, InboxOnly
  <1>4. id \in Ids
    BY <1>1, <1>2, MessageShape
  <1>5. CASE cards # {}
    <2>1. Retire(cards, {}) /\ UNCHANGED sessions
      BY <1>1, <1>5 DEF StoppedNotice, Retire
    <2>2. SessionsOK' /\ RegistryOK' /\ Located' /\ Agreement'
      BY <2>1, RetiredInv
    <2> QED BY <1>1, <1>3, <2>2, ScanPlaceKept, TypesNext DEF IInv
  <1>6. CASE cards = {}
    <2>1. streams' = [k \in Keys |-> IF k \in linked
                       THEN [streams[k] EXCEPT !.link = None, !.natives = {}] ELSE streams[k]]
      BY <1>6 DEF StoppedNotice
    <2>2. StreamsAltered
      <3>1. ASSUME NEW k \in Keys, streams'[k] # streams[k]
            PROVE  streams[k] # None /\ Altered(streams'[k], streams[k])
        <4>1. /\ streams[k] # None
              /\ streams'[k] = [streams[k] EXCEPT !.link = None, !.natives = {}]
          BY <2>1, <3>1
        <4>2. PICK s \in Stream : s = streams[k]
          BY <1>2, <4>1, EntryShape
        <4>3. streams'[k] = [s EXCEPT !.link = None, !.natives = {}]
          BY <4>1, <4>2
        <4>4. Altered([s EXCEPT !.link = None, !.natives = {}], s)
          BY Unlinked
        <4> QED BY <4>1, <4>2, <4>3, <4>4
      <3> QED BY <2>1, <3>1 DEF StreamsAltered
    <2>3. \A v \in Browsers : Viewed(v)' = Viewed(v)
      BY <1>2, <2>2, StreamAssumption DEF StreamsAltered, Altered, Viewed, RegistryOK
    <2>4. \A v \in Browsers : Viewed(v)' = Remaining(v, cards, {})
      BY <1>6, <2>3 DEF Remaining
    <2>5. /\ viewing' \in [Browsers -> SUBSET Keys]
          /\ requested' \in [Browsers -> SUBSET Ids]
          /\ Told' /\ RequestKept'
      BY <1>1, <1>2, <2>4, TellInv
    <2>6. \A k \in Keys : /\ streams'[k] \in Stream \cup {None}
                          /\ streams'[k] # None <=> streams[k] # None
                          /\ streams'[k] # None => streams'[k].channel = streams[k].channel
      BY <1>2, <2>2, StreamAssumption DEF StreamsAltered, Altered, RegistryOK
    <2>7. ChannelIsolation'
      BY <1>1, <1>2, <2>3, <2>6, StillIsolated DEF Agreement
    <2>8. RegistryOK'
      BY <2>1, <2>5, <2>6 DEF RegistryOK
    <2>9. SessionsOK' /\ Located'
      BY <1>1, Types, StillLocated DEF IInv, SessionsOK, sessions
    <2> QED BY <1>1, <1>3, <2>5, <2>7, <2>8, <2>9, ScanPlaceKept, TypesNext
            DEF IInv, Agreement
  <1> QED BY <1>5, <1>6

LEMMA AtNoticeInv ==
    ASSUME IInv, NEW b \in Browsers, AtNotice(b)
    PROVE  IInv'
  <1> DEFINE m == Head(inbox[b])
  <1>1. PICK stops \in SUBSET Ids :
          /\ Retire(stops, {})
          /\ inbox' = Rest(Outdated(stops, {}), b)
          /\ missed' = Miss(stops, "moved")
    BY DEF AtNotice
  <1>2. /\ inbox[b] # <<>> /\ m.type = "at"
        /\ directory' = [directory EXCEPT ![b][m.of] = m.id]
        /\ UNCHANGED <<session, channel, scan, retry, place, live, audience>>
    BY DEF AtNotice, Heads
  <1>3. /\ TypeOK /\ ServerOK /\ Agreement /\ m \in Message
        /\ Rest(Outdated(stops, {}), b) \in Inboxes
    BY <1>2, HandledShape
  <1>4. m.id \in Channels \cup {None} /\ m.of \in Natives
    BY <1>2, <1>3, MessageShape
  <1>5. ServerOK'
    BY <1>1, <1>2, <1>3, InboxOnly
  <1>6. SessionsOK'
    <2> HIDE DEF m
    <2> QED BY <1>2, <1>3, <1>4, Types DEF SessionsOK
  <1>7. /\ RegistryOK' /\ Told' /\ RequestKept'
        /\ \A v \in Browsers : Viewed(v)' = Remaining(v, stops, {})
        /\ \A k \in Keys : streams'[k] # None =>
              streams[k] # None /\ streams'[k].channel = streams[k].channel
    BY <1>1, <1>3, RetireInv
  <1>8. Up' = Up /\ Located'
    BY <1>2 DEF IInv, Located, Up
  <1>9. ChannelIsolation'
    <2>1. \A v \in Browsers : streams'[v] # None => v \in Up' /\ streams'[v].channel = channel'[v]
      BY <1>2, <1>3, <1>7, <1>8 DEF Agreement, ChannelIsolation, Keys
    <2>2. \A v \in Browsers : \A k \in Viewed(v)' :
             v \in Up' /\ k # v /\ channel'[v] = streams'[k].channel
      <3> TAKE v \in Browsers
      <3> TAKE k \in Viewed(v)'
      <3>1. k \in Viewed(v)
        BY <1>7 DEF Remaining
      <3>2. k \in Keys /\ streams'[k] # None
        BY DEF Viewed
      <3> QED BY <1>2, <1>3, <1>7, <1>8, <3>1, <3>2 DEF Agreement, ChannelIsolation
    <2> QED BY <2>1, <2>2 DEF ChannelIsolation
  <1> QED BY <1>2, <1>5, <1>6, <1>7, <1>8, <1>9, ScanPlaceKept, TypesNext DEF IInv, Agreement

\* The owner's handlers of the natives that watch its share.
LEMMA AudienceNoticeInv ==
    ASSUME IInv, NEW b \in Browsers, JoinAskedNotice(b) \/ RemovedAnswer(b)
    PROVE  IInv'
  <1> DEFINE m == Head(inbox[b])
  <1>1. /\ inbox[b] # <<>> /\ m.type \in {"joinAsked", "removed"}
        /\ inbox' = Rest(inbox, b)
        /\ UNCHANGED <<sessions, viewing, requested, scan, retry, place, live, audience>>
        /\ missed' = missed \/ \E ids : missed' = Miss(ids, "crossed")
    BY DEF JoinAskedNotice, RemovedAnswer, Heads
  <1>2. TypeOK /\ RegistryOK /\ ServerOK /\ m \in Message /\ Rest(inbox, b) \in Inboxes
    BY <1>1, HandledShape
  <1>3. m.of \in Natives /\ b \in Keys
    BY <1>1, <1>2, MessageShape DEF Keys
  <1>4. ServerOK'
    BY <1>1, <1>2, InboxOnly
  <1>5. \/ streams' = streams
        \/ /\ streams[b] # None
           /\ \/ streams' = [streams EXCEPT ![b].natives = @ \cup {m.of}]
              \/ streams' = [streams EXCEPT ![b].natives = @ \ {m.of}]
    BY DEF JoinAskedNotice, RemovedAnswer
  <1> HIDE DEF m
  <1>6. StreamsAltered
    <2>1. CASE streams' = streams
      BY <1>2, <2>1, StreamsKept
    <2>2. CASE streams' # streams
      <3>1. streams[b] # None
        BY <1>5, <2>2
      <3>2. PICK s \in Stream : s = streams[b]
        BY <1>2, <1>3, <3>1, EntryShape
      <3>3. PICK set \in SUBSET Natives : streams' = [streams EXCEPT ![b] = [s EXCEPT !.natives = set]]
        <4>1. s.natives \cup {m.of} \in SUBSET Natives /\ s.natives \ {m.of} \in SUBSET Natives
          BY <1>3, StreamShape
        <4>2. \/ streams' = [streams EXCEPT ![b] = [s EXCEPT !.natives = s.natives \cup {m.of}]]
              \/ streams' = [streams EXCEPT ![b] = [s EXCEPT !.natives = s.natives \ {m.of}]]
          BY <1>5, <2>2, <3>2
        <4> QED BY <4>1, <4>2
      <3> DEFINE r == [s EXCEPT !.natives = set]
      <3>4. Altered(r, s)
        BY NativesSet
      <3>5. streams' = [streams EXCEPT ![b] = r]
        BY <3>3
      <3> HIDE DEF r
      <3> QED BY <1>2, <1>3, <3>1, <3>2, <3>4, <3>5, OneAltered
    <2> QED BY <2>1, <2>2
  <1> QED BY <1>1, <1>4, <1>6, AlteredStepInv

LEMMA ClientLeftNoticeInv ==
    ASSUME IInv, NEW b \in Browsers, ClientLeftNotice(b)
    PROVE  IInv'
  <1> DEFINE m == Head(inbox[b])
  <1>1. /\ inbox[b] # <<>> /\ inbox' = Rest(inbox, b)
        /\ UNCHANGED <<sessions, viewing, requested, scan, retry, place, live, audience, missed>>
    BY DEF ClientLeftNotice, Heads
  <1>2. TypeOK /\ RegistryOK /\ ServerOK /\ Rest(inbox, b) \in Inboxes
    BY <1>1, HandledShape
  <1>3. ServerOK'
    BY <1>1, <1>2, InboxOnly
  <1>4. streams' = [k \in Keys |-> IF k \in Browsers /\ streams[k] # None /\ streams[k].link = m.id
                     THEN [streams[k] EXCEPT !.natives = @ \ {m.of}] ELSE streams[k]]
    BY DEF ClientLeftNotice
  <1> HIDE DEF m
  <1>5. StreamsAltered
    <2>1. ASSUME NEW k \in Keys, streams'[k] # streams[k]
          PROVE  streams[k] # None /\ Altered(streams'[k], streams[k])
      <3>1. /\ streams[k] # None
            /\ streams'[k] = [streams[k] EXCEPT !.natives = @ \ {m.of}]
        BY <1>4, <2>1
      <3>2. PICK s \in Stream : s = streams[k]
        BY <1>2, <3>1, EntryShape
      <3> DEFINE set == s.natives \ {m.of}
      <3>3. streams'[k] = [s EXCEPT !.natives = set]
        BY <3>1, <3>2
      <3>4. set \in SUBSET Natives
        BY StreamShape
      <3> HIDE DEF set
      <3>5. Altered([s EXCEPT !.natives = set], s)
        BY <3>4, NativesSet
      <3> QED BY <3>1, <3>2, <3>3, <3>5
    <2> QED BY <1>4, <2>1 DEF StreamsAltered
  <1> QED BY <1>1, <1>3, <1>5, AlteredStepInv

LEMMA JoinRefusedInv ==
    ASSUME IInv, NEW b \in Browsers, JoinRefusedAnswer(b)
    PROVE  IInv'
  <1>1. PICK leaves : /\ Retire({}, leaves)
                      /\ Send(Cleanups({}, leaves), Rest(Outdated({}, leaves), b), retry)
    BY DEF JoinRefusedAnswer
  <1>2. inbox[b] # <<>> /\ UNCHANGED <<sessions, scan, place>>
    BY DEF JoinRefusedAnswer, Heads
  <1>3. /\ TypeOK /\ retry \in SUBSET Cleanup
        /\ Rest(Outdated({}, leaves), b) \in Inboxes
    BY <1>2, HandledShape
  <1>4. ServerOK'
    BY <1>1, <1>3, CleanupsShape, SendInv
  <1>5. SessionsOK' /\ RegistryOK' /\ Located' /\ Agreement'
    BY <1>1, <1>2, RetiredInv
  <1> QED BY <1>2, <1>4, <1>5, ScanPlaceKept, TypesNext DEF IInv

-----------------------------------------------------------------------------
(* The theorems. *)

LEMMA Initially == Init => IInv
  <1> SUFFICES ASSUME Init PROVE IInv
    OBVIOUS
  <1>1. TypeOK
    BY DEF Init, TypeOK, Idle
  <1>2. Up = {} /\ \A b \in Browsers : Viewed(b) = {}
    BY DEF Init, Up, Viewed
  <1>3. Located /\ Agreement
    BY <1>2 DEF Init, Located, Agreement, ChannelIsolation, Told, RequestKept, Keys
  <1> QED BY <1>1, <1>3 DEF IInv

LEMMA HandleInv ==
    ASSUME IInv, NEW b \in Browsers, Handle(b)
    PROVE  IInv'
  BY OwnStartedInv, CardStartedInv, StoppedNoticeInv, AtNoticeInv, AudienceNoticeInv,
     ClientLeftNoticeInv, JoinRefusedInv DEF Handle

LEMMA NextInv == IInv /\ [Next]_vars => IInv'
  <1> SUFFICES ASSUME IInv, [Next]_vars PROVE IInv'
    OBVIOUS
  <1>1. ASSUME NEW b \in Browsers,
               \/ Arrive(b) \/ Connect(b) \/ Detach(b, "down") \/ Detach(b, "absent")
               \/ Start(b) \/ Stop(b) \/ Handle(b)
        PROVE  IInv'
    BY <1>1, ArriveInv, ConnectInv, DetachInv, StartInv, StopInv, HandleInv
  <1>2. ASSUME NEW b \in Browsers,
               \/ \E ch \in Channels : BrowserMove(b, ch)
               \/ \E k \in Keys : Join(b, k) \/ Leave(b, k)
               \/ \E n \in Natives : Evict(b, n)
        PROVE  IInv'
    BY <1>2, BrowserMoveInv, JoinInv, LeaveInv, EvictInv
  <1>3. ASSUME \/ \E c \in retry : Resend(c)
               \/ \E n \in Natives :
                  \/ \E id \in Ids : Publish(n, id) \/ Watch(n, id) \/ Unwatch(n, id)
                  \/ \E ch \in Channels \cup {None} : NativeMove(n, ch)
               \/ \E id \in Ids : EndStream(id)
               \/ ScanBreak \/ \E c \in Clients : ScanAsk(c)
        PROVE  IInv'
    BY <1>3, ResendInv, PublishInv, AudienceInv, NativeMoveInv, EndStreamInv, ScanBreakInv,
       ScanAskInv
  <1>4. CASE UNCHANGED vars
    <2>1. UNCHANGED <<sessions, registry>> /\ UNCHANGED scan /\ UNCHANGED place
      BY <1>4 DEF vars, sessions, registry
    <2>2. ServerOK'
      BY <1>4, Types DEF vars, IInv, ServerOK, MissedOK
    <2> QED BY <2>1, <2>2, ServerStepInv, ScanPlaceKept
  <1> QED BY <1>1, <1>2, <1>3, <1>4 DEF Next

THEOREM Invariance == Spec => []IInv
  BY Initially, NextInv, PTL DEF Spec

(* Every variable keeps its type: in every inbox the announcement of a stream
   names a client and an id, the registry holds streams under browsers and ids
   only, and a card is always in a channel. *)
THEOREM TypeCorrect == Spec => []TypeOK
  <1>1. IInv => TypeOK
    BY DEF IInv
  <1> QED BY <1>1, Invariance, PTL

(* Nobody watches across channels, in any order of moves, reconnects, late
   notices and answers (removePeer, onClientMove, ensureNativeStream). *)
THEOREM Isolated == Spec => []ChannelIsolation
  <1>1. IInv => ChannelIsolation
    BY DEF IInv, Agreement
  <1> QED BY <1>1, Invariance, PTL

(* What a browser was told it watches is what the registry has
   (stopScreenStream, leaveScreenStream). *)
THEOREM ToldTrue == Spec => []Told
  <1>1. IInv => Told
    BY DEF IInv, Agreement
  <1> QED BY <1>1, Invariance, PTL

(* The refusal of an earlier request never ends a later membership
   (joinNativeScreenStream). *)
THEOREM RequestsKept == Spec => []RequestKept
  <1>1. IInv => RequestKept
    BY DEF IInv, Agreement
  <1> QED BY <1>1, Invariance, PTL
=============================================================================
