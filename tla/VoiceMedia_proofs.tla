------------------------- MODULE VoiceMedia_proofs -------------------------
(***************************************************************************)
(* Proofs about VoiceMedia, for any number of overlapping offers.          *)
(***************************************************************************)
EXTENDS VoiceMedia, TLAPS

-----------------------------------------------------------------------------
(* The inductive invariant. *)

\* Handlers that wait for an update of their own.
Awaiting == {"muting", "accompanying", "restoring"}

\* Handlers whose peer has not been created yet.
Preparing == {"closing", "muting", "accompanying", "resolving"}

(* The session's peer is that of its newest offer, and the only one open. *)
PeerInv ==
    /\ webrtc # None => link = "up" /\ latest = webrtc /\ peer[webrtc].state = "open"
    /\ answered # None => webrtc = answered
    /\ \A o \in Offers :
          /\ peer[o].state = "open" => webrtc = o
          /\ offer[o].phase \in Preparing => peer[o].state = "closed"
          /\ offer[o].phase = "answering" => answered # o

Has(q, o) == \E n \in DOMAIN q : q[n].by = "offer" /\ q[n].id = o

(* An update of an offer in queue q is the only one of its handler, and the
   handler waits for it: f is the handlers' state. *)
Orderly(q, f) ==
    /\ \A n \in DOMAIN q : q[n].by = "offer" => f[q[n].id].phase \in Awaiting
    /\ \A m, n \in DOMAIN q :
          q[m].by = "offer" /\ q[n].by = "offer" /\ q[m].id = q[n].id => m = n

BeliefInv == synced # "unknown" => synced = Shown(input) /\ server = synced

IInv == TypeOK /\ PeerInv /\ Orderly(queue, offer) /\ BeliefInv

HandlerRecord == [phase: Phase, wants: Input, old: Offers \cup {None}]

PeerRecord == [state: {"open", "closing", "closed"}, has: Input]

-----------------------------------------------------------------------------
(* Updates and queues of them. *)

LEMMA UpdateShape ==
    ASSUME NEW u \in Update
    PROVE  /\ u.by \in {"offer", "stop", "command"}
           /\ u.id \in Offers \cup {None}
           /\ u.set \in {"muted", "accompaniment"}
           /\ u.to \in BOOLEAN /\ u.sent \in BOOLEAN
           /\ u.by = "offer" => u.id \in Offers
           /\ [u EXCEPT !.sent = TRUE] \in Update
           /\ [u EXCEPT !.sent = TRUE].by = u.by
           /\ [u EXCEPT !.sent = TRUE].id = u.id
  BY DEF Update

LEMMA PendingUpdate ==
    /\ \A o \in Offers, set \in {"muted", "accompaniment"}, to \in BOOLEAN :
          Pending("offer", o, set, to) \in Update
    /\ \A o \in Offers \cup {None} : Pending("stop", o, "accompaniment", FALSE) \in Update
    /\ \A to \in BOOLEAN : Pending("command", None, "muted", to) \in Update
    /\ \A o \in Offers, to \in BOOLEAN :
          Pending("command", o, "accompaniment", to) \in Update
  BY DEF Pending, Update

LEMMA AppendShape ==
    ASSUME NEW q \in Seq(Update), NEW u \in Update
    PROVE  /\ Append(q, u) \in Seq(Update)
           /\ \A n \in DOMAIN Append(q, u) :
                 \/ n \in DOMAIN q /\ Append(q, u)[n] = q[n]
                 \/ n = Len(q) + 1 /\ Append(q, u)[n] = u
  OBVIOUS

LEMMA TailShape ==
    ASSUME NEW q \in Seq(Update), q # <<>>
    PROVE  /\ Head(q) \in Update /\ Tail(q) \in Seq(Update)
           /\ 1 \in DOMAIN q /\ Head(q) = q[1]
           /\ \A n \in DOMAIN Tail(q) :
                 n + 1 \in DOMAIN q /\ n + 1 # 1 /\ Tail(q)[n] = q[n + 1] /\ n \in Nat
  OBVIOUS

LEMMA AppendOther ==
    ASSUME NEW q \in Seq(Update), NEW u \in Update, NEW f,
           Orderly(q, f), u.by # "offer"
    PROVE  Orderly(Append(q, u), f)
  BY AppendShape DEF Orderly

LEMMA AppendOwn ==
    ASSUME NEW q \in Seq(Update), NEW u \in Update, NEW f,
           Orderly(q, f), u.by = "offer", ~Has(q, u.id), f[u.id].phase \in Awaiting
    PROVE  Orderly(Append(q, u), f)
  BY AppendShape DEF Orderly, Has

\* A handler that does not wait for an update has none in the queue.
LEMMA NoneQueued ==
    ASSUME NEW q, NEW f, NEW o, Orderly(q, f), f[o].phase \notin Awaiting
    PROVE  ~Has(q, o)
  BY DEF Orderly, Has

LEMMA OthersWait ==
    ASSUME NEW q \in Seq(Update), NEW f, NEW g, NEW o, Orderly(q, f), ~Has(q, o),
           \A p \in Offers \ {o} : g[p] = f[p]
    PROVE  Orderly(q, g)
  <1>1. \A n \in DOMAIN q : q[n] \in Update
    OBVIOUS
  <1> QED BY <1>1, UpdateShape DEF Orderly, Has

LEMMA TailOrderly ==
    ASSUME NEW q \in Seq(Update), q # <<>>, NEW f, Orderly(q, f)
    PROVE  /\ Orderly(Tail(q), f)
           /\ Head(q).by = "offer" => ~Has(Tail(q), Head(q).id)
  <1>1. Orderly(Tail(q), f)
    BY TailShape DEF Orderly
  <1>2. Head(q).by = "offer" => ~Has(Tail(q), Head(q).id)
    BY TailShape DEF Orderly, Has
  <1> QED BY <1>1, <1>2

LEMMA SentOrderly ==
    ASSUME NEW q \in Seq(Update), q # <<>>, NEW f, Orderly(q, f)
    PROVE  /\ [q EXCEPT ![1].sent = TRUE] \in Seq(Update)
           /\ Orderly([q EXCEPT ![1].sent = TRUE], f)
  <1> DEFINE r == [q EXCEPT ![1].sent = TRUE]
  <1>1. q[1] \in Update /\ 1 \in DOMAIN q
    OBVIOUS
  <1>2. r = [q EXCEPT ![1] = [q[1] EXCEPT !.sent = TRUE]]
    OBVIOUS
  <1>3. r \in Seq(Update)
    BY <1>1, <1>2, UpdateShape
  <1>4. DOMAIN r = DOMAIN q /\ \A n \in DOMAIN q : r[n].by = q[n].by /\ r[n].id = q[n].id
    BY <1>1, <1>2, UpdateShape
  <1>5. Orderly(r, f)
    BY <1>4 DEF Orderly
  <1> QED BY <1>3, <1>5

-----------------------------------------------------------------------------
(* What the helpers do to peers and handlers. *)

LEMMA ClosingShape ==
    ASSUME NEW p \in PeerRecord
    PROVE  /\ Closing(p) \in PeerRecord
           /\ Closing(p).state # "open"
           /\ p.state # "open" => Closing(p) = p
  BY DEF PeerRecord, Closing, Quiet, Input

LEMMA PeerClosingShape ==
    ASSUME TypeOK, NEW o \in Offers \cup {None}
    PROVE  /\ PeerClosing(o) \in [Offers -> PeerRecord]
           /\ \A p \in Offers :
                 IF p = o THEN PeerClosing(o)[p] = Closing(peer[p])
                          ELSE PeerClosing(o)[p] = peer[p]
  <1>1. peer \in [Offers -> PeerRecord]
    BY DEF TypeOK, PeerRecord
  <1> QED BY <1>1, ClosingShape, OffersAssumption DEF PeerClosing

(* stopWebRtc leaves no peer open and no answer valid. *)
LEMMA StopPeerCloses ==
    ASSUME IInv, NEW o \in Offers \cup {None}, StopPeer(o)
    PROVE  /\ latest' = o /\ webrtc' = None /\ answered' = None
           /\ peer' \in [Offers -> PeerRecord]
           /\ \A p \in Offers :
                 /\ peer'[p].state # "open"
                 /\ peer[p].state = "closed" => peer'[p] = peer[p]
  <1>1. webrtc \in Offers \cup {None} /\ peer \in [Offers -> PeerRecord] /\ TypeOK
    BY DEF IInv, TypeOK, PeerRecord
  <1>2. peer' = PeerClosing(webrtc) /\ latest' = o /\ webrtc' = None /\ answered' = None
    BY DEF StopPeer
  <1>3. \A p \in Offers : peer[p].state = "open" => webrtc = p
    BY DEF IInv, PeerInv
  <1>4. ASSUME NEW p \in Offers
        PROVE  /\ peer'[p].state # "open"
               /\ peer[p].state = "closed" => peer'[p] = peer[p]
    BY <1>1, <1>2, <1>3, PeerClosingShape, ClosingShape
  <1> QED BY <1>1, <1>2, <1>4, PeerClosingShape

(* Without peer and answer only the preparing handlers need a look. *)
LEMMA NoPeerInv ==
    ASSUME webrtc' = None, answered' = None,
           \A o \in Offers :
              /\ peer'[o].state # "open"
              /\ offer'[o].phase \in Preparing => peer'[o].state = "closed"
    PROVE  PeerInv'
  BY OffersAssumption DEF PeerInv

LEMMA StopWebRtcQueues ==
    ASSUME IInv, NEW o \in Offers \cup {None}, StopWebRtc(o)
    PROVE  /\ queue' \in Seq(Update)
           /\ Orderly(queue', offer)
           /\ \A p \in Offers : offer[p].phase \notin Awaiting => ~Has(queue', p)
  <1>1. queue \in Seq(Update) /\ Orderly(queue, offer)
    BY DEF IInv, TypeOK
  <1> DEFINE v == Pending("stop", o, "accompaniment", FALSE)
  <1>2. v \in Update
    BY PendingUpdate
  <1>3. v.by = "stop"
    BY DEF Pending
  <1>4. queue' = Append(queue, v) \/ queue' = queue
    BY DEF StopWebRtc
  <1> HIDE DEF v
  <1>5. queue' \in Seq(Update) /\ Orderly(queue', offer)
    BY <1>1, <1>2, <1>3, <1>4, AppendOther, AppendShape
  <1> QED BY <1>5, NoneQueued

(* Neither a mute nor an accompaniment command opens or closes a peer. *)
LEMMA AppliedShape ==
    ASSUME TypeOK, NEW u \in Update
    PROVE  /\ Applied(u) \in [Offers -> PeerRecord]
           /\ \A p \in Offers : Applied(u)[p].state = peer[p].state
  <1>1. u.set \in {"muted", "accompaniment"} /\ u.to \in BOOLEAN
    BY UpdateShape
  <1>2. webrtc \in Offers \cup {None} /\ peer \in [Offers -> PeerRecord]
    BY DEF TypeOK, PeerRecord
  <1>3. CASE u.by = "command" /\ webrtc # None /\ (u.set = "muted" \/ webrtc = u.id)
    <2> DEFINE has == [peer[webrtc].has EXCEPT ![u.set] = u.to]
    <2>1. peer[webrtc].has \in Input
      BY <1>2, <1>3 DEF PeerRecord
    <2>2. has \in Input
      BY <1>1, <2>1 DEF Input
    <2>3. Applied(u) = [peer EXCEPT ![webrtc] = [peer[webrtc] EXCEPT !.has = has]]
      BY <1>2, <1>3 DEF Applied, PeerRecord
    <2> HIDE DEF has
    <2> QED BY <1>2, <1>3, <2>2, <2>3 DEF PeerRecord
  <1>4. CASE ~(u.by = "command" /\ webrtc # None /\ (u.set = "muted" \/ webrtc = u.id))
    BY <1>2, <1>4 DEF Applied
  <1> QED BY <1>3, <1>4

LEMMA ChangedShape ==
    ASSUME TypeOK, NEW u \in Update
    PROVE  Changed(u) \in Input
  BY UpdateShape DEF TypeOK, Changed, Input

(* The continuation of a settled update keeps the queue orderly, and a handler
   that prepares or answers afterwards did so before. *)
LEMMA ContinuedInv ==
    ASSUME IInv, queue # <<>>, NEW accepted \in BOOLEAN, Continued(Head(queue), accepted)
    PROVE  /\ offer' \in [Offers -> HandlerRecord]
           /\ queue' \in Seq(Update)
           /\ Orderly(queue', offer')
           /\ \A p \in Offers :
                 /\ offer'[p].phase \in Preparing => offer[p].phase \in Preparing
                 /\ offer'[p].phase = "answering" => offer[p].phase = "answering"
  <1> DEFINE u == Head(queue)
             o == u.id
  <1>1. offer \in [Offers -> HandlerRecord] /\ queue \in Seq(Update) /\ Orderly(queue, offer)
    BY DEF IInv, TypeOK, HandlerRecord
  <1>2. u \in Update /\ Tail(queue) \in Seq(Update) /\ u = queue[1] /\ 1 \in DOMAIN queue
    BY <1>1, TailShape
  <1>3. Orderly(Tail(queue), offer) /\ (u.by = "offer" => ~Has(Tail(queue), o))
    BY <1>1, TailOrderly
  <1>4. CASE u.by # "offer"
    BY <1>1, <1>2, <1>3, <1>4 DEF Continued
  <1>5. CASE u.by = "offer"
    <2>1. o \in Offers
      BY <1>2, <1>5, UpdateShape
    <2>2. offer[o].phase \in Awaiting
      BY <1>1, <1>2, <1>5 DEF Orderly
    <2>3. /\ Done(o) \in [Offers -> HandlerRecord]
          /\ Done(o)[o].phase = "free"
          /\ \A p \in Offers \ {o} : Done(o)[p] = offer[p]
      BY <1>1, <2>1 DEF Done, Free, HandlerRecord, Phase, Quiet, Input
    <2>4. ASSUME NEW next \in Phase
          PROVE  /\ To(o, next) \in [Offers -> HandlerRecord]
                 /\ To(o, next)[o].phase = next
                 /\ \A p \in Offers \ {o} : To(o, next)[p] = offer[p]
      BY <1>1, <2>1 DEF To, HandlerRecord
    <2>5. ASSUME NEW g, \A p \in Offers \ {o} : g[p] = offer[p]
          PROVE  Orderly(Tail(queue), g)
      BY <1>2, <1>3, <1>5, <2>5, OthersWait
    <2>6. CASE ~IsCurrent(o) \/ offer[o].phase = "restoring"
      <3>1. offer' = Done(o) /\ queue' = Tail(queue)
        BY <1>5, <2>6 DEF Continued
      <3> QED BY <1>2, <2>3, <2>5, <3>1 DEF Preparing
    <2>7. CASE ~(~IsCurrent(o) \/ offer[o].phase = "restoring")
               /\ offer[o].phase = "muting" /\ accepted
      <3> DEFINE v == Pending("offer", o, "accompaniment", offer[o].wants.accompaniment)
      <3>1. offer' = To(o, "accompanying") /\ queue' = Append(Tail(queue), v)
        BY <1>5, <2>7 DEF Continued
      <3>2. offer[o].wants.accompaniment \in BOOLEAN
        BY <1>1, <2>1 DEF HandlerRecord, Input
      <3>3. v \in Update /\ v.by = "offer" /\ v.id = o
        BY <2>1, <3>2, PendingUpdate DEF Pending
      <3>4. "accompanying" \in Phase
        BY DEF Phase
      <3>5. /\ offer' \in [Offers -> HandlerRecord]
            /\ offer'[o].phase = "accompanying"
            /\ \A p \in Offers \ {o} : offer'[p] = offer[p]
        BY <2>4, <3>1, <3>4
      <3>6. Orderly(Tail(queue), offer')
        BY <2>5, <3>5
      <3> HIDE DEF v
      <3>7. queue' \in Seq(Update)
        BY <1>2, <3>1, <3>3
      <3>8. Orderly(queue', offer')
        BY <1>2, <1>3, <1>5, <3>1, <3>3, <3>5, <3>6, AppendOwn DEF Awaiting
      <3> QED BY <2>7, <3>5, <3>7, <3>8 DEF Preparing
    <2>8. CASE ~(~IsCurrent(o) \/ offer[o].phase = "restoring")
               /\ ~(offer[o].phase = "muting" /\ accepted)
      <3>1. offer' = To(o, "resolving") /\ queue' = Tail(queue)
        BY <1>5, <2>8 DEF Continued
      <3>2. /\ offer' \in [Offers -> HandlerRecord]
            /\ offer'[o].phase = "resolving"
            /\ \A p \in Offers \ {o} : offer'[p] = offer[p]
        BY <2>4, <3>1 DEF Phase
      <3>3. offer[o].phase \in Preparing
        BY <2>2, <2>8 DEF Awaiting, Preparing
      <3> QED BY <1>2, <2>5, <3>1, <3>2, <3>3 DEF Preparing
    <2> QED BY <2>6, <2>7, <2>8
  <1> QED BY <1>4, <1>5

-----------------------------------------------------------------------------
(* One lemma per action, or per group of actions that disturb the same parts. *)

LEMMA Types ==
    TypeOK <=> /\ link \in {"up", "down", "left", "gone"}
               /\ {latest, webrtc, answered} \subseteq Offers \cup {None}
               /\ offer \in [Offers -> HandlerRecord]
               /\ peer \in [Offers -> PeerRecord]
               /\ queue \in Seq(Update)
               /\ input \in Input
               /\ synced \in {"muted", "audible", "unknown"}
               /\ server \in {"muted", "audible"}
               /\ asked \in Input /\ crossed \in BOOLEAN /\ failed \in BOOLEAN
  BY DEF TypeOK, HandlerRecord, PeerRecord

LEMMA OfferInv ==
    ASSUME IInv, NEW o \in Offers, Offer(o)
    PROVE  IInv'
  <1>1. PICK wants \in [muted: {asked.muted}, accompaniment: Values] :
           /\ offer' = [offer EXCEPT ![o] = [phase |-> "closing", wants |-> wants, old |-> webrtc]]
           /\ asked' = wants
    BY DEF Offer
  <1>2. StopWebRtc(o) /\ StopPeer(o)
    BY DEF Offer, StopWebRtc
  <1>3. /\ latest' = o /\ webrtc' = None /\ answered' = None
        /\ peer' \in [Offers -> PeerRecord]
        /\ \A p \in Offers :
              /\ peer'[p].state # "open"
              /\ peer[p].state = "closed" => peer'[p] = peer[p]
    BY <1>2, StopPeerCloses
  <1>4. TypeOK
    BY DEF IInv
  <1>5. wants \in Input
    BY <1>1, <1>4, ValuesAssumption DEF TypeOK, Input
  <1>6. [phase |-> "closing", wants |-> wants, old |-> webrtc] \in HandlerRecord
    BY <1>4, <1>5 DEF TypeOK, HandlerRecord, Phase
  <1>7. /\ offer' \in [Offers -> HandlerRecord]
        /\ offer'[o].phase = "closing"
        /\ \A p \in Offers \ {o} : offer'[p] = offer[p]
    BY <1>1, <1>4, <1>6, Types
  <1>8. offer[o].phase = "free" /\ peer[o].state = "closed"
    BY DEF Offer, Free
  <1>9. queue' \in Seq(Update) /\ Orderly(queue', offer) /\ ~Has(queue', o)
    BY <1>2, <1>8, StopWebRtcQueues DEF Awaiting
  <1>10. UNCHANGED <<link, input, synced, server, crossed, failed>>
    BY DEF Offer
  <1>11. TypeOK'
    BY <1>1, <1>3, <1>4, <1>5, <1>7, <1>9, <1>10, Types DEF TypeOK, HandlerRecord, PeerRecord
  <1>12. PeerInv'
    <2>1. \A p \in Offers : offer[p].phase \in Preparing => peer[p].state = "closed"
      BY DEF IInv, PeerInv
    <2> QED BY <2>1, <1>3, <1>7, <1>8, NoPeerInv
  <1>13. Orderly(queue', offer')
    BY <1>7, <1>9, OthersWait
  <1>14. BeliefInv'
    BY <1>10 DEF IInv, BeliefInv, Shown
  <1> QED BY <1>11, <1>12, <1>13, <1>14 DEF IInv

LEMMA StopInv ==
    ASSUME IInv, Stop
    PROVE  IInv'
  <1>1. StopWebRtc(None) /\ StopPeer(None)
    BY DEF Stop, StopWebRtc
  <1>2. /\ latest' = None /\ webrtc' = None /\ answered' = None
        /\ peer' \in [Offers -> PeerRecord]
        /\ \A p \in Offers :
              /\ peer'[p].state # "open"
              /\ peer[p].state = "closed" => peer'[p] = peer[p]
    BY <1>1, StopPeerCloses
  <1>3. UNCHANGED <<link, offer, input, synced, server, crossed, failed>>
    BY DEF Stop
  <1>4. queue' \in Seq(Update) /\ Orderly(queue', offer)
    BY <1>1, StopWebRtcQueues
  <1>5. asked' \in Input
    BY DEF Stop, IInv, TypeOK, Input
  <1>6. TypeOK'
    BY <1>2, <1>3, <1>4, <1>5 DEF IInv, TypeOK, PeerRecord
  <1>7. PeerInv'
    BY <1>2, <1>3, NoPeerInv DEF IInv, PeerInv
  <1>8. Orderly(queue', offer')
    BY <1>3, <1>4
  <1>9. BeliefInv'
    BY <1>3 DEF IInv, BeliefInv, Shown
  <1> QED BY <1>6, <1>7, <1>8, <1>9 DEF IInv

(* Commands of the browser only add to the queue. *)
LEMMA CommandInv ==
    ASSUME IInv, SetMicrophoneMuted \/ SetAccompanimentActive
    PROVE  IInv'
  <1>1. UNCHANGED <<link, latest, webrtc, offer, peer, input, synced, server, answered, failed>>
    BY DEF SetMicrophoneMuted, SetAccompanimentActive
  <1>2. /\ asked' \in Input /\ crossed' \in BOOLEAN
        /\ \/ queue' = queue
           \/ \E v \in Update : v.by = "command" /\ queue' = Append(queue, v)
    <2>1. CASE SetMicrophoneMuted
      <3>1. PICK muted \in Values :
               /\ queue' = Append(queue, Pending("command", None, "muted", muted))
               /\ asked' = [asked EXCEPT !.muted = muted]
        BY <2>1 DEF SetMicrophoneMuted
      <3>2. Pending("command", None, "muted", muted) \in Update
            /\ Pending("command", None, "muted", muted).by = "command"
        BY PendingUpdate, ValuesAssumption DEF Pending
      <3>3. asked' \in Input
        BY <3>1, ValuesAssumption DEF IInv, TypeOK, Input
      <3>4. crossed' \in BOOLEAN
        BY <2>1 DEF SetMicrophoneMuted, IInv, TypeOK
      <3> QED BY <3>1, <3>2, <3>3, <3>4
    <2>2. CASE SetAccompanimentActive
      <3>1. PICK active \in Values :
               /\ queue' = IF webrtc = None THEN queue
                           ELSE Append(queue, Pending("command", webrtc, "accompaniment", active))
               /\ asked' = [asked EXCEPT !.accompaniment = active]
        BY <2>2 DEF SetAccompanimentActive
      <3>2. ASSUME webrtc # None
            PROVE  Pending("command", webrtc, "accompaniment", active) \in Update
                   /\ Pending("command", webrtc, "accompaniment", active).by = "command"
        BY <3>2, PendingUpdate, ValuesAssumption DEF Pending, IInv, TypeOK
      <3>3. asked' \in Input
        BY <3>1, ValuesAssumption DEF IInv, TypeOK, Input
      <3>4. crossed' \in BOOLEAN
        BY <2>2 DEF SetAccompanimentActive, IInv, TypeOK
      <3> QED BY <3>1, <3>2, <3>3, <3>4
    <2> QED BY <2>1, <2>2
  <1>3. queue' \in Seq(Update) /\ Orderly(queue', offer)
    <2>1. queue \in Seq(Update) /\ Orderly(queue, offer)
      BY DEF IInv, TypeOK
    <2>2. ASSUME NEW v \in Update, v.by = "command", queue' = Append(queue, v)
          PROVE  queue' \in Seq(Update) /\ Orderly(queue', offer)
      BY <2>1, <2>2, AppendOther, AppendShape
    <2> QED BY <1>2, <2>1, <2>2
  <1>4. TypeOK'
    BY <1>1, <1>2, <1>3 DEF IInv, TypeOK
  <1>5. PeerInv' /\ BeliefInv'
    BY <1>1 DEF IInv, PeerInv, BeliefInv, Shown
  <1> QED BY <1>1, <1>3, <1>4, <1>5 DEF IInv

LEMMA UpdateSentInv ==
    ASSUME IInv, UpdateSent
    PROVE  IInv'
  <1>1. UNCHANGED <<link, latest, webrtc, offer, peer, input, synced, server, answered,
                    asked, crossed, failed>>
    BY DEF UpdateSent
  <1>2. queue' \in Seq(Update) /\ Orderly(queue', offer)
    BY SentOrderly DEF UpdateSent, IInv, TypeOK
  <1>3. TypeOK'
    BY <1>1, <1>2 DEF IInv, TypeOK
  <1>4. PeerInv' /\ BeliefInv'
    BY <1>1 DEF IInv, PeerInv, BeliefInv, Shown
  <1> QED BY <1>1, <1>2, <1>3, <1>4 DEF IInv

(* An update settles: it is skipped, accepted or fails. *)
LEMMA UpdateSettledInv ==
    ASSUME IInv, UpdateSkipped \/ UpdateAccepted \/ UpdateFailed
    PROVE  IInv'
  <1> DEFINE u == Head(queue)
  <1>1. TypeOK /\ queue \in Seq(Update) /\ queue # <<>>
    BY DEF IInv, TypeOK, UpdateSkipped, UpdateAccepted, UpdateFailed
  <1>2. u \in Update
    BY <1>1, TailShape
  <1>3. \E accepted \in BOOLEAN : Continued(u, accepted)
    BY DEF UpdateSkipped, UpdateAccepted, UpdateFailed
  <1>4. /\ offer' \in [Offers -> HandlerRecord]
        /\ queue' \in Seq(Update)
        /\ Orderly(queue', offer')
        /\ \A p \in Offers :
              /\ offer'[p].phase \in Preparing => offer[p].phase \in Preparing
              /\ offer'[p].phase = "answering" => offer[p].phase = "answering"
    BY <1>1, <1>3, ContinuedInv
  <1>5. UNCHANGED <<link, latest, webrtc, answered, asked, crossed>>
    BY DEF UpdateSkipped, UpdateAccepted, UpdateFailed
  <1>6. /\ peer' \in [Offers -> PeerRecord]
        /\ \A p \in Offers : peer'[p].state = peer[p].state
    <2>1. peer \in [Offers -> PeerRecord]
      BY <1>1, Types
    <2>2. peer' = Applied(u) \/ peer' = peer
      BY DEF UpdateSkipped, UpdateAccepted, UpdateFailed
    <2> QED BY <1>1, <1>2, <2>1, <2>2, AppliedShape
  <1>7. Changed(u) \in Input
    BY <1>1, <1>2, ChangedShape
  <1>8. Shown(Changed(u)) \in {"muted", "audible"}
    BY DEF Shown
  <1>9. /\ input' \in Input /\ failed' \in BOOLEAN
        /\ synced' \in {"muted", "audible", "unknown"}
        /\ server' \in {"muted", "audible"}
        /\ BeliefInv'
    <2>1. CASE UpdateSkipped
      BY <1>1, <1>7, <1>8, <2>1 DEF UpdateSkipped, IInv, TypeOK, BeliefInv, Shown
    <2>2. CASE UpdateAccepted
      BY <1>1, <1>7, <1>8, <2>2 DEF UpdateAccepted, IInv, TypeOK, BeliefInv, Shown
    <2>3. CASE UpdateFailed
      BY <1>1, <1>8, <2>3 DEF UpdateFailed, IInv, TypeOK, BeliefInv
    <2> QED BY <2>1, <2>2, <2>3
  <1> HIDE DEF u
  <1>10. TypeOK'
    BY <1>1, <1>4, <1>5, <1>6, <1>9 DEF TypeOK, HandlerRecord, PeerRecord
  <1>11. PeerInv'
    BY <1>1, <1>4, <1>5, <1>6 DEF IInv, PeerInv, TypeOK
  <1> QED BY <1>4, <1>9, <1>10, <1>11 DEF IInv

(* A handler o goes on to the phase next, or is done, without an update. *)
LEMMA Proceeds ==
    ASSUME TypeOK, NEW o \in Offers, offer[o].phase \notin Awaiting,
           Orderly(queue, offer),
           NEW next \in Phase, offer' = To(o, next) \/ (next = "free" /\ offer' = Done(o)),
           queue' = queue
    PROVE  /\ offer' \in [Offers -> HandlerRecord]
           /\ offer'[o].phase = next
           /\ \A p \in Offers \ {o} : offer'[p] = offer[p]
           /\ queue' \in Seq(Update) /\ Orderly(queue', offer')
  <1>1. /\ offer' \in [Offers -> HandlerRecord]
        /\ offer'[o].phase = next
        /\ \A p \in Offers \ {o} : offer'[p] = offer[p]
    <2>1. offer \in [Offers -> HandlerRecord]
      BY Types
    <2>2. CASE offer' = To(o, next)
      BY <2>1, <2>2 DEF To, HandlerRecord
    <2>3. CASE next = "free" /\ offer' = Done(o)
      <3>1. Free \in HandlerRecord /\ Free.phase = "free"
        BY DEF Free, Quiet, Input, HandlerRecord, Phase
      <3> QED BY <2>1, <2>3, <3>1 DEF Done
    <2> QED BY <2>2, <2>3
  <1>2. queue \in Seq(Update) /\ ~Has(queue, o)
    BY Types, NoneQueued
  <1>3. Orderly(queue, offer')
    BY <1>1, <1>2, OthersWait
  <1> QED BY <1>1, <1>2, <1>3

(* A handler o adds an update of its own and waits for it. *)
LEMMA Waits ==
    ASSUME TypeOK, NEW o \in Offers, offer[o].phase \notin Awaiting,
           Orderly(queue, offer),
           NEW next \in Awaiting, offer' = To(o, next),
           NEW set \in {"muted", "accompaniment"}, NEW to \in BOOLEAN,
           queue' = Append(queue, Pending("offer", o, set, to))
    PROVE  /\ offer' \in [Offers -> HandlerRecord]
           /\ offer'[o].phase = next
           /\ \A p \in Offers \ {o} : offer'[p] = offer[p]
           /\ queue' \in Seq(Update) /\ Orderly(queue', offer')
  <1> DEFINE v == Pending("offer", o, set, to)
  <1>1. /\ offer' \in [Offers -> HandlerRecord]
        /\ offer'[o].phase = next
        /\ \A p \in Offers \ {o} : offer'[p] = offer[p]
    BY Types DEF To, HandlerRecord, Phase, Awaiting
  <1>2. queue \in Seq(Update) /\ ~Has(queue, o)
    BY Types, NoneQueued
  <1>3. Orderly(queue, offer')
    BY <1>1, <1>2, OthersWait
  <1>4. v \in Update /\ v.by = "offer" /\ v.id = o
    BY PendingUpdate DEF Pending
  <1> HIDE DEF v
  <1>5. Orderly(Append(queue, v), offer')
    BY <1>1, <1>2, <1>3, <1>4, AppendOwn
  <1> QED BY <1>1, <1>2, <1>4, <1>5, AppendShape DEF v

LEMMA StopDoneInv ==
    ASSUME IInv, NEW o \in Offers, StopDone(o)
    PROVE  IInv'
  <1>1. /\ TypeOK /\ Orderly(queue, offer)
        /\ offer[o].phase = "closing" /\ offer[o].phase \notin Awaiting
        /\ UNCHANGED <<link, latest, webrtc, peer, input, synced, server, answered, asked,
                       crossed, failed>>
    BY DEF IInv, StopDone, Awaiting
  <1>2. /\ offer' \in [Offers -> HandlerRecord]
        /\ offer'[o].phase \in {"muting", "free"}
        /\ \A p \in Offers \ {o} : offer'[p] = offer[p]
        /\ queue' \in Seq(Update) /\ Orderly(queue', offer')
    <2>1. CASE IsCurrent(o)
      <3>1. offer[o].wants.muted \in BOOLEAN
        BY <1>1, Types DEF HandlerRecord, Input
      <3>2. offer' = To(o, "muting")
            /\ queue' = Append(queue, Pending("offer", o, "muted", offer[o].wants.muted))
        BY <2>1 DEF StopDone
      <3>3. "muting" \in Awaiting
        BY DEF Awaiting
      <3> QED BY <1>1, <3>1, <3>2, <3>3, Waits
    <2>2. CASE ~IsCurrent(o)
      BY <1>1, <2>2, Proceeds DEF StopDone, Phase
    <2> QED BY <2>1, <2>2
  <1>3. TypeOK'
    BY <1>1, <1>2 DEF TypeOK, HandlerRecord
  <1>4. PeerInv' /\ BeliefInv'
    BY <1>1, <1>2 DEF IInv, PeerInv, BeliefInv, Shown, Preparing
  <1> QED BY <1>2, <1>3, <1>4 DEF IInv

(* Only the current handler installs its peer: none is open then. *)
LEMMA PeerCreatedInv ==
    ASSUME IInv, NEW o \in Offers, PeerCreated(o)
    PROVE  IInv'
  <1>1. /\ TypeOK /\ Orderly(queue, offer) /\ PeerInv
        /\ offer[o].phase = "resolving" /\ offer[o].phase \notin Awaiting
        /\ UNCHANGED <<link, latest, queue, input, synced, server, answered, asked,
                       crossed, failed>>
    BY DEF IInv, PeerCreated, Awaiting
  <1>2. BeliefInv'
    BY <1>1 DEF IInv, BeliefInv, Shown
  <1>3. CASE IsCurrent(o)
    <2>1. /\ webrtc' = o /\ offer' = To(o, "answering")
          /\ peer' = [peer EXCEPT ![o] = [state |-> "open", has |-> offer[o].wants]]
      BY <1>3 DEF PeerCreated
    <2>2. /\ offer' \in [Offers -> HandlerRecord]
          /\ offer'[o].phase = "answering"
          /\ \A p \in Offers \ {o} : offer'[p] = offer[p]
          /\ queue' \in Seq(Update) /\ Orderly(queue', offer')
      BY <1>1, <2>1, Proceeds DEF Phase
    <2>3. peer[o].state = "closed" /\ webrtc = None /\ answered = None
      BY <1>1, <1>3, OffersAssumption DEF PeerInv, IsCurrent, Preparing, TypeOK
    <2>4. /\ peer' \in [Offers -> PeerRecord]
          /\ peer'[o].state = "open"
          /\ \A p \in Offers \ {o} : peer'[p] = peer[p]
      BY <1>1, <2>1, Types DEF HandlerRecord, PeerRecord
    <2>5. TypeOK'
      BY <1>1, <2>1, <2>2, <2>4 DEF TypeOK, HandlerRecord, PeerRecord
    <2>6. PeerInv'
      BY <1>1, <1>3, <2>1, <2>2, <2>3, <2>4, OffersAssumption
      DEF PeerInv, IsCurrent, Preparing
    <2> QED BY <1>2, <2>2, <2>5, <2>6 DEF IInv
  <1>4. CASE ~IsCurrent(o)
    <2>1. offer' = Done(o) /\ UNCHANGED <<webrtc, peer>>
      BY <1>4 DEF PeerCreated
    <2>2. /\ offer' \in [Offers -> HandlerRecord]
          /\ offer'[o].phase = "free"
          /\ \A p \in Offers \ {o} : offer'[p] = offer[p]
          /\ queue' \in Seq(Update) /\ Orderly(queue', offer')
      BY <1>1, <2>1, Proceeds DEF Phase
    <2>3. TypeOK'
      BY <1>1, <2>1, <2>2 DEF TypeOK, HandlerRecord
    <2>4. PeerInv'
      BY <1>1, <2>1, <2>2 DEF PeerInv, Preparing
    <2> QED BY <1>2, <2>2, <2>3, <2>4 DEF IInv
  <1> QED BY <1>3, <1>4

(* The two places from which the accompaniment is restored. *)
LEMMA RestoreInv ==
    ASSUME IInv, NEW o \in Offers, PeerUnavailable(o) \/ FailedPeerClosed(o)
    PROVE  IInv'
  <1>1. /\ TypeOK /\ Orderly(queue, offer) /\ Restore(o)
        /\ offer[o].phase \notin Awaiting
        /\ UNCHANGED <<link, latest, webrtc, peer, input, synced, server, answered, asked,
                       crossed, failed>>
    BY DEF IInv, PeerUnavailable, FailedPeerClosed, Awaiting
  <1>2. /\ offer' \in [Offers -> HandlerRecord]
        /\ offer'[o].phase \in {"restoring", "free"}
        /\ \A p \in Offers \ {o} : offer'[p] = offer[p]
        /\ queue' \in Seq(Update) /\ Orderly(queue', offer')
    <2>1. CASE IsCurrent(o)
      <3>1. offer' = To(o, "restoring")
            /\ queue' = Append(queue, Pending("offer", o, "accompaniment", FALSE))
        BY <1>1, <2>1 DEF Restore
      <3>2. "restoring" \in Awaiting
        BY DEF Awaiting
      <3> QED BY <1>1, <3>1, <3>2, Waits
    <2>2. CASE ~IsCurrent(o)
      BY <1>1, <2>2, Proceeds DEF Restore, Phase
    <2> QED BY <2>1, <2>2
  <1>3. TypeOK'
    BY <1>1, <1>2 DEF TypeOK, HandlerRecord
  <1>4. PeerInv' /\ BeliefInv'
    BY <1>1, <1>2 DEF IInv, PeerInv, BeliefInv, Shown, Preparing
  <1> QED BY <1>2, <1>3, <1>4 DEF IInv

LEMMA AnswerCreatedInv ==
    ASSUME IInv, NEW o \in Offers, AnswerCreated(o)
    PROVE  IInv'
  <1>1. /\ TypeOK /\ Orderly(queue, offer) /\ PeerInv
        /\ offer[o].phase = "answering" /\ offer[o].phase \notin Awaiting
        /\ UNCHANGED <<link, latest, webrtc, queue, input, synced, server, asked,
                       crossed, failed>>
    BY DEF IInv, AnswerCreated, Awaiting
  <1>2. BeliefInv'
    BY <1>1 DEF IInv, BeliefInv, Shown
  <1>3. CASE IsCurrentPeer(o)
    <2>1. answered' = o /\ offer' = Done(o) /\ UNCHANGED peer /\ webrtc = o
      BY <1>3 DEF AnswerCreated, IsCurrentPeer
    <2>2. /\ offer' \in [Offers -> HandlerRecord]
          /\ offer'[o].phase = "free"
          /\ \A p \in Offers \ {o} : offer'[p] = offer[p]
          /\ queue' \in Seq(Update) /\ Orderly(queue', offer')
      BY <1>1, <2>1, Proceeds DEF Phase
    <2>3. TypeOK'
      BY <1>1, <2>1, <2>2 DEF TypeOK, HandlerRecord
    <2>4. PeerInv'
      BY <1>1, <2>1, <2>2 DEF PeerInv, Preparing
    <2> QED BY <1>2, <2>2, <2>3, <2>4 DEF IInv
  <1>4. CASE ~IsCurrentPeer(o)
    <2>1. offer' = To(o, "discarding") /\ peer' = PeerClosing(o) /\ UNCHANGED answered
      BY <1>4 DEF AnswerCreated
    <2>2. /\ offer' \in [Offers -> HandlerRecord]
          /\ offer'[o].phase = "discarding"
          /\ \A p \in Offers \ {o} : offer'[p] = offer[p]
          /\ queue' \in Seq(Update) /\ Orderly(queue', offer')
      BY <1>1, <2>1, Proceeds DEF Phase
    <2>3. peer[o].state # "open"
      BY <1>1, <1>4, OffersAssumption DEF PeerInv, IsCurrentPeer, IsCurrent
    <2>4. peer' = peer
      <3>1. peer \in [Offers -> PeerRecord]
        BY <1>1, Types
      <3>2. \A p \in Offers : peer'[p] = peer[p]
        BY <1>1, <2>1, <2>3, <3>1, PeerClosingShape, ClosingShape
      <3>3. peer' \in [Offers -> PeerRecord]
        BY <1>1, <2>1, PeerClosingShape
      <3> QED BY <3>1, <3>2, <3>3
    <2>5. TypeOK'
      BY <1>1, <2>1, <2>2, <2>4 DEF TypeOK, HandlerRecord
    <2>6. PeerInv'
      BY <1>1, <2>1, <2>2, <2>4 DEF PeerInv, Preparing
    <2> QED BY <1>2, <2>2, <2>5, <2>6 DEF IInv
  <1> QED BY <1>3, <1>4

LEMMA AnswerFailedInv ==
    ASSUME IInv, NEW o \in Offers, AnswerFailed(o)
    PROVE  IInv'
  <1>1. /\ TypeOK /\ Orderly(queue, offer) /\ PeerInv
        /\ offer[o].phase = "answering" /\ offer[o].phase \notin Awaiting
        /\ webrtc' = IF webrtc = o THEN None ELSE webrtc
        /\ offer' = To(o, "failing")
        /\ peer' = PeerClosing(o)
        /\ UNCHANGED <<link, latest, queue, input, synced, server, answered, asked,
                       crossed, failed>>
    BY DEF IInv, AnswerFailed, Awaiting
  <1>2. /\ offer' \in [Offers -> HandlerRecord]
        /\ offer'[o].phase = "failing"
        /\ \A p \in Offers \ {o} : offer'[p] = offer[p]
        /\ queue' \in Seq(Update) /\ Orderly(queue', offer')
    BY <1>1, Proceeds DEF Phase
  <1>3. /\ peer' \in [Offers -> PeerRecord]
        /\ peer'[o].state # "open"
        /\ \A p \in Offers \ {o} : peer'[p] = peer[p]
    <2>1. peer[o] \in PeerRecord
      BY <1>1, Types
    <2> QED BY <1>1, <2>1, PeerClosingShape, ClosingShape
  <1>4. TypeOK'
    BY <1>1, <1>2, <1>3 DEF TypeOK, HandlerRecord, PeerRecord
  <1>5. PeerInv'
    BY <1>1, <1>2, <1>3, OffersAssumption DEF PeerInv, Preparing, TypeOK
  <1>6. BeliefInv'
    BY <1>1 DEF IInv, BeliefInv, Shown
  <1> QED BY <1>2, <1>4, <1>5, <1>6 DEF IInv

LEMMA DiscardedInv ==
    ASSUME IInv, NEW o \in Offers, Discarded(o)
    PROVE  IInv'
  <1>1. /\ TypeOK /\ Orderly(queue, offer)
        /\ offer[o].phase \notin Awaiting /\ offer' = Done(o)
        /\ UNCHANGED <<link, latest, webrtc, peer, queue, input, synced, server, answered,
                       asked, crossed, failed>>
    BY DEF IInv, Discarded, Awaiting
  <1>2. /\ offer' \in [Offers -> HandlerRecord]
        /\ offer'[o].phase = "free"
        /\ \A p \in Offers \ {o} : offer'[p] = offer[p]
        /\ queue' \in Seq(Update) /\ Orderly(queue', offer')
    BY <1>1, Proceeds DEF Phase
  <1>3. TypeOK'
    BY <1>1, <1>2 DEF TypeOK, HandlerRecord
  <1>4. PeerInv' /\ BeliefInv'
    BY <1>1, <1>2 DEF IInv, PeerInv, BeliefInv, Shown, Preparing
  <1> QED BY <1>2, <1>3, <1>4 DEF IInv

LEMMA PeerClosedInv ==
    ASSUME IInv, NEW o \in Offers, PeerClosed(o)
    PROVE  IInv'
  <1>1. /\ TypeOK /\ peer[o].state = "closing"
        /\ peer' = [peer EXCEPT ![o] = NoPeer]
        /\ UNCHANGED <<link, latest, webrtc, offer, queue, input, synced, server, answered,
                       asked, crossed, failed>>
    BY DEF IInv, PeerClosed
  <1>2. NoPeer \in PeerRecord /\ NoPeer.state = "closed"
    BY DEF NoPeer, Quiet, Input, PeerRecord
  <1>3. peer' \in [Offers -> PeerRecord]
    BY <1>1, <1>2, Types
  <1>4. /\ peer'[o].state = "closed"
        /\ \A p \in Offers \ {o} : peer'[p] = peer[p]
    BY <1>1, <1>2, Types
  <1>5. TypeOK'
    BY <1>1, <1>3 DEF TypeOK, PeerRecord
  <1>6. PeerInv' /\ BeliefInv'
    BY <1>1, <1>4 DEF IInv, PeerInv, BeliefInv, Shown
  <1> QED BY <1>1, <1>5, <1>6 DEF IInv

(* A drop or a disconnect rejects every update that waits. *)
LEMMA RejectedShape ==
    ASSUME TypeOK, Rejected
    PROVE  /\ queue' \in Seq(Update) /\ Orderly(queue', offer')
           /\ offer' \in [Offers -> HandlerRecord]
           /\ \A p \in Offers :
                 /\ offer'[p].phase \in Preparing => offer[p].phase \in Preparing
                 /\ offer'[p].phase = "answering" => offer[p].phase = "answering"
  <1>1. queue' = <<>>
    BY DEF Rejected
  <1>2. Free \in HandlerRecord /\ Free.phase = "free"
    BY DEF Free, Quiet, Input, HandlerRecord, Phase
  <1>3. offer \in [Offers -> HandlerRecord]
    BY Types
  <1>4. /\ offer' \in [Offers -> HandlerRecord]
        /\ \A p \in Offers : offer'[p] \in {Free, offer[p]}
    BY <1>2, <1>3 DEF Rejected
  <1> QED BY <1>1, <1>2, <1>4 DEF Orderly, Preparing

LEMMA DropInv ==
    ASSUME IInv, Drop
    PROVE  IInv'
  <1>1. StopPeer(None) /\ Rejected /\ TypeOK /\ PeerInv
    BY DEF Drop, IInv
  <1>2. link' = "down" /\ UNCHANGED <<input, synced, server, asked, crossed, failed>>
    BY DEF Drop
  <1>3. /\ latest' = None /\ webrtc' = None /\ answered' = None
        /\ peer' \in [Offers -> PeerRecord]
        /\ \A p \in Offers :
              /\ peer'[p].state # "open"
              /\ peer[p].state = "closed" => peer'[p] = peer[p]
    BY <1>1, StopPeerCloses
  <1>4. /\ queue' \in Seq(Update) /\ Orderly(queue', offer')
        /\ offer' \in [Offers -> HandlerRecord]
        /\ \A p \in Offers : offer'[p].phase \in Preparing => offer[p].phase \in Preparing
    BY <1>1, RejectedShape
  <1>5. TypeOK'
    BY <1>1, <1>2, <1>3, <1>4 DEF TypeOK, HandlerRecord, PeerRecord
  <1>6. PeerInv'
    BY <1>1, <1>3, <1>4, NoPeerInv DEF PeerInv
  <1>7. BeliefInv'
    BY <1>2 DEF IInv, BeliefInv, Shown
  <1> QED BY <1>4, <1>5, <1>6, <1>7 DEF IInv

LEMMA ReconnectInv ==
    ASSUME IInv, Reconnect
    PROVE  IInv'
  <1>1. TypeOK'
    BY DEF IInv, Reconnect, TypeOK, Quiet, Input
  <1>2. PeerInv'
    BY DEF IInv, Reconnect, PeerInv
  <1>3. Orderly(queue', offer')
    BY DEF IInv, Reconnect
  <1>4. BeliefInv'
    BY DEF Reconnect, BeliefInv
  <1> QED BY <1>1, <1>2, <1>3, <1>4 DEF IInv

LEMMA LeaveInv ==
    ASSUME IInv, Leave
    PROVE  IInv'
  <1>1. StopPeer(None) /\ TypeOK /\ PeerInv
    BY DEF Leave, IInv
  <1>2. link' = "left" /\ UNCHANGED <<offer, queue, input, synced, server, asked, crossed, failed>>
    BY DEF Leave
  <1>3. /\ latest' = None /\ webrtc' = None /\ answered' = None
        /\ peer' \in [Offers -> PeerRecord]
        /\ \A p \in Offers :
              /\ peer'[p].state # "open"
              /\ peer[p].state = "closed" => peer'[p] = peer[p]
    BY <1>1, StopPeerCloses
  <1>4. TypeOK'
    BY <1>1, <1>2, <1>3 DEF TypeOK, PeerRecord
  <1>5. PeerInv'
    BY <1>1, <1>2, <1>3, NoPeerInv DEF PeerInv
  <1>6. Orderly(queue', offer') /\ BeliefInv'
    BY <1>2 DEF IInv, BeliefInv, Shown
  <1> QED BY <1>4, <1>5, <1>6 DEF IInv

LEMMA DisconnectedInv ==
    ASSUME IInv, Disconnected
    PROVE  IInv'
  <1>1. Rejected /\ TypeOK /\ PeerInv
    BY DEF Disconnected, IInv
  <1>2. /\ link = "left" /\ link' = "gone"
        /\ UNCHANGED <<latest, webrtc, peer, input, synced, server, answered, asked,
                       crossed, failed>>
    BY DEF Disconnected
  <1>3. /\ queue' \in Seq(Update) /\ Orderly(queue', offer')
        /\ offer' \in [Offers -> HandlerRecord]
        /\ \A p \in Offers :
              /\ offer'[p].phase \in Preparing => offer[p].phase \in Preparing
              /\ offer'[p].phase = "answering" => offer[p].phase = "answering"
    BY <1>1, RejectedShape
  <1>4. TypeOK'
    BY <1>1, <1>2, <1>3 DEF TypeOK, HandlerRecord
  <1>5. PeerInv'
    BY <1>1, <1>2, <1>3 DEF PeerInv
  <1>6. BeliefInv'
    BY <1>2 DEF IInv, BeliefInv, Shown
  <1> QED BY <1>3, <1>4, <1>5, <1>6 DEF IInv

-----------------------------------------------------------------------------
(* The theorems. *)

LEMMA InitInv == Init => IInv
<1> SUFFICES ASSUME Init PROVE IInv
  OBVIOUS
<1>1. TypeOK
  <2>1. Free \in HandlerRecord /\ NoPeer \in PeerRecord /\ Quiet \in Input
    BY DEF Free, NoPeer, Quiet, Input, HandlerRecord, PeerRecord, Phase
  <2>2. /\ offer \in [Offers -> HandlerRecord]
        /\ peer \in [Offers -> PeerRecord]
        /\ queue \in Seq(Update)
        /\ input \in Input /\ asked \in Input
    BY <2>1 DEF Init
  <2>3. crossed \in BOOLEAN /\ failed \in BOOLEAN
    BY DEF Init
  <2>4. /\ link \in {"up", "down", "left", "gone"}
        /\ {latest, webrtc, answered} \subseteq Offers \cup {None}
        /\ synced \in {"muted", "audible", "unknown"}
        /\ server \in {"muted", "audible"}
    BY DEF Init
  <2> QED BY <2>2, <2>3, <2>4, Types
<1>2. PeerInv
  BY DEF Init, PeerInv, Free, NoPeer, Preparing
<1>3. Orderly(queue, offer) /\ BeliefInv
  BY DEF Init, Orderly, BeliefInv
<1> QED BY <1>1, <1>2, <1>3 DEF IInv

LEMMA NextInv == IInv /\ [Next]_vars => IInv'
<1> SUFFICES ASSUME IInv, [Next]_vars
             PROVE  IInv'
  OBVIOUS
<1>1. CASE Stop
  BY <1>1, StopInv
<1>2. CASE SetMicrophoneMuted \/ SetAccompanimentActive
  BY <1>2, CommandInv
<1>3. CASE UpdateSkipped \/ UpdateSettles
  BY <1>3, UpdateSettledInv DEF UpdateSettles
<1>4. CASE UpdateSent
  BY <1>4, UpdateSentInv
<1>5. CASE Drop \/ Reconnect \/ Leave \/ Disconnected
  BY <1>5, DropInv, ReconnectInv, LeaveInv, DisconnectedInv
<1>6. CASE \E o \in Offers : Offer(o) \/ Continues(o) \/ Settles(o) \/ PeerClosed(o)
  <2> PICK o \in Offers : Offer(o) \/ Continues(o) \/ Settles(o) \/ PeerClosed(o)
    BY <1>6
  <2>1. CASE Offer(o)
    BY <2>1, OfferInv
  <2>2. CASE Continues(o)
    BY <2>2, StopDoneInv, DiscardedInv, RestoreInv DEF Continues
  <2>3. CASE Settles(o)
    BY <2>3, PeerCreatedInv, RestoreInv, AnswerCreatedInv, AnswerFailedInv DEF Settles
  <2>4. CASE PeerClosed(o)
    BY <2>4, PeerClosedInv
  <2> QED BY <2>1, <2>2, <2>3, <2>4
<1>7. CASE UNCHANGED vars
  BY <1>7 DEF vars, IInv, TypeOK, PeerInv, BeliefInv, Shown
<1> QED BY <1>1, <1>2, <1>3, <1>4, <1>5, <1>6, <1>7 DEF Next

(* Whatever overtakes the suspended handlers of webrtcOffer, the session's
   peer is that of its newest offer, every handler that waits for an update
   has exactly one in the queue, and the belief about TeamSpeak is right. *)
THEOREM Invariance == Spec => []IInv
<1> QED BY InitInv, NextInv, PTL DEF Spec

(* Every variable keeps holding a value of its kind. *)
THEOREM TypeCorrect == Spec => []TypeOK
<1>1. IInv => TypeOK
  BY DEF IInv
<1> QED BY <1>1, Invariance, PTL

(* handleWebRtcOffer and stopWebRtc leave no peer open that is not the peer of
   the newest offer of a connected session. *)
THEOREM PeersOwned == Spec => []PeerOwned
<1>1. IInv => PeerOwned
  BY OffersAssumption DEF IInv, PeerInv, PeerOwned, IsCurrent
<1> QED BY <1>1, Invariance, PTL

(* The browser never holds an answer to another peer than the one whose audio
   the session forwards. *)
THEOREM AnswersMatch == Spec => []AnswerMatchesPeer
<1>1. IInv => AnswerMatchesPeer
  BY DEF IInv, PeerInv, AnswerMatchesPeer
<1> QED BY <1>1, Invariance, PTL

(* syncedInputMuted of TSClient, unless unknown, is what TeamSpeak shows,
   though commands fail, are retried or cut off by a drop. *)
THEOREM BeliefTrue == Spec => []SyncedTruthful
<1>1. IInv => SyncedTruthful
  BY DEF IInv, BeliefInv, SyncedTruthful
<1> QED BY <1>1, Invariance, PTL

=============================================================================
