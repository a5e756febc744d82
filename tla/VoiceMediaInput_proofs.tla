----------------------- MODULE VoiceMediaInput_proofs -----------------------
(***************************************************************************)
(* Proofs about VoiceMedia, continued: what the queue of updates makes of  *)
(* the input state and of the peer once it has been worked off.            *)
(***************************************************************************)
EXTENDS VoiceMedia_proofs

-----------------------------------------------------------------------------
(* The inductive invariant, beside IInv. *)

\* Once queue q is worked off, the state that its updates of this kind set has the
\* value v: that of the last of them, or the value now if there is none.
Ends(q, set, now, v) ==
    \/ \E n \in DOMAIN q : /\ q[n].set = set /\ q[n].to = v
                           /\ \A m \in DOMAIN q : m > n => q[m].set # set
    \/ now = v /\ \A n \in DOMAIN q : q[n].set # set

MuteCommand(u) == u.by = "command" /\ u.set = "muted"

\* The n-th update of q is the one that the handler o waits for.
Own(q, o, n) == n \in DOMAIN q /\ q[n].by = "offer" /\ q[n].id = o

(* What may wait behind the update of the newest offer, and behind its peer: a stop
   or a newer offer would have made another offer the newest. *)
OrderInv ==
    /\ latest # None => link = "up"
    /\ link \in {"down", "gone"} => queue = <<>>
    /\ webrtc # None =>
          /\ offer[webrtc].phase \in {"free", "answering"}
          /\ \A n \in DOMAIN queue : /\ queue[n].by = "command"
                                     /\ queue[n].set = "accompaniment" => queue[n].id = webrtc
    /\ latest # None =>
          /\ offer[latest].phase # "discarding"
          /\ offer[latest].phase = "answering" => webrtc = latest
          /\ offer[latest].phase \in {"muting", "accompanying"} =>
                \A n \in DOMAIN queue : Own(queue, latest, n) =>
                    \A m \in DOMAIN queue : m > n => MuteCommand(queue[m])
          /\ offer[latest].phase = "resolving" => \A n \in DOMAIN queue : MuteCommand(queue[n])

\* The newest offer has not touched the accompaniment yet, or has reset it.
Untouched == {"free", "closing", "muting", "restoring"}

(* Accompaniment: TeamSpeak's is the peer's; without a peer the queue ends it, unless
   the newest offer is bringing about the state its peer will be created with. *)
AccompanimentInv ==
    link = "up" /\ ~failed =>
        /\ webrtc # None => input.accompaniment = peer[webrtc].has.accompaniment
        /\ webrtc = None /\ (latest # None => offer[latest].phase \in Untouched) =>
              Ends(queue, "accompaniment", input.accompaniment, FALSE)
        /\ latest # None =>
              /\ offer[latest].phase = "accompanying" =>
                    \A n \in DOMAIN queue : Own(queue, latest, n) =>
                       /\ queue[n].set = "accompaniment"
                       /\ queue[n].to = offer[latest].wants.accompaniment
              /\ offer[latest].phase = "resolving" =>
                    input.accompaniment = offer[latest].wants.accompaniment

Negotiation == {"closing", "muting", "accompanying", "resolving", "answering"}

(* What the browser asked for last, unless it asked while an offer was handled: the
   queue leads there, for TeamSpeak and for the peer, and a handler wants it. *)
RequestInv ==
    link = "up" /\ ~failed /\ ~crossed =>
        /\ Ends(queue, "muted", input.muted, asked.muted)
        /\ webrtc # None =>
              /\ Ends(queue, "muted", peer[webrtc].has.muted, asked.muted)
              /\ Ends(queue, "accompaniment", peer[webrtc].has.accompaniment, asked.accompaniment)
        /\ latest # None =>
              /\ offer[latest].phase \in Negotiation => offer[latest].wants = asked
              /\ offer[latest].phase \in {"muting", "accompanying"} =>
                    \A n \in DOMAIN queue : Own(queue, latest, n) => n = Len(queue)
              /\ offer[latest].phase \in {"resolving", "answering"} => queue = <<>>

SettleInv == OrderInv /\ AccompanimentInv /\ RequestInv

-----------------------------------------------------------------------------
(* Where a queue ends. *)

LEMMA EndsEmpty ==
    ASSUME NEW set, NEW now, NEW v
    PROVE  Ends(<<>>, set, now, v) <=> now = v
  BY DEF Ends

LEMMA EndsAppend ==
    ASSUME NEW q \in Seq(Update), NEW u \in Update, NEW set, NEW now, NEW v,
           IF u.set = set THEN u.to = v ELSE Ends(q, set, now, v)
    PROVE  Ends(Append(q, u), set, now, v)
  <1> DEFINE r == Append(q, u)
  <1>1. /\ DOMAIN r = 1 .. Len(q) + 1 /\ DOMAIN q = 1 .. Len(q) /\ Len(q) \in Nat
        /\ \A n \in DOMAIN q : r[n] = q[n]
        /\ r[Len(q) + 1] = u
    OBVIOUS
  <1> HIDE DEF r
  <1>2. CASE u.set = set
    BY <1>1, <1>2 DEF Ends
  <1>3. CASE u.set # set
    BY <1>1, <1>3 DEF Ends
  <1> QED BY <1>2, <1>3 DEF r

LEMMA EndsTail ==
    ASSUME NEW q \in Seq(Update), q # <<>>, NEW set, NEW now, NEW v, Ends(q, set, now, v),
           NEW next, next = IF Head(q).set = set THEN Head(q).to ELSE now
    PROVE  Ends(Tail(q), set, next, v)
  <1> DEFINE r == Tail(q)
  <1>1. /\ DOMAIN r = 1 .. Len(q) - 1 /\ DOMAIN q = 1 .. Len(q) /\ Len(q) \in Nat /\ Len(q) > 0
        /\ \A n \in DOMAIN r : r[n] = q[n + 1]
        /\ Head(q) = q[1]
    OBVIOUS
  <1> HIDE DEF r
  <1>2. CASE now = v /\ \A n \in DOMAIN q : q[n].set # set
    BY <1>1, <1>2 DEF Ends
  <1>3. ASSUME NEW n \in DOMAIN q, q[n].set = set, q[n].to = v,
               \A m \in DOMAIN q : m > n => q[m].set # set
        PROVE  Ends(r, set, next, v)
    <2>1. CASE n = 1
      BY <1>1, <1>3, <2>1 DEF Ends
    <2>2. CASE n # 1
      <3>1. n - 1 \in DOMAIN r /\ r[n - 1] = q[n]
        BY <1>1, <1>3, <2>2
      <3>2. \A m \in DOMAIN r : m > n - 1 => r[m].set # set
        BY <1>1, <1>3
      <3> QED BY <1>3, <3>1, <3>2 DEF Ends
    <2> QED BY <2>1, <2>2
  <1> QED BY <1>2, <1>3 DEF Ends, r

\* Sending the first update changes nothing but its mark.
LEMMA SentShape ==
    ASSUME NEW q \in Seq(Update), q # <<>>, NEW r, r = [q EXCEPT ![1].sent = TRUE]
    PROVE  /\ DOMAIN r = DOMAIN q /\ Len(r) = Len(q)
           /\ \A n \in DOMAIN q : /\ r[n].by = q[n].by /\ r[n].id = q[n].id
                                  /\ r[n].set = q[n].set /\ r[n].to = q[n].to
           /\ q # <<>> /\ r # <<>>
  <1>1. \A u \in Update : LET s == [u EXCEPT !.sent = TRUE]
                          IN  s.by = u.by /\ s.id = u.id /\ s.set = u.set /\ s.to = u.to
    BY DEF Update
  <1>2. q[1] \in Update /\ 1 \in DOMAIN q
    OBVIOUS
  <1>3. r = [q EXCEPT ![1] = [q[1] EXCEPT !.sent = TRUE]]
    OBVIOUS
  <1>4. PICK s : s = [q[1] EXCEPT !.sent = TRUE]
    OBVIOUS
  <1>5. s.by = q[1].by /\ s.id = q[1].id /\ s.set = q[1].set /\ s.to = q[1].to
    BY <1>1, <1>2, <1>4, Zenon
  <1>6. r = [q EXCEPT ![1] = s]
    BY <1>3, <1>4, Zenon
  <1> QED BY <1>2, <1>5, <1>6

LEMMA EndsAlike ==
    ASSUME NEW q, NEW r, NEW set, NEW now, NEW v, DOMAIN r = DOMAIN q,
           \A n \in DOMAIN q : r[n].set = q[n].set /\ r[n].to = q[n].to,
           Ends(q, set, now, v)
    PROVE  Ends(r, set, now, v)
  BY DEF Ends

LEMMA AppendAt ==
    ASSUME NEW q \in Seq(Update), NEW u \in Update
    PROVE  /\ DOMAIN Append(q, u) = 1 .. Len(q) + 1 /\ DOMAIN q = 1 .. Len(q)
           /\ Len(q) \in Nat /\ Len(Append(q, u)) = Len(q) + 1
           /\ \A n \in DOMAIN q : Append(q, u)[n] = q[n]
           /\ Append(q, u)[Len(q) + 1] = u
  OBVIOUS

LEMMA TailAt ==
    ASSUME NEW q \in Seq(Update), q # <<>>
    PROVE  /\ DOMAIN Tail(q) = 1 .. Len(q) - 1 /\ DOMAIN q = 1 .. Len(q)
           /\ Len(q) \in Nat /\ Len(q) > 0 /\ Len(Tail(q)) = Len(q) - 1
           /\ \A n \in DOMAIN Tail(q) : Tail(q)[n] = q[n + 1] /\ n + 1 \in DOMAIN q
           /\ Head(q) = q[1] /\ Tail(q) \in Seq(Update)
           /\ Len(q) = 1 => Tail(q) = <<>>
  OBVIOUS

-----------------------------------------------------------------------------
(* Steps that leave the queue and the newest handler alone. *)

LEMMA Kept ==
    ASSUME IInv, SettleInv,
           UNCHANGED <<link, latest, webrtc, queue, input, asked, crossed, failed>>,
           latest # None => offer'[latest] = offer[latest],
           webrtc # None => peer'[webrtc].has = peer[webrtc].has
    PROVE  SettleInv'
  <1>1. webrtc # None => webrtc = latest
    BY DEF IInv, PeerInv
  <1>2. OrderInv'
    BY <1>1 DEF SettleInv, OrderInv, Own, MuteCommand
  <1>3. AccompanimentInv'
    BY <1>1 DEF SettleInv, AccompanimentInv, Own, Ends
  <1>4. RequestInv'
    BY <1>1 DEF SettleInv, RequestInv, Own, Ends
  <1> QED BY <1>2, <1>3, <1>4 DEF SettleInv

LEMMA UpdateSentSettles ==
    ASSUME IInv, SettleInv, UpdateSent
    PROVE  SettleInv'
  <1>1. /\ UNCHANGED <<link, latest, webrtc, offer, peer, input, asked, crossed, failed>>
        /\ queue \in Seq(Update) /\ queue # <<>>
        /\ queue' = [queue EXCEPT ![1].sent = TRUE]
    BY DEF UpdateSent, IInv, TypeOK
  <1>2. /\ DOMAIN queue' = DOMAIN queue /\ Len(queue') = Len(queue)
        /\ \A n \in DOMAIN queue : /\ queue'[n].by = queue[n].by /\ queue'[n].id = queue[n].id
                                   /\ queue'[n].set = queue[n].set /\ queue'[n].to = queue[n].to
        /\ queue # <<>> /\ queue' # <<>>
    BY <1>1, SentShape
  <1>3. \A set, now, v : Ends(queue, set, now, v) => Ends(queue', set, now, v)
    BY <1>2, EndsAlike
  <1>4. OrderInv'
    BY <1>1, <1>2 DEF SettleInv, OrderInv, Own, MuteCommand
  <1>5. \A n : Own(queue', latest, n) => Own(queue, latest, n)
    BY <1>2 DEF Own
  <1>6. \A n : Own(queue, latest, n) => queue'[n].set = queue[n].set /\ queue'[n].to = queue[n].to
    BY <1>2 DEF Own
  <1>7. Ends(queue, "accompaniment", input.accompaniment, FALSE) =>
           Ends(queue', "accompaniment", input.accompaniment, FALSE)
    BY <1>3
  <1>8. AccompanimentInv'
    BY <1>1, <1>2, <1>5, <1>6, <1>7 DEF SettleInv, AccompanimentInv
  <1>9. RequestInv'
    BY <1>1, <1>2, <1>3 DEF SettleInv, RequestInv, Own
  <1> QED BY <1>4, <1>8, <1>9 DEF SettleInv

LEMMA DiscardedSettles ==
    ASSUME IInv, SettleInv, NEW o \in Offers, Discarded(o)
    PROVE  SettleInv'
  <1>1. /\ UNCHANGED <<link, latest, webrtc, peer, queue, input, asked, crossed, failed>>
        /\ offer[o].phase = "discarding" /\ offer' = Done(o)
        /\ offer \in [Offers -> HandlerRecord]
    BY Types DEF Discarded, IInv
  <1>2. latest # o
    BY <1>1, OffersAssumption DEF SettleInv, OrderInv
  <1>3. latest # None => offer'[latest] = offer[latest]
    BY <1>1, <1>2 DEF Done, IInv, TypeOK
  <1> QED BY <1>1, <1>3, Kept

LEMMA PeerClosedSettles ==
    ASSUME IInv, SettleInv, NEW o \in Offers, PeerClosed(o)
    PROVE  SettleInv'
  <1>1. /\ UNCHANGED <<link, latest, webrtc, offer, queue, input, asked, crossed, failed>>
        /\ peer[o].state = "closing" /\ peer' = [peer EXCEPT ![o] = NoPeer]
        /\ peer \in [Offers -> PeerRecord] /\ webrtc \in Offers \cup {None}
    BY Types DEF PeerClosed, IInv, TypeOK
  <1>2. webrtc # o
    BY <1>1, OffersAssumption DEF IInv, PeerInv
  <1>3. webrtc # None => peer'[webrtc].has = peer[webrtc].has
    BY <1>1, <1>2
  <1> QED BY <1>1, <1>3, Kept

-----------------------------------------------------------------------------
(* Steps that end the peer or the connection. *)

LEMMA DropSettles ==
    ASSUME IInv, SettleInv, Drop \/ Leave
    PROVE  SettleInv'
  <1>1. latest' = None /\ webrtc' = None /\ link' \in {"down", "left"}
        /\ (link' = "left" \/ queue' = <<>>)
    BY DEF Drop, Leave, StopPeer, Rejected
  <1> QED BY <1>1 DEF SettleInv, OrderInv, AccompanimentInv, RequestInv

LEMMA DisconnectedSettles ==
    ASSUME IInv, SettleInv, Disconnected
    PROVE  SettleInv'
  <1>1. link = "left" /\ link' = "gone" /\ UNCHANGED <<latest, webrtc>> /\ queue' = <<>>
    BY DEF Disconnected, Rejected
  <1>2. latest = None /\ webrtc = None
    BY <1>1 DEF SettleInv, OrderInv, IInv, PeerInv
  <1> QED BY <1>1, <1>2 DEF SettleInv, OrderInv, AccompanimentInv, RequestInv

LEMMA ReconnectSettles ==
    ASSUME IInv, SettleInv, Reconnect
    PROVE  SettleInv'
  <1>1. link = "down" /\ link' = "up" /\ UNCHANGED <<latest, webrtc, queue>>
        /\ input' = Quiet /\ asked' = Quiet
    BY DEF Reconnect
  <1>2. latest' = None /\ webrtc' = None /\ queue' = <<>>
    BY <1>1 DEF SettleInv, OrderInv, IInv, PeerInv
  <1>3. /\ Ends(queue', "accompaniment", input'.accompaniment, FALSE)
        /\ Ends(queue', "muted", input'.muted, asked'.muted)
    <2>1. input'.accompaniment = FALSE /\ input'.muted = asked'.muted
      BY <1>1 DEF Quiet
    <2> QED BY <1>2, <2>1, EndsEmpty
  <1> QED BY <1>1, <1>2, <1>3 DEF SettleInv, OrderInv, AccompanimentInv, RequestInv

\* stopWebRtc of a connected session.
LEMMA StopQueues ==
    ASSUME IInv, SettleInv, NEW o \in Offers \cup {None}, StopWebRtc(o), link = "up",
           link' = link, input' = input, failed' = failed, crossed' = crossed,
           asked'.muted = asked.muted,
           o # None => offer'[o].phase = "closing" /\ offer'[o].wants = asked'
    PROVE  SettleInv'
  <1> DEFINE v == Pending("stop", o, "accompaniment", FALSE)
  <1>1. /\ latest' = o /\ webrtc' = None /\ queue' = Append(queue, v)
        /\ queue \in Seq(Update) /\ v \in Update /\ v.set = "accompaniment" /\ v.to = FALSE
    BY PendingUpdate DEF StopWebRtc, StopPeer, IInv, TypeOK, Pending
  <1> HIDE DEF v
  <1>2. \A now : Ends(queue', "accompaniment", now, FALSE)
    BY <1>1, EndsAppend
  <1>3. \A now, to : Ends(queue, "muted", now, to) => Ends(queue', "muted", now, to)
    BY <1>1, EndsAppend
  <1>4. OrderInv'
    BY <1>1 DEF SettleInv, OrderInv
  <1>5. AccompanimentInv'
    BY <1>1, <1>2 DEF SettleInv, AccompanimentInv
  <1>6. RequestInv'
    BY <1>1, <1>3 DEF SettleInv, RequestInv
  <1> QED BY <1>4, <1>5, <1>6 DEF SettleInv

LEMMA OfferSettles ==
    ASSUME IInv, SettleInv, NEW o \in Offers, Offer(o)
    PROVE  SettleInv'
  <1>1. PICK wants \in [muted: {asked.muted}, accompaniment: Values] :
           /\ offer' = [offer EXCEPT ![o] = [phase |-> "closing", wants |-> wants, old |-> webrtc]]
           /\ asked' = wants
    BY DEF Offer
  <1>2. StopWebRtc(o) /\ link = "up" /\ UNCHANGED <<link, input, crossed, failed>>
    BY DEF Offer
  <1>3. offer'[o].phase = "closing" /\ offer'[o].wants = asked' /\ asked'.muted = asked.muted
    BY <1>1 DEF IInv, TypeOK
  <1> QED BY <1>2, <1>3, StopQueues

LEMMA StopSettles ==
    ASSUME IInv, SettleInv, Stop
    PROVE  SettleInv'
  <1>1. StopWebRtc(None) /\ UNCHANGED <<link, input, crossed, failed>>
        /\ link \in {"up", "down"} /\ asked'.muted = asked.muted
    BY DEF Stop, IInv, TypeOK, Input
  <1>2. CASE link = "up"
    BY <1>1, <1>2, StopQueues
  <1>3. CASE link = "down"
    <2>1. latest' = None /\ webrtc' = None /\ queue' = queue /\ link' = "down"
      BY <1>1, <1>3 DEF StopWebRtc, StopPeer
    <2> QED BY <1>3, <2>1 DEF SettleInv, OrderInv, AccompanimentInv, RequestInv
  <1> QED BY <1>1, <1>2, <1>3

-----------------------------------------------------------------------------
(* Steps of the newest handler. *)

LEMMA HandlerFields ==
    ASSUME IInv, NEW o \in Offers
    PROVE  /\ \A next \in Phase : /\ To(o, next)[o].phase = next
                                  /\ To(o, next)[o].wants = offer[o].wants
           /\ Done(o)[o].phase = "free"
           /\ \A p \in Offers \ {o} : /\ Done(o)[p] = offer[p]
                                      /\ \A next \in Phase : To(o, next)[p] = offer[p]
  <1>1. offer \in [Offers -> HandlerRecord]
    BY Types DEF IInv
  <1>2. Free.phase = "free"
    BY DEF Free
  <1>3. ASSUME NEW next \in Phase
        PROVE  /\ To(o, next)[o].phase = next /\ To(o, next)[o].wants = offer[o].wants
               /\ \A p \in Offers \ {o} : To(o, next)[p] = offer[p]
    BY <1>1 DEF To, HandlerRecord
  <1>4. /\ Done(o)[o].phase = "free"
        /\ \A p \in Offers \ {o} : Done(o)[p] = offer[p]
    BY <1>1, <1>2 DEF Done
  <1> QED BY <1>3, <1>4

\* A handler that is not current gives up.
LEMMA OthersSettle ==
    ASSUME IInv, SettleInv, NEW o \in Offers, latest # o,
           \A p \in Offers \ {o} : offer'[p] = offer[p],
           UNCHANGED <<link, latest, webrtc, peer, queue, input, asked, crossed, failed>>
    PROVE  SettleInv'
  <1>1. latest # None => offer'[latest] = offer[latest]
    BY DEF IInv, TypeOK
  <1> QED BY <1>1, Kept

\* A handler prepares its peer only while there is none.
LEMMA NoPeerYet ==
    ASSUME IInv, SettleInv, NEW o \in Offers, latest = o,
           offer[o].phase \notin {"free", "answering"}
    PROVE  webrtc = None
  BY DEF IInv, PeerInv, SettleInv, OrderInv

LEMMA StopDoneSettles ==
    ASSUME IInv, SettleInv, NEW o \in Offers, StopDone(o)
    PROVE  SettleInv'
  <1>1. /\ offer[o].phase = "closing" /\ queue \in Seq(Update) /\ Orderly(queue, offer)
        /\ UNCHANGED <<link, latest, webrtc, peer, input, asked, crossed, failed>>
        /\ offer \in [Offers -> HandlerRecord]
    BY Types DEF IInv, StopDone
  <1>2. CASE IsCurrent(o)
    <2> DEFINE v == Pending("offer", o, "muted", offer[o].wants.muted)
    <2>1. offer' = To(o, "muting") /\ queue' = Append(queue, v) /\ latest = o /\ link = "up"
      BY <1>2 DEF StopDone, IsCurrent
    <2>2. offer[o].wants.muted \in BOOLEAN
      BY <1>1 DEF HandlerRecord, Input
    <2>3. /\ v \in Update /\ v.set = "muted" /\ v.to = offer[o].wants.muted
          /\ v.by = "offer" /\ v.id = o
      BY <2>2, PendingUpdate DEF Pending
    <2>4. offer'[o].phase = "muting" /\ offer'[o].wants = offer[o].wants
      BY <2>1, HandlerFields DEF Phase
    <2>5. webrtc = None /\ o # None
      BY <1>1, <2>1, NoPeerYet, OffersAssumption
    <2> HIDE DEF v
    <2>6. ~Has(queue, o)
      BY <1>1, NoneQueued DEF Awaiting
    <2>7. \A n \in DOMAIN queue' : Own(queue', o, n) => n = Len(queue')
      BY <1>1, <2>1, <2>3, <2>6, AppendAt DEF Own, Has
    <2>8. \A n, m \in DOMAIN queue' : n = Len(queue') => ~(m > n)
      BY <1>1, <2>1, <2>3, AppendAt
    <2>9. OrderInv'
      BY <1>1, <2>1, <2>4, <2>5, <2>7, <2>8 DEF SettleInv, OrderInv
    <2>10. Ends(queue, "accompaniment", input.accompaniment, FALSE) =>
              Ends(queue', "accompaniment", input'.accompaniment, FALSE)
      BY <1>1, <2>1, <2>3, EndsAppend
    <2>11. AccompanimentInv'
      BY <1>1, <2>1, <2>4, <2>5, <2>10 DEF SettleInv, AccompanimentInv, Untouched
    <2>12. \A now : v.to = asked.muted => Ends(queue', "muted", now, asked.muted)
      BY <1>1, <2>1, <2>3, EndsAppend
    <2>13. RequestInv'
      BY <1>1, <2>1, <2>3, <2>4, <2>5, <2>7, <2>12 DEF SettleInv, RequestInv, Negotiation
    <2> QED BY <2>9, <2>11, <2>13 DEF SettleInv
  <1>3. CASE ~IsCurrent(o)
    <2>1. offer' = Done(o) /\ queue' = queue
      BY <1>3 DEF StopDone
    <2>2. latest # o
      BY <1>3, OffersAssumption DEF SettleInv, OrderInv, IsCurrent
    <2> QED BY <1>1, <2>1, <2>2, HandlerFields, OthersSettle
  <1> QED BY <1>2, <1>3

LEMMA PeerCreatedSettles ==
    ASSUME IInv, SettleInv, NEW o \in Offers, PeerCreated(o)
    PROVE  SettleInv'
  <1>1. /\ offer[o].phase = "resolving" /\ queue \in Seq(Update)
        /\ UNCHANGED <<link, latest, queue, input, asked, crossed, failed>>
        /\ offer \in [Offers -> HandlerRecord] /\ peer \in [Offers -> PeerRecord]
    BY Types DEF IInv, PeerCreated
  <1>2. CASE IsCurrent(o)
    <2>1. /\ offer' = To(o, "answering") /\ webrtc' = o /\ latest = o /\ link = "up"
          /\ peer' = [peer EXCEPT ![o] = [state |-> "open", has |-> offer[o].wants]]
      BY <1>2 DEF PeerCreated, IsCurrent
    <2>2. offer'[o].phase = "answering" /\ offer'[o].wants = offer[o].wants
      BY <2>1, HandlerFields DEF Phase
    <2>3. peer'[o].has = offer[o].wants
      BY <1>1, <2>1
    <2>4. o # None
      BY OffersAssumption
    <2>5. \A n \in DOMAIN queue : MuteCommand(queue[n])
      BY <1>1, <2>1, <2>4 DEF SettleInv, OrderInv
    <2>6. OrderInv'
      BY <1>1, <2>1, <2>2, <2>4, <2>5 DEF SettleInv, OrderInv, MuteCommand
    <2>7. AccompanimentInv'
      BY <1>1, <2>1, <2>2, <2>3, <2>4 DEF SettleInv, AccompanimentInv
    <2>8. CASE failed \/ crossed
      BY <1>1, <2>6, <2>7, <2>8 DEF SettleInv, RequestInv
    <2>9. CASE ~failed /\ ~crossed
      <3>1. queue = <<>> /\ offer[o].wants = asked /\ Ends(queue, "muted", input.muted, asked.muted)
        BY <1>1, <2>1, <2>4, <2>9 DEF SettleInv, RequestInv, Negotiation
      <3>2. \A set, now, v : now = v => Ends(queue', set, now, v)
        BY <1>1, <3>1, EndsEmpty
      <3>3. RequestInv'
        BY <1>1, <2>1, <2>2, <2>3, <2>4, <3>1, <3>2 DEF RequestInv
      <3> QED BY <2>6, <2>7, <3>3 DEF SettleInv
    <2> QED BY <2>8, <2>9
  <1>3. CASE ~IsCurrent(o)
    <2>1. offer' = Done(o) /\ UNCHANGED <<webrtc, peer>>
      BY <1>3 DEF PeerCreated
    <2>2. latest # o
      BY <1>3, OffersAssumption DEF SettleInv, OrderInv, IsCurrent
    <2> QED BY <1>1, <2>1, <2>2, HandlerFields, OthersSettle
  <1> QED BY <1>2, <1>3

LEMMA RestoreSettles ==
    ASSUME IInv, SettleInv, NEW o \in Offers, PeerUnavailable(o) \/ FailedPeerClosed(o)
    PROVE  SettleInv'
  <1>1. /\ offer[o].phase \in {"resolving", "failing"} /\ queue \in Seq(Update) /\ Restore(o)
        /\ UNCHANGED <<link, latest, webrtc, peer, input, asked, crossed, failed>>
        /\ offer \in [Offers -> HandlerRecord]
    BY Types DEF IInv, PeerUnavailable, FailedPeerClosed
  <1>2. CASE IsCurrent(o)
    <2> DEFINE v == Pending("offer", o, "accompaniment", FALSE)
    <2>1. offer' = To(o, "restoring") /\ queue' = Append(queue, v) /\ latest = o /\ link = "up"
      BY <1>1, <1>2 DEF Restore, IsCurrent
    <2>2. v \in Update /\ v.set = "accompaniment" /\ v.to = FALSE
      BY PendingUpdate DEF Pending
    <2>3. offer'[o].phase = "restoring"
      BY <2>1, HandlerFields DEF Phase
    <2>4. webrtc = None /\ o # None
      BY <1>1, <2>1, NoPeerYet, OffersAssumption
    <2> HIDE DEF v
    <2>5. OrderInv'
      BY <1>1, <2>1, <2>3, <2>4 DEF SettleInv, OrderInv
    <2>6. Ends(queue', "accompaniment", input'.accompaniment, FALSE)
      BY <1>1, <2>1, <2>2, EndsAppend
    <2>7. AccompanimentInv'
      BY <1>1, <2>1, <2>3, <2>4, <2>6 DEF AccompanimentInv
    <2>8. Ends(queue, "muted", input.muted, asked.muted) =>
             Ends(queue', "muted", input'.muted, asked'.muted)
      BY <1>1, <2>1, <2>2, EndsAppend
    <2>9. RequestInv'
      BY <1>1, <2>1, <2>3, <2>4, <2>8 DEF SettleInv, RequestInv, Negotiation
    <2> QED BY <2>5, <2>7, <2>9 DEF SettleInv
  <1>3. CASE ~IsCurrent(o)
    <2>1. offer' = Done(o) /\ queue' = queue
      BY <1>1, <1>3 DEF Restore
    <2>2. latest # o
      BY <1>3, OffersAssumption DEF SettleInv, OrderInv, IsCurrent
    <2> QED BY <1>1, <2>1, <2>2, HandlerFields, OthersSettle
  <1> QED BY <1>2, <1>3

LEMMA AnswerCreatedSettles ==
    ASSUME IInv, SettleInv, NEW o \in Offers, AnswerCreated(o)
    PROVE  SettleInv'
  <1>1. /\ offer[o].phase = "answering" /\ PeerInv /\ TypeOK
        /\ UNCHANGED <<link, latest, webrtc, queue, input, asked, crossed, failed>>
    BY DEF IInv, AnswerCreated
  <1>2. CASE IsCurrentPeer(o)
    <2>1. offer' = Done(o) /\ UNCHANGED peer /\ webrtc = o /\ latest = o /\ link = "up" /\ o # None
      BY <1>2, OffersAssumption DEF AnswerCreated, IsCurrentPeer, IsCurrent
    <2>2. offer'[o].phase = "free"
      BY <2>1, HandlerFields
    <2>3. OrderInv'
      BY <1>1, <2>1, <2>2 DEF SettleInv, OrderInv
    <2>4. AccompanimentInv'
      BY <1>1, <2>1, <2>2 DEF SettleInv, AccompanimentInv
    <2>5. RequestInv'
      BY <1>1, <2>1, <2>2 DEF SettleInv, RequestInv, Negotiation, Ends
    <2> QED BY <2>3, <2>4, <2>5 DEF SettleInv
  <1>3. CASE ~IsCurrentPeer(o)
    <2>1. offer' = To(o, "discarding") /\ peer' = PeerClosing(o)
      BY <1>3 DEF AnswerCreated
    <2>2. webrtc # o /\ latest # o /\ webrtc \in Offers \cup {None} /\ latest \in Offers \cup {None}
      BY <1>1, <1>3, OffersAssumption
      DEF PeerInv, IsCurrentPeer, IsCurrent, SettleInv, OrderInv, TypeOK
    <2>3. webrtc # None => peer'[webrtc] = peer[webrtc]
      BY <1>1, <2>1, <2>2, PeerClosingShape
    <2>4. latest # None => offer'[latest] = offer[latest]
      BY <2>1, <2>2, HandlerFields DEF Phase
    <2> QED BY <1>1, <2>3, <2>4, Kept
  <1> QED BY <1>2, <1>3

LEMMA AnswerFailedSettles ==
    ASSUME IInv, SettleInv, NEW o \in Offers, AnswerFailed(o)
    PROVE  SettleInv'
  <1>1. /\ offer[o].phase = "answering" /\ PeerInv /\ TypeOK
        /\ webrtc' = (IF webrtc = o THEN None ELSE webrtc)
        /\ offer' = To(o, "failing") /\ peer' = PeerClosing(o)
        /\ UNCHANGED <<link, latest, queue, input, asked, crossed, failed>>
        /\ webrtc \in Offers \cup {None} /\ latest \in Offers \cup {None} /\ o # None
    BY OffersAssumption DEF IInv, AnswerFailed, TypeOK
  <1>2. /\ offer'[o].phase = "failing"
        /\ \A p \in Offers \ {o} : offer'[p] = offer[p]
    BY <1>1, HandlerFields DEF Phase
  <1>3. CASE latest = o
    <2>1. webrtc' = None
      BY <1>1, <1>3 DEF SettleInv, OrderInv
    <2>2. OrderInv'
      BY <1>1, <1>2, <1>3, <2>1 DEF SettleInv, OrderInv
    <2>3. AccompanimentInv'
      BY <1>1, <1>2, <1>3, <2>1 DEF AccompanimentInv, Untouched
    <2>4. RequestInv'
      BY <1>1, <1>2, <1>3, <2>1 DEF SettleInv, RequestInv, Negotiation, Ends
    <2> QED BY <2>2, <2>3, <2>4 DEF SettleInv
  <1>4. CASE latest # o
    <2>1. webrtc # o
      BY <1>1, <1>4 DEF PeerInv
    <2>2. webrtc # None => peer'[webrtc] = peer[webrtc]
      BY <1>1, <2>1, PeerClosingShape
    <2>3. latest # None => offer'[latest] = offer[latest]
      BY <1>1, <1>2, <1>4
    <2> QED BY <1>1, <2>1, <2>2, <2>3, Kept
  <1> QED BY <1>3, <1>4

-----------------------------------------------------------------------------
(* Commands of the browser. *)

LEMMA AppendedOrder ==
    ASSUME IInv, SettleInv, NEW v \in Update, v.by = "command",
           v.set = "accompaniment" => webrtc # None /\ v.id = webrtc,
           v.set \in {"muted", "accompaniment"}, link = "up",
           queue' = Append(queue, v), UNCHANGED <<link, latest, webrtc, offer>>
    PROVE  /\ OrderInv'
           /\ latest # None => \A n : Own(queue', latest, n) =>
                                  Own(queue, latest, n) /\ n \in DOMAIN queue /\ queue'[n] = queue[n]
  <1>1. /\ queue \in Seq(Update)
        /\ DOMAIN queue' = 1 .. Len(queue) + 1 /\ DOMAIN queue = 1 .. Len(queue)
        /\ Len(queue) \in Nat
        /\ \A n \in DOMAIN queue : queue'[n] = queue[n]
        /\ queue'[Len(queue) + 1] = v
    BY AppendAt DEF IInv, TypeOK
  <1>2. \A n \in DOMAIN queue' : n \in DOMAIN queue \/ n = Len(queue) + 1
    BY <1>1
  <1>3. \A o, n : Own(queue', o, n) => Own(queue, o, n) /\ n \in DOMAIN queue /\ queue'[n] = queue[n]
    BY <1>1, <1>2 DEF Own
  <1>4. webrtc # None => webrtc = latest
    BY DEF IInv, PeerInv
  <1>5. webrtc # None =>
          \A n \in DOMAIN queue' : /\ queue'[n].by = "command"
                                   /\ queue'[n].set = "accompaniment" => queue'[n].id = webrtc
    BY <1>1, <1>2 DEF SettleInv, OrderInv
  <1>6. latest # None /\ offer[latest].phase \notin {"free", "answering"} => MuteCommand(v)
    BY <1>4 DEF SettleInv, OrderInv, MuteCommand
  <1>7. OrderInv'
    BY <1>1, <1>2, <1>3, <1>5, <1>6 DEF SettleInv, OrderInv
  <1> QED BY <1>3, <1>7

LEMMA NotNegotiating ==
    ASSUME IInv, SettleInv, link = "up", latest # None, ~\E o \in Offers : Negotiating(o)
    PROVE  offer[latest].phase = "free"
  BY DEF IInv, TypeOK, Negotiating, IsCurrent

LEMMA SetMicrophoneMutedSettles ==
    ASSUME IInv, SettleInv, SetMicrophoneMuted
    PROVE  SettleInv'
  <1>1. PICK muted \in Values :
           /\ queue' = Append(queue, Pending("command", None, "muted", muted))
           /\ asked' = [asked EXCEPT !.muted = muted]
    BY DEF SetMicrophoneMuted
  <1> DEFINE v == Pending("command", None, "muted", muted)
  <1>2. /\ v \in Update /\ v.by = "command" /\ v.set = "muted" /\ v.to = muted
        /\ queue \in Seq(Update)
    BY PendingUpdate, ValuesAssumption DEF Pending, IInv, TypeOK
  <1>3. /\ link = "up" /\ UNCHANGED <<link, latest, webrtc, offer, peer, input, failed>>
        /\ crossed' = (crossed \/ \E o \in Offers : Negotiating(o))
        /\ queue' = Append(queue, v)
    BY <1>1 DEF SetMicrophoneMuted
  <1>4. asked'.muted = muted /\ asked'.accompaniment = asked.accompaniment
    BY <1>1 DEF IInv, TypeOK, Input
  <1> HIDE DEF v
  <1>5. /\ OrderInv'
        /\ latest # None => \A n : Own(queue', latest, n) =>
                               Own(queue, latest, n) /\ n \in DOMAIN queue /\ queue'[n] = queue[n]
    BY <1>2, <1>3, AppendedOrder
  <1>6. \A now, to : Ends(queue, "accompaniment", now, to) => Ends(queue', "accompaniment", now, to)
    BY <1>2, <1>3, EndsAppend
  <1>7. \A now : Ends(queue', "muted", now, muted)
    BY <1>2, <1>3, EndsAppend
  <1>8. AccompanimentInv'
    <2>1. Ends(queue, "accompaniment", input.accompaniment, FALSE) =>
             Ends(queue', "accompaniment", input'.accompaniment, FALSE)
      BY <1>3, <1>6
    <2> QED BY <1>3, <1>5, <2>1 DEF SettleInv, AccompanimentInv
  <1>9. RequestInv'
    <2>1. Ends(queue', "muted", input'.muted, asked'.muted)
          /\ Ends(queue', "muted", peer'[webrtc].has.muted, asked'.muted)
      BY <1>4, <1>7
    <2>2. Ends(queue, "accompaniment", peer[webrtc].has.accompaniment, asked.accompaniment) =>
             Ends(queue', "accompaniment", peer'[webrtc].has.accompaniment, asked'.accompaniment)
      BY <1>3, <1>4, <1>6
    <2>3. ~crossed' => ~crossed /\ (latest # None => offer'[latest].phase = "free")
      BY <1>3, NotNegotiating
    <2> QED BY <1>3, <2>1, <2>2, <2>3 DEF SettleInv, RequestInv, Negotiation
  <1> QED BY <1>5, <1>8, <1>9 DEF SettleInv

LEMMA SetAccompanimentActiveSettles ==
    ASSUME IInv, SettleInv, SetAccompanimentActive
    PROVE  SettleInv'
  <1>1. PICK active \in Values :
           /\ queue' = IF webrtc = None THEN queue
                       ELSE Append(queue, Pending("command", webrtc, "accompaniment", active))
           /\ asked' = [asked EXCEPT !.accompaniment = active]
    BY DEF SetAccompanimentActive
  <1>2. /\ link = "up" /\ UNCHANGED <<link, latest, webrtc, offer, peer, input, failed>>
        /\ crossed' = (crossed \/ \E o \in Offers : Negotiating(o))
        /\ webrtc # None \/ \E o \in Offers : Negotiating(o)
    BY DEF SetAccompanimentActive
  <1>3. CASE webrtc = None
    <2>1. crossed' = TRUE /\ queue' = queue
      BY <1>1, <1>2, <1>3
    <2>2. OrderInv'
      BY <1>2, <2>1 DEF SettleInv, OrderInv, Own, MuteCommand
    <2>3. AccompanimentInv'
      BY <1>2, <2>1 DEF SettleInv, AccompanimentInv, Own, Ends
    <2> QED BY <2>1, <2>2, <2>3 DEF SettleInv, RequestInv
  <1>4. CASE webrtc # None
    <2> DEFINE v == Pending("command", webrtc, "accompaniment", active)
    <2>1. /\ v \in Update /\ v.by = "command" /\ v.set = "accompaniment" /\ v.to = active
          /\ v.id = webrtc /\ queue \in Seq(Update) /\ queue' = Append(queue, v)
      BY <1>1, <1>4, PendingUpdate, ValuesAssumption DEF Pending, IInv, TypeOK
    <2>2. asked'.accompaniment = active /\ asked'.muted = asked.muted
      BY <1>1 DEF IInv, TypeOK, Input
    <2> HIDE DEF v
    <2>3. /\ OrderInv'
          /\ latest # None => \A n : Own(queue', latest, n) =>
                                 Own(queue, latest, n) /\ n \in DOMAIN queue /\ queue'[n] = queue[n]
      BY <1>2, <1>4, <2>1, AppendedOrder
    <2>4. \A now, to : Ends(queue, "muted", now, to) => Ends(queue', "muted", now, to)
      BY <2>1, EndsAppend
    <2>5. \A now : Ends(queue', "accompaniment", now, active)
      BY <2>1, EndsAppend
    <2>6. AccompanimentInv'
      BY <1>2, <1>4, <2>3 DEF SettleInv, AccompanimentInv
    <2>7. RequestInv'
      <3>1. Ends(queue, "muted", input.muted, asked.muted) =>
               Ends(queue', "muted", input'.muted, asked'.muted)
        BY <1>2, <2>2, <2>4
      <3>2. Ends(queue, "muted", peer[webrtc].has.muted, asked.muted) =>
               Ends(queue', "muted", peer'[webrtc].has.muted, asked'.muted)
        BY <1>2, <2>2, <2>4
      <3>3. Ends(queue', "accompaniment", peer'[webrtc].has.accompaniment, asked'.accompaniment)
        BY <2>2, <2>5
      <3>4. ~crossed' => ~crossed /\ (latest # None => offer'[latest].phase = "free")
        BY <1>2, NotNegotiating
      <3> QED BY <1>2, <1>4, <3>1, <3>2, <3>3, <3>4 DEF SettleInv, RequestInv, Negotiation
    <2> QED BY <2>3, <2>6, <2>7 DEF SettleInv
  <1> QED BY <1>3, <1>4

-----------------------------------------------------------------------------
(* An update settles. *)

\* The update was not the newest handler's.
OthersUpdate ==
    /\ queue' = Tail(queue)
    /\ latest # None => ~Own(queue, latest, 1) /\ offer'[latest] = offer[latest]

\* It was, and the handler goes on from one phase to the next.
Went(from, next) ==
    /\ latest # None /\ link = "up" /\ webrtc = None /\ Own(queue, latest, 1)
    /\ offer[latest].phase = from /\ offer'[latest].phase = next
    /\ next # "free" => offer'[latest].wants = offer[latest].wants

AccompanimentUpdate ==
    Pending("offer", latest, "accompaniment", offer[latest].wants.accompaniment)

LEMMA ContinuedCases ==
    ASSUME IInv, SettleInv, queue # <<>>, NEW accepted \in BOOLEAN,
           Continued(Head(queue), accepted)
    PROVE  \/ OthersUpdate
           \/ Went("restoring", "free") /\ queue' = Tail(queue)
           \/ Went("muting", "accompanying") /\ queue' = Append(Tail(queue), AccompanimentUpdate)
           \/ Went("accompanying", "resolving") /\ queue' = Tail(queue)
           \/ ~accepted /\ Went("muting", "resolving") /\ queue' = Tail(queue)
  <1>1. /\ queue \in Seq(Update) /\ Orderly(queue, offer) /\ latest \in Offers \cup {None}
        /\ offer \in [Offers -> HandlerRecord]
    BY Types DEF IInv, TypeOK
  <1>2. PICK u \in Update : u = Head(queue) /\ u = queue[1] /\ 1 \in DOMAIN queue
    BY <1>1, TailShape
  <1>3. CASE u.by # "offer"
    BY <1>2, <1>3 DEF Continued, OthersUpdate, Own
  <1>4. CASE u.by = "offer"
    <2>1. PICK o \in Offers : o = u.id
      BY <1>2, <1>4, UpdateShape
    <2>2. offer[o].phase \in Awaiting
      BY <1>1, <1>2, <1>4, <2>1 DEF Orderly
    <2>3. /\ \A p \in Offers \ {o} : /\ Done(o)[p] = offer[p]
                                     /\ \A next \in Phase : To(o, next)[p] = offer[p]
          /\ Done(o)[o].phase = "free"
          /\ \A next \in Phase : To(o, next)[o].phase = next
                                 /\ To(o, next)[o].wants = offer[o].wants
      BY HandlerFields
    <2>4. "accompanying" \in Phase /\ "resolving" \in Phase
      BY DEF Phase
    <2>5. CASE latest # o
      <3>1. queue' = Tail(queue) /\ offer' = Done(o)
        BY <1>2, <1>4, <2>1, <2>5 DEF Continued, IsCurrent
      <3>2. latest # None => ~Own(queue, latest, 1)
        BY <1>2, <1>4, <2>1, <2>5 DEF Own
      <3>3. latest # None => offer'[latest] = offer[latest]
        BY <1>1, <2>3, <2>5, <3>1
      <3> QED BY <3>1, <3>2, <3>3 DEF OthersUpdate
    <2>6. CASE latest = o
      <3>1. latest # None /\ link = "up" /\ webrtc = None /\ Own(queue, latest, 1) /\ IsCurrent(o)
        BY <1>2, <1>4, <2>1, <2>6, OffersAssumption
        DEF SettleInv, OrderInv, Own, IsCurrent
      <3>2. CASE offer[o].phase = "restoring"
        BY <1>2, <1>4, <2>1, <2>3, <2>6, <3>1, <3>2 DEF Continued, Went
      <3>3. CASE offer[o].phase = "muting" /\ accepted
        <4>1. offer' = To(o, "accompanying") /\ queue' = Append(Tail(queue), AccompanimentUpdate)
          BY <1>2, <1>4, <2>1, <2>6, <3>1, <3>3 DEF Continued, AccompanimentUpdate
        <4> QED BY <2>3, <2>4, <2>6, <3>1, <3>3, <4>1 DEF Went
      <3>4. CASE offer[o].phase = "accompanying" \/ (offer[o].phase = "muting" /\ ~accepted)
        <4>1. offer' = To(o, "resolving") /\ queue' = Tail(queue)
          BY <1>2, <1>4, <2>1, <2>6, <3>1, <3>4 DEF Continued
        <4> QED BY <2>3, <2>4, <2>6, <3>1, <3>4, <4>1 DEF Went
      <3>5. \/ offer[o].phase = "restoring"
            \/ offer[o].phase = "muting"
            \/ offer[o].phase = "accompanying"
        BY <2>2 DEF Awaiting
      <3> QED BY <3>2, <3>3, <3>4, <3>5, Zenon
    <2> QED BY <2>5, <2>6
  <1> QED BY <1>3, <1>4

\* What is left of the queue.
LEMMA TailOwn ==
    ASSUME NEW q \in Seq(Update), q # <<>>
    PROVE  /\ \A o, n : Own(Tail(q), o, n) => Own(q, o, n + 1) /\ Tail(q)[n] = q[n + 1]
           /\ \A n \in DOMAIN Tail(q) : n + 1 \in DOMAIN q /\ n + 1 > 1 /\ Tail(q)[n] = q[n + 1]
           /\ \A n, m \in DOMAIN Tail(q) : m > n => m + 1 > n + 1
  BY TailAt DEF Own

LEMMA ContinuedOrder ==
    ASSUME IInv, SettleInv, queue # <<>>, NEW accepted \in BOOLEAN,
           Continued(Head(queue), accepted), UNCHANGED <<link, latest, webrtc>>
    PROVE  OrderInv'
  <1>1. /\ queue \in Seq(Update) /\ 1 \in DOMAIN queue
        /\ Tail(queue) \in Seq(Update) /\ link \notin {"down", "gone"}
    BY TailShape DEF IInv, TypeOK, SettleInv, OrderInv
  <1>2. /\ \A n : Own(Tail(queue), latest, n) => Own(queue, latest, n + 1)
        /\ \A n \in DOMAIN Tail(queue) :
              n + 1 \in DOMAIN queue /\ n + 1 > 1 /\ Tail(queue)[n] = queue[n + 1]
        /\ \A n, m \in DOMAIN Tail(queue) : m > n => m + 1 > n + 1
    BY <1>1, TailOwn
  <1>3. webrtc # None => webrtc = latest
    BY DEF IInv, PeerInv
  <1>4. CASE OthersUpdate
    <2>1. webrtc' # None =>
             /\ offer'[webrtc'].phase \in {"free", "answering"}
             /\ \A n \in DOMAIN queue' :
                   /\ queue'[n].by = "command"
                   /\ queue'[n].set = "accompaniment" => queue'[n].id = webrtc'
      BY <1>2, <1>3, <1>4 DEF OthersUpdate, SettleInv, OrderInv
    <2>2. ASSUME latest # None, offer[latest].phase \in {"muting", "accompanying"},
                 NEW n \in DOMAIN queue', Own(queue', latest, n),
                 NEW m \in DOMAIN queue', m > n
          PROVE  MuteCommand(queue'[m])
      <3>1. /\ n \in DOMAIN Tail(queue) /\ m \in DOMAIN Tail(queue)
            /\ Own(queue, latest, n + 1) /\ queue'[m] = queue[m + 1]
            /\ m + 1 > n + 1 /\ m + 1 \in DOMAIN queue /\ n + 1 \in DOMAIN queue
        BY <1>2, <1>4, <2>2 DEF OthersUpdate
      <3> QED BY <2>2, <3>1 DEF SettleInv, OrderInv
    <2>3. latest # None /\ offer[latest].phase = "resolving" =>
             \A n \in DOMAIN queue' : MuteCommand(queue'[n])
      BY <1>2, <1>4 DEF OthersUpdate, SettleInv, OrderInv
    <2>4. latest # None =>
             /\ offer'[latest].phase # "discarding"
             /\ offer'[latest].phase = "answering" => webrtc' = latest
             /\ offer'[latest].phase = offer[latest].phase
      BY <1>4 DEF OthersUpdate, SettleInv, OrderInv
    <2>5. latest' # None => link' = "up"
      BY DEF SettleInv, OrderInv
    <2> QED BY <1>1, <2>1, <2>2, <2>3, <2>4, <2>5 DEF OrderInv
  <1>5. CASE Went("restoring", "free")
    BY <1>1, <1>5 DEF Went, OrderInv
  <1>6. ASSUME Went("muting", "accompanying") \/ Went("accompanying", "resolving")
               \/ Went("muting", "resolving")
        PROVE  \A n \in DOMAIN Tail(queue) : MuteCommand(Tail(queue)[n])
    <2>1. /\ latest # None /\ offer[latest].phase \in {"muting", "accompanying"}
          /\ Own(queue, latest, 1)
      BY <1>6 DEF Went
    <2> QED BY <1>1, <1>2, <2>1 DEF SettleInv, OrderInv
  <1>7. CASE Went("muting", "accompanying") /\ queue' = Append(Tail(queue), AccompanimentUpdate)
    <2>1. /\ DOMAIN queue' = 1 .. Len(Tail(queue)) + 1 /\ Len(Tail(queue)) \in Nat
          /\ DOMAIN Tail(queue) = 1 .. Len(Tail(queue))
          /\ \A n \in DOMAIN Tail(queue) : queue'[n] = Tail(queue)[n]
      <3>1. latest \in Offers /\ offer[latest].wants.accompaniment \in BOOLEAN
        BY <1>7 DEF Went, IInv, TypeOK, Input
      <3>2. PICK v \in Update : v = AccompanimentUpdate
        BY <3>1, PendingUpdate DEF AccompanimentUpdate
      <3> QED BY <1>1, <1>7, <3>2, AppendAt
    <2>2. \A n \in DOMAIN queue' : Own(queue', latest, n) => n = Len(Tail(queue)) + 1
      <3> SUFFICES ASSUME NEW n \in DOMAIN queue', Own(queue', latest, n),
                          n \in DOMAIN Tail(queue)
                   PROVE  FALSE
        BY <2>1
      <3>1. MuteCommand(queue'[n])
        BY <1>6, <1>7, <2>1
      <3> QED BY <3>1 DEF MuteCommand, Own
    <2>3. \A n \in DOMAIN queue' : Own(queue', latest, n) =>
             \A m \in DOMAIN queue' : m > n => MuteCommand(queue'[m])
      BY <2>1, <2>2
    <2> QED BY <1>1, <1>7, <2>3 DEF Went, OrderInv
  <1>8. CASE (Went("accompanying", "resolving") \/ Went("muting", "resolving"))
             /\ queue' = Tail(queue)
    BY <1>1, <1>6, <1>8 DEF Went, OrderInv
  <1> QED BY <1>4, <1>5, <1>7, <1>8, ContinuedCases

\* An accepted update changes the input state and the peer alike.
LEMMA AppliedFields ==
    ASSUME IInv, OrderInv, NEW u \in Update, u = queue[1], 1 \in DOMAIN queue,
           input' = Changed(u), peer' = Applied(u)
    PROVE  /\ input'.muted = IF u.set = "muted" THEN u.to ELSE input.muted
           /\ input'.accompaniment = IF u.set = "accompaniment" THEN u.to ELSE input.accompaniment
           /\ webrtc # None =>
                 /\ peer'[webrtc].has.muted = IF u.set = "muted" THEN u.to
                                              ELSE peer[webrtc].has.muted
                 /\ peer'[webrtc].has.accompaniment = IF u.set = "accompaniment" THEN u.to
                                                      ELSE peer[webrtc].has.accompaniment
  <1>1. /\ input \in Input /\ peer \in [Offers -> PeerRecord] /\ webrtc \in Offers \cup {None}
        /\ u.set \in {"muted", "accompaniment"} /\ u.to \in BOOLEAN
    BY Types, UpdateShape DEF IInv, TypeOK
  <1>2. \A i \in Input, set \in {"muted", "accompaniment"}, to \in BOOLEAN :
           /\ [i EXCEPT ![set] = to].muted = IF set = "muted" THEN to ELSE i.muted
           /\ [i EXCEPT ![set] = to].accompaniment = IF set = "accompaniment" THEN to
                                                     ELSE i.accompaniment
    BY DEF Input
  <1>3. /\ input'.muted = IF u.set = "muted" THEN u.to ELSE input.muted
        /\ input'.accompaniment = IF u.set = "accompaniment" THEN u.to ELSE input.accompaniment
    BY <1>1, <1>2, Zenon DEF Changed
  <1>4. ASSUME webrtc # None
        PROVE  /\ peer'[webrtc].has.muted = IF u.set = "muted" THEN u.to
                                            ELSE peer[webrtc].has.muted
               /\ peer'[webrtc].has.accompaniment = IF u.set = "accompaniment" THEN u.to
                                                    ELSE peer[webrtc].has.accompaniment
    <2>1. u.by = "command" /\ (u.set = "muted" \/ webrtc = u.id)
      BY <1>1, <1>4 DEF OrderInv
    <2>2. PICK has : has = [peer[webrtc].has EXCEPT ![u.set] = u.to]
      OBVIOUS
    <2>3. peer[webrtc].has \in Input
      BY <1>1, <1>4 DEF PeerRecord
    <2>4. /\ has.muted = IF u.set = "muted" THEN u.to ELSE peer[webrtc].has.muted
          /\ has.accompaniment = IF u.set = "accompaniment" THEN u.to
                                 ELSE peer[webrtc].has.accompaniment
      BY <1>1, <1>2, <2>2, <2>3, Zenon
    <2>5. peer' = [peer EXCEPT ![webrtc] = [peer[webrtc] EXCEPT !.has = has]]
      BY <1>1, <1>4, <2>1, <2>2 DEF Applied, PeerRecord
    <2>6. peer'[webrtc].has = has
      BY <1>1, <1>4, <2>5 DEF PeerRecord
    <2> QED BY <2>4, <2>6
  <1> QED BY <1>3, <1>4

LEMMA TailEnds ==
    ASSUME IInv, OrderInv, queue # <<>>, NEW q, q = Tail(queue),
           input' = Changed(Head(queue)), peer' = Applied(Head(queue))
    PROVE  /\ \A v : Ends(queue, "muted", input.muted, v) => Ends(q, "muted", input'.muted, v)
           /\ \A v : Ends(queue, "accompaniment", input.accompaniment, v) =>
                        Ends(q, "accompaniment", input'.accompaniment, v)
           /\ webrtc # None =>
                 /\ \A v : Ends(queue, "muted", peer[webrtc].has.muted, v) =>
                              Ends(q, "muted", peer'[webrtc].has.muted, v)
                 /\ \A v : Ends(queue, "accompaniment", peer[webrtc].has.accompaniment, v) =>
                              Ends(q, "accompaniment", peer'[webrtc].has.accompaniment, v)
  <1>1. queue \in Seq(Update)
    BY DEF IInv, TypeOK
  <1>2. PICK u \in Update : u = Head(queue) /\ u = queue[1] /\ 1 \in DOMAIN queue
    BY <1>1, TailShape
  <1>3. /\ input'.muted = IF u.set = "muted" THEN u.to ELSE input.muted
        /\ input'.accompaniment = IF u.set = "accompaniment" THEN u.to ELSE input.accompaniment
        /\ webrtc # None =>
              /\ peer'[webrtc].has.muted = IF u.set = "muted" THEN u.to
                                           ELSE peer[webrtc].has.muted
              /\ peer'[webrtc].has.accompaniment = IF u.set = "accompaniment" THEN u.to
                                                   ELSE peer[webrtc].has.accompaniment
    BY <1>2, AppliedFields
  <1>4. \A set, now, v, next :
           /\ Ends(queue, set, now, v)
           /\ next = (IF u.set = set THEN u.to ELSE now)
           => Ends(q, set, next, v)
    BY <1>1, <1>2, EndsTail
  <1> HIDE DEF Ends
  <1> QED BY <1>3, <1>4, Zenon

LEMMA AcceptedAgrees ==
    ASSUME IInv, SettleInv, queue # <<>>, Continued(Head(queue), TRUE),
           UNCHANGED <<link, latest, webrtc, failed>>,
           input' = Changed(Head(queue)), peer' = Applied(Head(queue))
    PROVE  AccompanimentInv'
  <1>1. /\ queue \in Seq(Update) /\ OrderInv /\ AccompanimentInv
        /\ webrtc # None => webrtc = latest
    BY DEF IInv, TypeOK, SettleInv, PeerInv
  <1>2. PICK u \in Update : u = Head(queue) /\ u = queue[1] /\ 1 \in DOMAIN queue
    BY <1>1, TailShape
  <1>3. /\ input'.accompaniment = IF u.set = "accompaniment" THEN u.to ELSE input.accompaniment
        /\ webrtc # None =>
              peer'[webrtc].has.accompaniment = IF u.set = "accompaniment" THEN u.to
                                                ELSE peer[webrtc].has.accompaniment
    BY <1>1, <1>2, AppliedFields
  <1>4. /\ \A n : Own(Tail(queue), latest, n) =>
                     Own(queue, latest, n + 1) /\ Tail(queue)[n] = queue[n + 1]
        /\ \A n \in DOMAIN Tail(queue) :
              n + 1 \in DOMAIN queue /\ n + 1 > 1 /\ Tail(queue)[n] = queue[n + 1]
    BY <1>1, TailOwn
  <1>5. ASSUME link = "up", ~failed
        PROVE  webrtc # None => input'.accompaniment = peer'[webrtc].has.accompaniment
    BY <1>1, <1>3, <1>5 DEF AccompanimentInv
  <1>6. Ends(queue, "accompaniment", input.accompaniment, FALSE) =>
           Ends(Tail(queue), "accompaniment", input'.accompaniment, FALSE)
    BY <1>1, TailEnds
  <1>7. CASE OthersUpdate
    <2>1. ASSUME latest # None, offer[latest].phase = "resolving", link = "up", ~failed
          PROVE  input'.accompaniment = offer[latest].wants.accompaniment
      <3>1. MuteCommand(u)
        BY <1>1, <1>2, <2>1 DEF OrderInv
      <3> QED BY <1>1, <1>3, <2>1, <3>1 DEF MuteCommand, AccompanimentInv
    <2>2. ASSUME latest # None, offer[latest].phase = "accompanying", link = "up", ~failed,
                 NEW n \in DOMAIN queue', Own(queue', latest, n)
          PROVE  /\ queue'[n].set = "accompaniment"
                 /\ queue'[n].to = offer[latest].wants.accompaniment
      <3>1. Own(queue, latest, n + 1) /\ queue'[n] = queue[n + 1] /\ n + 1 \in DOMAIN queue
        BY <1>4, <1>7, <2>2 DEF OthersUpdate
      <3> QED BY <1>1, <2>2, <3>1 DEF AccompanimentInv
    <2> QED BY <1>1, <1>5, <1>6, <1>7, <2>1, <2>2 DEF OthersUpdate, AccompanimentInv
  <1>8. CASE Went("restoring", "free") /\ queue' = Tail(queue)
    BY <1>1, <1>6, <1>8 DEF Went, AccompanimentInv, Untouched
  <1>9. CASE Went("muting", "accompanying") /\ queue' = Append(Tail(queue), AccompanimentUpdate)
    <2>1. latest \in Offers /\ offer[latest].wants.accompaniment \in BOOLEAN
      BY <1>9 DEF Went, IInv, TypeOK, Input
    <2>2. PICK v \in Update : v = AccompanimentUpdate
      BY <2>1, PendingUpdate DEF AccompanimentUpdate
    <2>3. v.set = "accompaniment" /\ v.to = offer[latest].wants.accompaniment
      BY <2>2 DEF AccompanimentUpdate, Pending
    <2>4. Tail(queue) \in Seq(Update)
      BY <1>1, TailShape
    <2>5. \A n \in DOMAIN queue' :
             \/ n \in DOMAIN Tail(queue) /\ queue'[n] = Tail(queue)[n]
             \/ queue'[n] = v
      BY <1>9, <2>2, <2>4, AppendShape
    <2>6. ASSUME NEW n \in DOMAIN queue', Own(queue', latest, n)
          PROVE  queue'[n] = v
      <3> SUFFICES ASSUME n \in DOMAIN Tail(queue), queue'[n] = Tail(queue)[n]
                   PROVE  FALSE
        BY <2>5
      <3>1. MuteCommand(queue'[n])
        BY <1>1, <1>4, <1>9 DEF Went, OrderInv
      <3> QED BY <2>6, <3>1 DEF MuteCommand, Own
    <2> QED BY <1>9, <2>3, <2>6 DEF Went, AccompanimentInv, Untouched
  <1>10. CASE Went("accompanying", "resolving") /\ queue' = Tail(queue)
    <2>1. ASSUME link = "up", ~failed
          PROVE  input'.accompaniment = offer'[latest].wants.accompaniment
      BY <1>1, <1>2, <1>3, <1>10, <2>1 DEF Went, AccompanimentInv
    <2> QED BY <1>10, <2>1 DEF Went, AccompanimentInv, Untouched
  <1> QED BY <1>7, <1>8, <1>9, <1>10, ContinuedCases

LEMMA AcceptedRequests ==
    ASSUME IInv, SettleInv, queue # <<>>, Continued(Head(queue), TRUE),
           UNCHANGED <<link, latest, webrtc, asked, crossed, failed>>,
           input' = Changed(Head(queue)), peer' = Applied(Head(queue))
    PROVE  RequestInv'
  <1>1. /\ queue \in Seq(Update) /\ OrderInv /\ RequestInv /\ 1 \in DOMAIN queue
        /\ webrtc # None => webrtc = latest
    BY TailShape DEF IInv, TypeOK, SettleInv, PeerInv
  <1>2. \A n : Own(Tail(queue), latest, n) => Own(queue, latest, n + 1) /\ n + 1 \in DOMAIN queue
    BY <1>1, TailOwn DEF Own
  <1>3. /\ DOMAIN Tail(queue) = 1 .. Len(queue) - 1 /\ DOMAIN queue = 1 .. Len(queue)
        /\ Len(queue) \in Nat /\ Len(Tail(queue)) = Len(queue) - 1
        /\ Len(queue) = 1 => Tail(queue) = <<>>
        /\ Tail(queue) \in Seq(Update)
    BY <1>1, TailAt
  <1>4. /\ Ends(queue, "muted", input.muted, asked.muted) =>
              Ends(Tail(queue), "muted", input'.muted, asked'.muted)
        /\ webrtc # None =>
              /\ Ends(queue, "muted", peer[webrtc].has.muted, asked.muted) =>
                    Ends(Tail(queue), "muted", peer'[webrtc].has.muted, asked'.muted)
              /\ Ends(queue, "accompaniment", peer[webrtc].has.accompaniment,
                      asked.accompaniment) =>
                    Ends(Tail(queue), "accompaniment", peer'[webrtc].has.accompaniment,
                         asked'.accompaniment)
    BY <1>1, TailEnds
  <1> SUFFICES ASSUME link = "up", ~failed, ~crossed
               PROVE  RequestInv'
    BY DEF RequestInv
  <1>5. CASE OthersUpdate
    <2>1. ASSUME latest # None, offer[latest].phase \in {"muting", "accompanying"},
                 NEW n \in DOMAIN queue', Own(queue', latest, n)
          PROVE  n = Len(queue')
      <3>1. n + 1 = Len(queue) /\ n \in Nat
        BY <1>1, <1>2, <1>3, <1>5, <2>1 DEF OthersUpdate, RequestInv
      <3> QED BY <1>3, <1>5, <3>1 DEF OthersUpdate
    <2>2. latest # None => offer[latest].phase \notin {"resolving", "answering"}
      BY <1>1 DEF RequestInv
    <2> QED BY <1>1, <1>4, <1>5, <2>1, <2>2 DEF OthersUpdate, RequestInv
  <1>6. CASE Went("restoring", "free") /\ queue' = Tail(queue)
    BY <1>1, <1>4, <1>6 DEF Went, RequestInv, Negotiation
  <1>7. ASSUME Went("muting", "accompanying") \/ Went("accompanying", "resolving")
        PROVE  /\ Tail(queue) = <<>> /\ offer'[latest].wants = asked
               /\ webrtc' = None /\ latest # None
    <2>1. 1 = Len(queue)
      BY <1>1, <1>7 DEF Went, RequestInv
    <2> QED BY <1>1, <1>3, <1>7, <2>1 DEF Went, RequestInv, Negotiation
  <1>8. CASE Went("muting", "accompanying") /\ queue' = Append(Tail(queue), AccompanimentUpdate)
    <2>1. latest \in Offers /\ offer[latest].wants.accompaniment \in BOOLEAN
      BY <1>8 DEF Went, IInv, TypeOK, Input
    <2>2. PICK v \in Update : v = AccompanimentUpdate
      BY <2>1, PendingUpdate DEF AccompanimentUpdate
    <2>3. v.set = "accompaniment"
      BY <2>2 DEF AccompanimentUpdate, Pending
    <2>4. Ends(queue', "muted", input'.muted, asked'.muted)
      <3>1. Ends(Tail(queue), "muted", input'.muted, asked'.muted)
        BY <1>1, <1>4 DEF RequestInv
      <3> QED BY <1>3, <1>8, <2>2, <2>3, <3>1, EndsAppend
    <2>5. \A n \in DOMAIN queue' : n = Len(queue')
      BY <1>3, <1>7, <1>8, <2>2, AppendAt
    <2> QED BY <1>7, <1>8, <2>4, <2>5 DEF Went, RequestInv
  <1>9. CASE Went("accompanying", "resolving") /\ queue' = Tail(queue)
    <2>1. Ends(queue', "muted", input'.muted, asked'.muted)
      BY <1>1, <1>4, <1>9 DEF RequestInv
    <2> QED BY <1>7, <1>9, <2>1 DEF Went, RequestInv
  <1> QED BY <1>5, <1>6, <1>8, <1>9, ContinuedCases

LEMMA UpdateSettledSettles ==
    ASSUME IInv, SettleInv, UpdateSkipped \/ UpdateAccepted \/ UpdateFailed
    PROVE  SettleInv'
  <1>1. CASE UpdateSkipped \/ UpdateAccepted
    <2>1. /\ queue # <<>> /\ Continued(Head(queue), TRUE)
          /\ UNCHANGED <<link, latest, webrtc, asked, crossed, failed>>
          /\ input' = Changed(Head(queue)) /\ peer' = Applied(Head(queue))
      BY <1>1 DEF UpdateSkipped, UpdateAccepted
    <2> QED BY <2>1, ContinuedOrder, AcceptedAgrees, AcceptedRequests DEF SettleInv
  <1>2. CASE UpdateFailed
    <2>1. /\ queue # <<>> /\ Continued(Head(queue), FALSE)
          /\ UNCHANGED <<link, latest, webrtc>> /\ failed' = TRUE
      BY <1>2 DEF UpdateFailed
    <2>2. OrderInv'
      BY <2>1, ContinuedOrder
    <2> QED BY <2>1, <2>2 DEF SettleInv, AccompanimentInv, RequestInv
  <1> QED BY <1>1, <1>2

-----------------------------------------------------------------------------
(* The theorems. *)

LEMMA InitSettles == Init => SettleInv
<1> SUFFICES ASSUME Init PROVE SettleInv
  OBVIOUS
<1>1. /\ link = "up" /\ latest = None /\ webrtc = None /\ queue = <<>>
      /\ input.accompaniment = FALSE /\ input.muted = asked.muted
  BY DEF Init, Quiet
<1>2. /\ Ends(queue, "accompaniment", input.accompaniment, FALSE)
      /\ Ends(queue, "muted", input.muted, asked.muted)
  BY <1>1, EndsEmpty
<1> QED BY <1>1, <1>2 DEF SettleInv, OrderInv, AccompanimentInv, RequestInv

LEMMA NextSettles == IInv /\ SettleInv /\ [Next]_vars => SettleInv'
<1> SUFFICES ASSUME IInv, SettleInv, [Next]_vars
             PROVE  SettleInv'
  OBVIOUS
<1>1. CASE Stop
  BY <1>1, StopSettles
<1>2. CASE SetMicrophoneMuted \/ SetAccompanimentActive
  BY <1>2, SetMicrophoneMutedSettles, SetAccompanimentActiveSettles
<1>3. CASE UpdateSkipped \/ UpdateSettles
  BY <1>3, UpdateSettledSettles DEF UpdateSettles
<1>4. CASE UpdateSent
  BY <1>4, UpdateSentSettles
<1>5. CASE Drop \/ Reconnect \/ Leave \/ Disconnected
  BY <1>5, DropSettles, ReconnectSettles, DisconnectedSettles
<1>6. CASE \E o \in Offers : Offer(o) \/ Continues(o) \/ Settles(o) \/ PeerClosed(o)
  <2> PICK o \in Offers : Offer(o) \/ Continues(o) \/ Settles(o) \/ PeerClosed(o)
    BY <1>6
  <2>1. CASE Offer(o)
    BY <2>1, OfferSettles
  <2>2. CASE Continues(o)
    BY <2>2, StopDoneSettles, DiscardedSettles, RestoreSettles DEF Continues
  <2>3. CASE Settles(o)
    BY <2>3, PeerCreatedSettles, RestoreSettles, AnswerCreatedSettles, AnswerFailedSettles
    DEF Settles
  <2>4. CASE PeerClosed(o)
    BY <2>4, PeerClosedSettles
  <2> QED BY <2>1, <2>2, <2>3, <2>4
<1>7. CASE UNCHANGED vars
  BY <1>7, Kept DEF vars
<1> QED BY <1>1, <1>2, <1>3, <1>4, <1>5, <1>6, <1>7 DEF Next

(* Wherever the queue of updates stands, it leads to the state the session
   settles in: no accompaniment without a peer, the same for TeamSpeak and the
   peer otherwise, and the state the browser asked for last. *)
THEOREM QueueLeadsThere == Spec => [](IInv /\ SettleInv)
<1>1. Init => IInv /\ SettleInv
  BY InitInv, InitSettles
<1>2. (IInv /\ SettleInv) /\ [Next]_vars => (IInv /\ SettleInv)'
  BY NextInv, NextSettles
<1> QED BY <1>1, <1>2, PTL DEF Spec

LEMMA IdleEnds ==
    ASSUME SettleInv, Idle, TypeOK
    PROVE  /\ queue = <<>>
           /\ latest # None => offer[latest].phase = "free"
           /\ \A set, now, v : Ends(queue, set, now, v) => now = v
  BY EndsEmpty DEF Idle, TypeOK

(* However offers, stops, failures of a peer and commands interleave in the
   queue of updateInputState, accompaniment is on for TeamSpeak, once nothing
   is pending and nothing failed, exactly if it is for the session's peer. *)
THEOREM AccompanimentSettles == Spec => []AccompanimentAgrees
<1>1. IInv /\ SettleInv => AccompanimentAgrees
  <2> SUFFICES ASSUME IInv, SettleInv, Idle, link = "up", ~failed
               PROVE  input.accompaniment = (webrtc # None /\ peer[webrtc].has.accompaniment)
    BY DEF AccompanimentAgrees
  <2>1. /\ latest # None => offer[latest].phase = "free"
        /\ \A set, now, v : Ends(queue, set, now, v) => now = v
    BY IdleEnds DEF IInv
  <2>2. CASE webrtc = None
    <3>1. Ends(queue, "accompaniment", input.accompaniment, FALSE)
      BY <2>1, <2>2 DEF SettleInv, AccompanimentInv, Untouched
    <3>2. input.accompaniment = FALSE
      BY <2>1, <3>1, Zenon
    <3> QED BY <2>2, <3>2
  <2>3. CASE webrtc # None
    <3>1. input.accompaniment = peer[webrtc].has.accompaniment
      BY <2>3 DEF SettleInv, AccompanimentInv
    <3>2. peer[webrtc].has.accompaniment \in BOOLEAN
      BY <2>3 DEF IInv, TypeOK, Input
    <3> QED BY <2>3, <3>1, <3>2
  <2> QED BY <2>2, <2>3
<1> QED BY <1>1, QueueLeadsThere, PTL

(* The mute and accompaniment state the browser asked for last, outside a
   negotiation, is what TSClient and the peer end up with. *)
THEOREM LastRequestKept == Spec => []LastRequestHonoured
<1>1. IInv /\ SettleInv => LastRequestHonoured
  <2> SUFFICES ASSUME IInv, SettleInv, Idle, link = "up", ~failed, ~crossed
               PROVE  Honoured
    BY DEF LastRequestHonoured
  <2>1. \A set, now, v : Ends(queue, set, now, v) => now = v
    BY IdleEnds DEF IInv
  <2>2. Ends(queue, "muted", input.muted, asked.muted)
    BY DEF SettleInv, RequestInv
  <2>3. input.muted = asked.muted
    BY <2>1, <2>2, Zenon
  <2>4. ASSUME webrtc # None
        PROVE  peer[webrtc].has = asked
    <3>1. /\ Ends(queue, "muted", peer[webrtc].has.muted, asked.muted)
          /\ Ends(queue, "accompaniment", peer[webrtc].has.accompaniment, asked.accompaniment)
      BY <2>4 DEF SettleInv, RequestInv
    <3>2. /\ peer[webrtc].has.muted = asked.muted
          /\ peer[webrtc].has.accompaniment = asked.accompaniment
      BY <2>1, <3>1, Zenon
    <3>3. peer[webrtc].has \in Input /\ asked \in Input
      BY <2>4 DEF IInv, TypeOK
    <3> QED BY <3>2, <3>3 DEF Input
  <2> QED BY <2>3, <2>4 DEF Honoured
<1> QED BY <1>1, QueueLeadsThere, PTL

=============================================================================
