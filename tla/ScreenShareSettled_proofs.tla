--------------------- MODULE ScreenShareSettled_proofs ---------------------
(***************************************************************************)
(* Proofs about ScreenShare once everything is handled: the publications,  *)
(* cards and audiences that the gateway counts are those of TeamSpeak, for *)
(* any number of sessions, native users, channels and stream ids, and      *)
(* without its bounds on messages.                                         *)
(***************************************************************************)
EXTENDS ScreenShare_proofs

-----------------------------------------------------------------------------
(* Queues. *)

Old(m) == [m EXCEPT !.current = FALSE]

(* r is q after its first s messages were handled, those in out went out of
   date and exactly the messages in new were added. *)
Passed(q, r, s, out, new) ==
    /\ s <= Len(q) /\ Len(q) - s <= Len(r)
    /\ \A k \in 1..(Len(q) - s) : r[k] = IF q[k + s] \in out THEN Old(q[k + s]) ELSE q[k + s]
    /\ \A k \in 1..Len(r) : k > Len(q) - s => r[k] \in new
    /\ \A m \in new : \E k \in 1..Len(r) : k > Len(q) - s /\ r[k] = m

Is(m, type, id) == m.type = type /\ m.id = id

\* The message is in q, or behind position k of it.
Has(q, type, id) == \E n \in 1..Len(q) : Is(q[n], type, id)
Behind(q, k, type, id) == \E n \in 1..Len(q) : n > k /\ Is(q[n], type, id)

LEMMA OldShape ==
    ASSUME NEW m \in Message
    PROVE  /\ Old(m) \in Message /\ Old(m).current = FALSE
           /\ Old(m).type = m.type /\ Old(m).id = m.id /\ Old(m).of = m.of
  BY DEF Old, Message

LEMMA PassedShape ==
    ASSUME NEW q \in Seq(Message), NEW r \in Seq(Message), NEW s \in {0, 1},
           NEW out, NEW new, Passed(q, r, s, out, new)
    PROVE  /\ \A k \in 1..Len(r) : k <= Len(q) - s =>
                 /\ k + s \in 1..Len(q)
                 /\ r[k].type = q[k + s].type /\ r[k].id = q[k + s].id /\ r[k].of = q[k + s].of
                 /\ q[k + s] \notin out => r[k] = q[k + s]
                 /\ q[k + s] \in out => ~r[k].current
           /\ \A k \in 1..Len(r) : k > Len(q) - s => r[k] \in new
           /\ \A k \in 1..Len(q) : k > s => k - s \in 1..Len(r) /\ (k - s) + s = k
           /\ \A m \in new : \E k \in 1..Len(r) : k > Len(q) - s /\ r[k] = m
  <1>1. ASSUME NEW k \in 1..Len(r), k <= Len(q) - s
        PROVE  /\ k + s \in 1..Len(q)
               /\ r[k].type = q[k + s].type /\ r[k].id = q[k + s].id /\ r[k].of = q[k + s].of
               /\ q[k + s] \notin out => r[k] = q[k + s]
               /\ q[k + s] \in out => ~r[k].current
    <2>1. k \in 1..(Len(q) - s) /\ k + s \in 1..Len(q)
      BY <1>1
    <2>2. q[k + s] \in Message
      BY <2>1
    <2>3. r[k] = IF q[k + s] \in out THEN Old(q[k + s]) ELSE q[k + s]
      BY <2>1 DEF Passed
    <2> QED BY <2>1, <2>2, <2>3, OldShape, Zenon
  <1>2. ASSUME NEW k \in 1..Len(q), k > s
        PROVE  k - s \in 1..Len(r) /\ (k - s) + s = k
    BY <1>2 DEF Passed
  <1>3. \A k \in 1..Len(r) : k > Len(q) - s => r[k] \in new
    BY DEF Passed
  <1>4. \A m \in new : \E k \in 1..Len(r) : k > Len(q) - s /\ r[k] = m
    BY DEF Passed
  <1> QED BY <1>1, <1>2, <1>3, <1>4

\* Where a message is that is not handled.
LEMMA PassedAt ==
    ASSUME NEW q \in Seq(Message), NEW r \in Seq(Message), NEW s \in {0, 1},
           NEW out, NEW new, Passed(q, r, s, out, new), NEW n \in 1..Len(q), n > s
    PROVE  \E k \in 1..Len(r) :
              /\ k + s = n /\ k <= Len(q) - s
              /\ r[k].type = q[n].type /\ r[k].id = q[n].id /\ r[k].of = q[n].of
              /\ q[n] \notin out => r[k] = q[n]
  <1>1. PICK k \in 1..Len(r) : k + s = n
    BY PassedShape
  <1>2. Len(q) \in Nat /\ k \in Nat
    OBVIOUS
  <1>3. k <= Len(q) - s
    BY <1>1, <1>2
  <1>4. /\ r[k].type = q[n].type /\ r[k].id = q[n].id /\ r[k].of = q[n].of
        /\ q[n] \notin out => r[k] = q[n]
    BY <1>1, <1>3, PassedShape
  <1> QED BY <1>1, <1>3, <1>4

\* A message stays, unless it is the one that is handled.
LEMMA HasPassed ==
    ASSUME NEW q \in Seq(Message), NEW r \in Seq(Message), NEW s \in {0, 1},
           NEW out, NEW new, Passed(q, r, s, out, new), NEW type, NEW id,
           Has(q, type, id), ~(s = 1 /\ Is(q[1], type, id))
    PROVE  Has(r, type, id)
  <1>1. PICK n \in 1..Len(q) : Is(q[n], type, id)
    BY DEF Has
  <1>2. n > s
    BY <1>1
  <1>3. PICK k \in 1..Len(r) : r[k].type = q[n].type /\ r[k].id = q[n].id
    BY <1>2, PassedAt
  <1> QED BY <1>1, <1>3 DEF Has, Is

LEMMA BehindPassed ==
    ASSUME NEW q \in Seq(Message), NEW r \in Seq(Message), NEW s \in {0, 1},
           NEW out, NEW new, Passed(q, r, s, out, new), NEW type, NEW id,
           NEW k \in 1..Len(r), k <= Len(q) - s, Behind(q, k + s, type, id)
    PROVE  Behind(r, k, type, id)
  <1>1. PICK n \in 1..Len(q) : n > k + s /\ Is(q[n], type, id)
    BY DEF Behind
  <1>2. n > s
    BY <1>1
  <1>3. PICK i \in 1..Len(r) : i + s = n /\ r[i].type = q[n].type /\ r[i].id = q[n].id
    BY <1>2, PassedAt
  <1>4. i > k
    BY <1>1, <1>3
  <1> QED BY <1>1, <1>3, <1>4 DEF Behind, Is

LEMMA NewBehind ==
    ASSUME NEW q \in Seq(Message), NEW r \in Seq(Message), NEW s \in {0, 1},
           NEW out, NEW new, Passed(q, r, s, out, new), NEW m \in new
    PROVE  /\ Has(r, m.type, m.id)
           /\ \A k \in 1..Len(r) : k <= Len(q) - s => Behind(r, k, m.type, m.id)
  <1>1. PICK n \in 1..Len(r) : n > Len(q) - s /\ r[n] = m
    BY PassedShape
  <1>2. Is(r[n], m.type, m.id)
    BY <1>1 DEF Is
  <1>3. \A k \in 1..Len(r) : k <= Len(q) - s => n > k
    BY <1>1
  <1> QED BY <1>2, <1>3 DEF Has, Behind

\* What is behind the message that is handled is in what is left.
LEMMA TailHas ==
    ASSUME NEW q \in Seq(Message), NEW r \in Seq(Message), NEW out, NEW new,
           Passed(q, r, 1, out, new), NEW type, NEW id, Behind(q, 1, type, id)
    PROVE  Has(r, type, id)
  <1>1. PICK n \in 1..Len(q) : n > 1 /\ Is(q[n], type, id)
    BY DEF Behind
  <1>2. PICK k \in 1..Len(r) : r[k].type = q[n].type /\ r[k].id = q[n].id
    BY <1>1, PassedAt
  <1>3. Is(r[k], type, id)
    BY <1>1, <1>2 DEF Is
  <1> QED BY <1>2, <1>3 DEF Has

-----------------------------------------------------------------------------
(* The inductive invariant: publications and references to them. *)

Own(m) == m.current /\ m.of \in Browsers

Linked(b, id) == streams[b] # None /\ streams[b].link = id
Card(id, c) == streams[id] # None /\ streams[id].src = c

\* Who an id was given to, as any part of the system has it: for a share, or for a card.
OwnClaim(id, c) ==
    \/ Linked(c, id)
    \/ live[id] = c
    \/ \E v \in Browsers : \E n \in 1..Len(inbox[v]) :
          Is(inbox[v][n], "started", id) /\ inbox[v][n].of = c /\ Own(inbox[v][n])

CardClaim(id, c) ==
    \/ Card(id, c)
    \/ live[id] = c /\ c \in Natives
    \/ \E v \in Browsers : \E n \in 1..Len(inbox[v]) :
          Is(inbox[v][n], "started", id) /\ inbox[v][n].of = c /\ ~Own(inbox[v][n])

OneClaim ==
    \A id \in Ids :
       /\ \A c, d \in Browsers : OwnClaim(id, c) /\ OwnClaim(id, d) => c = d
       /\ \A c, d \in Clients : CardClaim(id, c) /\ CardClaim(id, d) => c = d
       /\ \A c \in Browsers : \A d \in Clients : ~(OwnClaim(id, c) /\ CardClaim(id, d))

\* Only connected sessions have anything to handle, a publication or a command to send.
OnlyUp ==
    /\ \A v \in Browsers : inbox[v] # <<>> => v \in Up
    /\ \A v \in Browsers : \A n \in 1..Len(inbox[v]) :
          inbox[v][n].type = "started" /\ Own(inbox[v][n]) => inbox[v][n].of \in Up
    /\ \A id \in Ids : live[id] \in Browsers => live[id] \in Up
    /\ \A c \in retry : c.by \in Up

StoppedTrue ==
    \A v \in Browsers, id \in Ids : Has(inbox[v], "stopped", id) => live[id] = None

\* An announcement is true, or its end is behind it.
StartedTrue ==
    \A v \in Browsers : \A n \in 1..Len(inbox[v]) :
       inbox[v][n].type = "started" =>
          \/ live[inbox[v][n].id] = inbox[v][n].of
          \/ Behind(inbox[v], n, "stopped", inbox[v][n].id)

\* The end of a stream that the registry has will be handled.
Ending(id) == \E v \in Browsers : Has(inbox[v], "stopped", id)

RefTrue ==
    \A id \in Ids, c \in Clients :
       (c \in Browsers /\ Linked(c, id)) \/ Card(id, c) =>
          "end" \in missed[id] \/ live[id] = c \/ Ending(id)

\* A publication is linked, about to be linked, or its stop is to be sent again.
Waits(b, id) == \E c \in retry : c.by = b /\ c.id = id /\ c.of = None
Announced(b, id) ==
    \E n \in 1..Len(inbox[b]) :
       Is(inbox[b][n], "started", id) /\ inbox[b][n].of = b /\ Own(inbox[b][n])

Held ==
    \A b \in Browsers, id \in Ids : live[id] = b =>
       "abandoned" \in missed[id] \/ Linked(b, id) \/ Waits(b, id) \/ Announced(b, id)

Published == OneClaim /\ OnlyUp /\ StoppedTrue /\ StartedTrue /\ RefTrue /\ Held

-----------------------------------------------------------------------------
(* A step: the sessions in heads handle their first message, those in lost are
   detached, the messages in out[v] go out of date, and v is sent new[v]. *)

Flow(heads, out, new, lost) ==
    \A v \in Browsers :
       IF v \in lost THEN inbox'[v] = <<>>
       ELSE Passed(inbox[v], inbox'[v], IF v \in heads THEN 1 ELSE 0, out[v], new[v])

Actors(heads, lost) ==
    /\ heads \subseteq Browsers /\ lost \subseteq Browsers
    /\ heads \cap lost = {}
    /\ \A v \in heads : inbox[v] # <<>>
    /\ Up \ lost \subseteq Up'
    /\ \A c \in lost : streams'[c] = None /\ \A id \in Ids : live'[id] # c
    /\ \A c \in retry' : c.by \in Up'

\* Announcements go out of date as their client is detached.
OutTrue(out, lost) ==
    /\ \A v \in Browsers : \A n \in 1..Len(inbox[v]) :
          inbox[v][n].type = "started" => (inbox[v][n] \in out[v] <=> inbox[v][n].of \in lost)
    /\ \A v \in Browsers : \A m \in out[v] : m.type \in {"started", "joinRefused", "removed"}

NewTrue(new) ==
    \A v \in Browsers : \A m \in new[v] :
       /\ v \in Up
       /\ m.type = "started" => m.current /\ live'[m.id] = m.of
       /\ m.type = "stopped" => live'[m.id] = None
       /\ m.type = "at" => /\ place'[m.of] = m.id
                           /\ \A id \in Ids : live'[id] = m.of => "start" \in missed'[id]

MoveTold(new) ==
    \A n \in Natives : \/ place'[n] = place[n]
                       \/ \A v \in Up : Msg("at", place'[n], n) \in new[v]

\* The registry names the stream no more.
NoRef(id) == streams[id] = None /\ \A b \in Browsers : ~Linked(b, id)

Ended(id) == live[id] # None /\ live'[id] = None

LiveTrue(new, lost) ==
    \A id \in Ids :
       \/ live'[id] = live[id]
       \/ /\ Ended(id)
          /\ \A v \in Up \ lost : Msg("stopped", id, None) \in new[v]
          /\ Up \subseteq lost => "end" \in missed'[id] \/ NoRef(id)'
       \/ /\ Fresh(id) /\ lost = {}
          /\ live'[id] \in Browsers => live'[id] \in Up'
          /\ \A v \in Up \ lost : Msg("started", id, live'[id]) \in new[v]

\* The message at the head of what a session handles announces id of c.
Heading(heads, id, c) ==
    \E v \in heads : Is(inbox[v][1], "started", id) /\ inbox[v][1].of = c

OwnHeading(heads, id, c) ==
    \E v \in heads :
       Is(inbox[v][1], "started", id) /\ inbox[v][1].of = c /\ Own(inbox[v][1])

CardHeading(heads, id, c) ==
    \E v \in heads :
       Is(inbox[v][1], "started", id) /\ inbox[v][1].of = c /\ ~Own(inbox[v][1])

RefsFrom(heads) ==
    /\ \A b \in Browsers, id \in Ids :
          Linked(b, id)' => Linked(b, id) \/ OwnHeading(heads, id, b)
    /\ \A id \in Ids, c \in Clients :
          Card(id, c)' => Card(id, c) \/ CardHeading(heads, id, c)

\* Ends that are handled, or cut off with their session.
EndsTrue(heads, lost) ==
    /\ \A v \in heads, id \in Ids : Is(inbox[v][1], "stopped", id) => NoRef(id)'
    /\ \A v \in lost, id \in Ids : Has(inbox[v], "stopped", id) => "end" \in missed'[id]
    /\ \A id \in Ids : "end" \in missed[id] => "end" \in missed'[id] \/ Fresh(id)

HeldFrom(heads, new) ==
    \A b \in Browsers, id \in Ids : live'[id] = b =>
       /\ live[id] = b \/ Msg("started", id, b) \in new[b]
       /\ "abandoned" \in missed[id] /\ live[id] = b => "abandoned" \in missed'[id]
       /\ Linked(b, id) => Linked(b, id)' \/ Waits(b, id)'
       /\ Waits(b, id) => Waits(b, id)' \/ "abandoned" \in missed'[id]
       /\ b \in heads /\ OwnHeading({b}, id, b) => Linked(b, id)' \/ Waits(b, id)'

Step(heads, out, new, lost) ==
    /\ Flow(heads, out, new, lost) /\ Actors(heads, lost)
    /\ OutTrue(out, lost) /\ NewTrue(new) /\ MoveTold(new) /\ LiveTrue(new, lost)
    /\ RefsFrom(heads) /\ EndsTrue(heads, lost) /\ HeldFrom(heads, new)

LEMMA InboxShape ==
    ASSUME TypeOK, NEW v \in Browsers
    PROVE  inbox[v] \in Seq(Message)
  BY DEF TypeOK

\* Message n of r was message k of q, and new messages are behind it.
Comes(q, k, r, n, out, new) ==
    /\ r[n].type = q[k].type /\ r[n].id = q[k].id /\ r[n].of = q[k].of
    /\ q[k] \notin out => r[n] = q[k]
    /\ q[k] \in out => ~r[n].current
    /\ \A type, id : Behind(q, k, type, id) => Behind(r, n, type, id)
    /\ \A m \in new : Behind(r, n, m.type, m.id)

\* Where a message comes from.
LEMMA Traced ==
    ASSUME TypeOK, TypeOK', NEW heads, NEW out, NEW new, NEW lost, Flow(heads, out, new, lost),
           NEW v \in Browsers, NEW n \in 1..Len(inbox'[v])
    PROVE  /\ v \notin lost
           /\ inbox'[v][n] \in Message
           /\ \/ inbox'[v][n] \in new[v]
              \/ \E k \in 1..Len(inbox[v]) : Comes(inbox[v], k, inbox'[v], n, out[v], new[v])
  <1>1. v \notin lost
    BY DEF Flow
  <1>2. PICK s \in {0, 1} : Passed(inbox[v], inbox'[v], s, out[v], new[v])
    BY <1>1 DEF Flow
  <1>3. inbox[v] \in Seq(Message) /\ inbox'[v] \in Seq(Message)
    BY DEF TypeOK
  <1>4. CASE n > Len(inbox[v]) - s
    BY <1>1, <1>2, <1>3, <1>4, PassedShape
  <1>5. CASE n <= Len(inbox[v]) - s
    <2>1. PICK k \in 1..Len(inbox[v]) : k = n + s
      BY <1>2, <1>3, <1>5, PassedShape
    <2>2. \A type, id : Behind(inbox[v], k, type, id) => Behind(inbox'[v], n, type, id)
      BY <1>2, <1>3, <1>5, <2>1, BehindPassed
    <2>3. \A m \in new[v] : Behind(inbox'[v], n, m.type, m.id)
      BY <1>2, <1>3, <1>5, NewBehind
    <2>4. /\ inbox'[v][n].type = inbox[v][k].type
          /\ inbox'[v][n].id = inbox[v][k].id
          /\ inbox'[v][n].of = inbox[v][k].of
          /\ inbox[v][k] \notin out[v] => inbox'[v][n] = inbox[v][k]
          /\ inbox[v][k] \in out[v] => ~inbox'[v][n].current
      BY <1>2, <1>3, <1>5, <2>1, PassedShape
    <2>5. Comes(inbox[v], k, inbox'[v], n, out[v], new[v])
      BY <2>2, <2>3, <2>4 DEF Comes
    <2> QED BY <1>1, <1>3, <2>5
  <1> QED BY <1>3, <1>4, <1>5

\* What stays in an inbox.
LEMMA Stays ==
    ASSUME TypeOK, TypeOK', NEW heads, NEW out, NEW new, NEW lost, Flow(heads, out, new, lost),
           NEW v \in Browsers, v \notin lost, NEW type, NEW id
    PROVE  /\ Has(inbox[v], type, id) => Has(inbox'[v], type, id) \/ (v \in heads /\ Is(inbox[v][1], type, id))
           /\ v \in heads /\ Behind(inbox[v], 1, type, id) => Has(inbox'[v], type, id)
           /\ \A m \in new[v] : Is(m, type, id) => Has(inbox'[v], type, id)
  <1>1. inbox[v] \in Seq(Message) /\ inbox'[v] \in Seq(Message)
    BY DEF TypeOK
  <1>2. PICK s \in {0, 1} : /\ Passed(inbox[v], inbox'[v], s, out[v], new[v])
                            /\ s = 1 <=> v \in heads
    BY DEF Flow
  <1>3. Has(inbox[v], type, id) => Has(inbox'[v], type, id) \/ (v \in heads /\ Is(inbox[v][1], type, id))
    BY <1>1, <1>2, HasPassed
  <1>4. v \in heads /\ Behind(inbox[v], 1, type, id) => Has(inbox'[v], type, id)
    BY <1>1, <1>2, TailHas
  <1>5. \A m \in new[v] : Is(m, type, id) => Has(inbox'[v], type, id)
    BY <1>1, <1>2, NewBehind DEF Is
  <1> QED BY <1>3, <1>4, <1>5

\* Nothing refers to an id that may be given out.
LEMMA FreshShape ==
    ASSUME TypeOK, NEW id \in Ids, Fresh(id)
    PROVE  /\ live[id] = None /\ streams[id] = None
           /\ \A v \in Browsers : ~Linked(v, id)
           /\ \A v \in Browsers : \A n \in 1..Len(inbox[v]) : inbox[v][n].id # id
           /\ \A c \in retry : c.id # id
           /\ \A c \in Clients : ~OwnClaim(id, c) \/ c \notin Browsers
           /\ \A c \in Clients : ~CardClaim(id, c)
  <1>1. /\ live[id] = None /\ streams[id] = None
        /\ \A v \in Browsers : ~Linked(v, id)
        /\ \A c \in retry : c.id # id
    BY DEF Fresh, Linked
  <1>2. ASSUME NEW v \in Browsers, NEW n \in 1..Len(inbox[v])
        PROVE  inbox[v][n].id # id
    BY InboxShape DEF Fresh
  <1>3. None \notin Clients
    BY NoneAssumption DEF Clients
  <1> QED BY <1>1, <1>2, <1>3 DEF OwnClaim, CardClaim, Card, Is

-----------------------------------------------------------------------------
(* Every step keeps the invariant. *)

LEMMA OnlyUpStep ==
    ASSUME IInv, IInv', OnlyUp, NEW heads, NEW out, NEW new, NEW lost,
           Step(heads, out, new, lost)
    PROVE  OnlyUp'
  <1>1. TypeOK /\ TypeOK' /\ Flow(heads, out, new, lost) /\ Actors(heads, lost)
        /\ NewTrue(new) /\ LiveTrue(new, lost) /\ OutTrue(out, lost)
    BY DEF IInv, Step
  <1>2. ASSUME NEW v \in Browsers, inbox'[v] # <<>>
        PROVE  v \in Up'
    <2>1. 1 \in 1..Len(inbox'[v])
      BY <1>1, <1>2 DEF TypeOK
    <2>2. v \notin lost /\ (inbox'[v][1] \in new[v] \/ inbox[v] # <<>>)
      BY <1>1, <2>1, Traced, InboxShape
    <2>3. v \in Up
      BY <1>1, <2>2 DEF OnlyUp, NewTrue
    <2> QED BY <1>1, <2>2, <2>3 DEF Actors
  <1>3. ASSUME NEW id \in Ids, live'[id] \in Browsers
        PROVE  live'[id] \in Up'
    <2>1. CASE live'[id] = live[id]
      <3>1. live[id] \in Up /\ live[id] \notin lost
        BY <1>1, <1>3, <2>1 DEF OnlyUp, Actors
      <3> QED BY <1>1, <2>1, <3>1 DEF Actors
    <2>2. CASE Fresh(id) /\ (live'[id] \in Browsers => live'[id] \in Up')
      BY <1>3, <2>2
    <2>3. CASE Ended(id)
      BY <1>3, <2>3, NoneAssumption DEF Ended
    <2> QED BY <1>1, <2>1, <2>2, <2>3 DEF LiveTrue
  <1>4. ASSUME NEW v \in Browsers, NEW n \in 1..Len(inbox'[v]),
               inbox'[v][n].type = "started", Own(inbox'[v][n])
        PROVE  inbox'[v][n].of \in Up'
    <2>1. CASE inbox'[v][n] \in new[v]
      <3>1. live'[inbox'[v][n].id] = inbox'[v][n].of
        BY <1>1, <1>4, <2>1 DEF NewTrue
      <3>2. inbox'[v][n] \in Message
        BY <1>1, Traced
      <3>3. inbox'[v][n].id \in Ids
        BY <1>4, <3>2, MessageShape
      <3> QED BY <1>3, <1>4, <3>1, <3>3 DEF Own
    <2>2. ASSUME NEW k \in 1..Len(inbox[v]), Comes(inbox[v], k, inbox'[v], n, out[v], new[v])
          PROVE  inbox'[v][n].of \in Up'
      <3>1. inbox[v][k] \notin out[v]
        BY <1>4, <2>2 DEF Own, Comes
      <3>2. inbox'[v][n] = inbox[v][k]
        BY <2>2, <3>1 DEF Comes
      <3>3. inbox[v][k].of \notin lost /\ inbox[v][k].of \in Up
        BY <1>1, <1>4, <3>1, <3>2 DEF OutTrue, OnlyUp
      <3> QED BY <1>1, <3>2, <3>3 DEF Actors
    <2> QED BY <1>1, <2>1, <2>2, Traced
  <1> QED BY <1>1, <1>2, <1>3, <1>4 DEF OnlyUp, Actors

LEMMA StoppedStep ==
    ASSUME IInv, IInv', StoppedTrue, NEW heads, NEW out, NEW new, NEW lost,
           Step(heads, out, new, lost)
    PROVE  StoppedTrue'
  <1>1. TypeOK /\ TypeOK' /\ Flow(heads, out, new, lost) /\ NewTrue(new) /\ LiveTrue(new, lost)
    BY DEF IInv, Step
  <1> SUFFICES ASSUME NEW v \in Browsers, NEW id \in Ids, Has(inbox'[v], "stopped", id)
               PROVE  live'[id] = None
    BY DEF StoppedTrue
  <1>2. PICK n \in 1..Len(inbox'[v]) : inbox'[v][n].type = "stopped" /\ inbox'[v][n].id = id
    BY DEF Has, Is
  <1>3. CASE inbox'[v][n] \in new[v]
    BY <1>1, <1>2, <1>3 DEF NewTrue
  <1>4. ASSUME NEW k \in 1..Len(inbox[v]), Comes(inbox[v], k, inbox'[v], n, out[v], new[v])
        PROVE  live'[id] = None
    <2>1. Is(inbox[v][k], "stopped", id)
      BY <1>2, <1>4 DEF Is, Comes
    <2>2. live[id] = None
      BY <2>1 DEF StoppedTrue, Has
    <2>3. ~Fresh(id)
      BY <1>1, <2>1, FreshShape DEF Is
    <2> QED BY <1>1, <2>2, <2>3 DEF LiveTrue, Ended
  <1> QED BY <1>1, <1>3, <1>4, Traced

LEMMA StartedStep ==
    ASSUME IInv, IInv', OnlyUp, StartedTrue, NEW heads, NEW out, NEW new, NEW lost,
           Step(heads, out, new, lost)
    PROVE  StartedTrue'
  <1>1. TypeOK /\ TypeOK' /\ Flow(heads, out, new, lost) /\ NewTrue(new) /\ LiveTrue(new, lost)
    BY DEF IInv, Step
  <1> SUFFICES ASSUME NEW v \in Browsers, NEW n \in 1..Len(inbox'[v]),
                      inbox'[v][n].type = "started"
               PROVE  \/ live'[inbox'[v][n].id] = inbox'[v][n].of
                      \/ Behind(inbox'[v], n, "stopped", inbox'[v][n].id)
    BY DEF StartedTrue
  <1>2. CASE inbox'[v][n] \in new[v]
    BY <1>1, <1>2 DEF NewTrue
  <1>3. ASSUME NEW k \in 1..Len(inbox[v]), Comes(inbox[v], k, inbox'[v], n, out[v], new[v])
        PROVE  \/ live'[inbox'[v][n].id] = inbox'[v][n].of
               \/ Behind(inbox'[v], n, "stopped", inbox'[v][n].id)
    <2>0. /\ inbox'[v][n].type = inbox[v][k].type
          /\ inbox'[v][n].id = inbox[v][k].id
          /\ inbox'[v][n].of = inbox[v][k].of
          /\ \A type, id : Behind(inbox[v], k, type, id) => Behind(inbox'[v], n, type, id)
          /\ \A m \in new[v] : Behind(inbox'[v], n, m.type, m.id)
      BY <1>3 DEF Comes
    <2>1. PICK id \in Ids : id = inbox[v][k].id
      <3>1. inbox[v][k] \in Message
        BY <1>1, InboxShape
      <3> QED BY <2>0, <3>1, MessageShape
    <2>2. live[id] = inbox[v][k].of \/ Behind(inbox[v], k, "stopped", id)
      BY <2>0, <2>1 DEF StartedTrue
    <2>3. CASE Behind(inbox[v], k, "stopped", id)
      BY <2>0, <2>1, <2>3
    <2>4. CASE live[id] = inbox[v][k].of /\ live'[id] = live[id]
      BY <2>0, <2>1, <2>4
    <2>5. CASE Ended(id) /\ \A u \in Up \ lost : Msg("stopped", id, None) \in new[u]
      <3>1. v \in Up \ lost
        <4>1. inbox[v] # <<>>
          BY <1>1, InboxShape
        <4> QED BY <1>1, <4>1, Traced DEF OnlyUp
      <3>2. PICK m \in new[v] : m.type = "stopped" /\ m.id = id
        BY <2>5, <3>1 DEF Msg
      <3>3. Behind(inbox'[v], n, "stopped", id)
        BY <2>0, <3>2
      <3> QED BY <2>0, <2>1, <3>3
    <2>6. ~Fresh(id)
      BY <1>1, <2>1, FreshShape
    <2>7. \/ live'[id] = live[id]
          \/ Ended(id) /\ \A u \in Up \ lost : Msg("stopped", id, None) \in new[u]
      BY <1>1, <2>6 DEF LiveTrue
    <2> QED BY <2>2, <2>3, <2>4, <2>5, <2>7
  <1> QED BY <1>1, <1>2, <1>3, Traced

LEMMA OwnClaimStep ==
    ASSUME IInv, IInv', NEW heads, NEW out, NEW new, NEW lost, Step(heads, out, new, lost),
           NEW id \in Ids, NEW c \in Browsers, OwnClaim(id, c)'
    PROVE  /\ c \notin lost
           /\ OwnClaim(id, c) \/ (Fresh(id) /\ live'[id] = c)
  <1>1. /\ TypeOK /\ TypeOK' /\ Flow(heads, out, new, lost) /\ Actors(heads, lost)
        /\ OutTrue(out, lost) /\ NewTrue(new) /\ LiveTrue(new, lost) /\ RefsFrom(heads)
    BY DEF IInv, Step
  <1>2. c # None
    BY NoneAssumption
  <1>3. CASE Linked(c, id)'
    <2>1. c \notin lost
      BY <1>1, <1>3 DEF Actors, Linked
    <2>2. CASE OwnHeading(heads, id, c)
      <3>1. PICK v \in heads : Is(inbox[v][1], "started", id) /\ inbox[v][1].of = c /\ Own(inbox[v][1])
        BY <2>2 DEF OwnHeading
      <3>2. v \in Browsers /\ 1 \in 1..Len(inbox[v])
        BY <1>1, InboxShape DEF Actors
      <3> QED BY <2>1, <3>1, <3>2 DEF OwnClaim
    <2> QED BY <1>1, <1>3, <2>1, <2>2 DEF RefsFrom, OwnClaim
  <1>4. CASE live'[id] = c
    BY <1>1, <1>2, <1>4 DEF Actors, LiveTrue, Ended, OwnClaim
  <1>5. ASSUME NEW v \in Browsers, NEW n \in 1..Len(inbox'[v]),
               Is(inbox'[v][n], "started", id), inbox'[v][n].of = c, Own(inbox'[v][n])
        PROVE  /\ c \notin lost
               /\ OwnClaim(id, c) \/ (Fresh(id) /\ live'[id] = c)
    <2>1. CASE inbox'[v][n] \in new[v]
      BY <1>1, <1>4, <1>5, <2>1 DEF NewTrue, Is
    <2>2. ASSUME NEW k \in 1..Len(inbox[v]),
                 Comes(inbox[v], k, inbox'[v], n, out[v], new[v])
          PROVE  c \notin lost /\ OwnClaim(id, c)
      <3>1. inbox[v][k] \notin out[v]
        BY <1>5, <2>2 DEF Own, Comes
      <3>2. inbox'[v][n] = inbox[v][k]
        BY <2>2, <3>1 DEF Comes
      <3>3. c \notin lost
        BY <1>1, <1>5, <3>1, <3>2 DEF OutTrue, Is
      <3> QED BY <1>5, <3>2, <3>3 DEF OwnClaim
    <2> QED BY <1>1, <2>1, <2>2, Traced
  <1> QED BY <1>3, <1>4, <1>5 DEF OwnClaim

LEMMA CardClaimStep ==
    ASSUME IInv, IInv', NEW heads, NEW out, NEW new, NEW lost, Step(heads, out, new, lost),
           NEW id \in Ids, NEW c \in Clients, CardClaim(id, c)'
    PROVE  \/ CardClaim(id, c)
           \/ c \in lost /\ OwnClaim(id, c)
           \/ Fresh(id) /\ live'[id] = c /\ c \in Natives
  <1>1. /\ TypeOK /\ TypeOK' /\ Flow(heads, out, new, lost) /\ Actors(heads, lost)
        /\ OutTrue(out, lost) /\ NewTrue(new) /\ LiveTrue(new, lost) /\ RefsFrom(heads)
    BY DEF IInv, Step
  <1>2. c # None /\ (c \in Natives \/ c \in Browsers)
    BY NoneAssumption DEF Clients
  <1>3. CASE Card(id, c)'
    <2>1. CASE CardHeading(heads, id, c)
      <3>1. PICK v \in heads : Is(inbox[v][1], "started", id) /\ inbox[v][1].of = c /\ ~Own(inbox[v][1])
        BY <2>1 DEF CardHeading
      <3>2. v \in Browsers /\ 1 \in 1..Len(inbox[v])
        BY <1>1, InboxShape DEF Actors
      <3> QED BY <3>1, <3>2 DEF CardClaim
    <2> QED BY <1>1, <1>3, <2>1 DEF RefsFrom, CardClaim
  <1>4. CASE live'[id] = c /\ c \in Natives
    BY <1>1, <1>2, <1>4 DEF LiveTrue, Ended, CardClaim
  <1>5. ASSUME NEW v \in Browsers, NEW n \in 1..Len(inbox'[v]),
               Is(inbox'[v][n], "started", id), inbox'[v][n].of = c, ~Own(inbox'[v][n])
        PROVE  \/ CardClaim(id, c)
               \/ c \in lost /\ OwnClaim(id, c)
               \/ Fresh(id) /\ live'[id] = c /\ c \in Natives
    <2>1. CASE inbox'[v][n] \in new[v]
      <3>1. live'[id] = c /\ inbox'[v][n].current
        BY <1>1, <1>5, <2>1 DEF NewTrue, Is
      <3>2. c \in Natives
        BY <1>2, <1>5, <3>1 DEF Own
      <3> QED BY <1>4, <3>1, <3>2
    <2>2. ASSUME NEW k \in 1..Len(inbox[v]),
                 Comes(inbox[v], k, inbox'[v], n, out[v], new[v])
          PROVE  CardClaim(id, c) \/ (c \in lost /\ OwnClaim(id, c))
      <3>1. Is(inbox[v][k], "started", id) /\ inbox[v][k].of = c
        BY <1>5, <2>2 DEF Is, Comes
      <3>2. CASE ~Own(inbox[v][k])
        BY <3>1, <3>2 DEF CardClaim
      <3>3. CASE Own(inbox[v][k])
        <4>1. inbox[v][k] \in out[v]
          BY <1>5, <2>2, <3>3 DEF Comes
        <4>2. inbox[v][k].type = "started" /\ c \in lost
          BY <1>1, <3>1, <4>1 DEF OutTrue, Is
        <4>3. OwnClaim(id, c)
          BY <3>1, <3>3 DEF OwnClaim
        <4> QED BY <4>2, <4>3
      <3> QED BY <3>2, <3>3
    <2> QED BY <1>1, <2>1, <2>2, Traced
  <1> QED BY <1>3, <1>4, <1>5 DEF CardClaim

LEMMA OneClaimStep ==
    ASSUME IInv, IInv', OneClaim, NEW heads, NEW out, NEW new, NEW lost,
           Step(heads, out, new, lost)
    PROVE  OneClaim'
  <1>1. TypeOK /\ lost \subseteq Browsers
    BY DEF IInv, Step, Actors
  <1>2. Browsers \subseteq Clients /\ Browsers \cap Natives = {}
    BY ClientsAssumption DEF Clients
  <1> SUFFICES ASSUME NEW id \in Ids
               PROVE
        /\ \A c, d \in Browsers : OwnClaim(id, c)' /\ OwnClaim(id, d)' => c = d
        /\ \A c, d \in Clients : CardClaim(id, c)' /\ CardClaim(id, d)' => c = d
        /\ \A c \in Browsers : \A d \in Clients : ~(OwnClaim(id, c)' /\ CardClaim(id, d)')
    BY DEF OneClaim
  <1>3. \A c \in Browsers : OwnClaim(id, c)' =>
           c \notin lost /\ (OwnClaim(id, c) \/ (Fresh(id) /\ live'[id] = c))
    BY OwnClaimStep
  <1>4. \A c \in Clients : CardClaim(id, c)' =>
           \/ CardClaim(id, c)
           \/ c \in lost /\ OwnClaim(id, c)
           \/ Fresh(id) /\ live'[id] = c /\ c \in Natives
    BY CardClaimStep
  <1>5. Fresh(id) => /\ \A c \in Browsers : ~OwnClaim(id, c)
                     /\ \A c \in Clients : ~CardClaim(id, c)
    BY <1>1, <1>2, FreshShape
  <1>6. /\ \A c, d \in Browsers : OwnClaim(id, c) /\ OwnClaim(id, d) => c = d
        /\ \A c, d \in Clients : CardClaim(id, c) /\ CardClaim(id, d) => c = d
        /\ \A c \in Browsers : \A d \in Clients : ~(OwnClaim(id, c) /\ CardClaim(id, d))
    BY DEF OneClaim
  <1>7. \A c, d \in Browsers : OwnClaim(id, c)' /\ OwnClaim(id, d)' => c = d
    BY <1>3, <1>5, <1>6
  <1>8. \A c, d \in Clients : CardClaim(id, c)' /\ CardClaim(id, d)' => c = d
    BY <1>1, <1>4, <1>5, <1>6
  <1>9. \A c \in Browsers : \A d \in Clients : ~(OwnClaim(id, c)' /\ CardClaim(id, d)')
    BY <1>1, <1>2, <1>3, <1>4, <1>5, <1>6
  <1> QED BY <1>7, <1>8, <1>9

\* An end that is on its way stays so, is handled, or was cut off.
LEMMA EndingStep ==
    ASSUME IInv, IInv', NEW heads, NEW out, NEW new, NEW lost, Step(heads, out, new, lost),
           NEW id \in Ids, Ending(id)
    PROVE  Ending(id)' \/ "end" \in missed'[id] \/ NoRef(id)'
  <1>1. TypeOK /\ TypeOK' /\ Flow(heads, out, new, lost) /\ EndsTrue(heads, lost)
    BY DEF IInv, Step
  <1>2. PICK v \in Browsers : Has(inbox[v], "stopped", id)
    BY DEF Ending
  <1>3. CASE v \in lost
    BY <1>1, <1>2, <1>3 DEF EndsTrue
  <1>4. CASE v \in heads /\ Is(inbox[v][1], "stopped", id)
    BY <1>1, <1>4 DEF EndsTrue
  <1>5. CASE v \notin lost /\ Has(inbox'[v], "stopped", id)
    BY <1>5 DEF Ending
  <1> QED BY <1>1, <1>2, <1>3, <1>4, <1>5, Stays

\* A stream that ends is told, or nobody is there to be told.
LEMMA EndedStep ==
    ASSUME IInv, IInv', NEW heads, NEW out, NEW new, NEW lost, Step(heads, out, new, lost),
           NEW id \in Ids, Ended(id), ~Fresh(id)
    PROVE  Ending(id)' \/ "end" \in missed'[id] \/ NoRef(id)'
  <1>1. TypeOK /\ TypeOK' /\ Flow(heads, out, new, lost) /\ LiveTrue(new, lost)
    BY DEF IInv, Step
  <1>2. /\ \A v \in Up \ lost : Msg("stopped", id, None) \in new[v]
        /\ Up \subseteq lost => "end" \in missed'[id] \/ NoRef(id)'
    BY <1>1 DEF LiveTrue, Ended
  <1>3. ASSUME NEW v \in Up \ lost
        PROVE  Ending(id)'
    <2>1. v \in Browsers
      BY DEF Up
    <2>2. PICK m \in new[v] : Is(m, "stopped", id)
      BY <1>2 DEF Msg, Is
    <2>3. Has(inbox'[v], "stopped", id)
      BY <1>1, <2>1, <2>2, Stays
    <2> QED BY <2>1, <2>3 DEF Ending
  <1> QED BY <1>2, <1>3

LEMMA RefStep ==
    ASSUME IInv, IInv', OneClaim, StartedTrue, RefTrue,
           NEW heads, NEW out, NEW new, NEW lost, Step(heads, out, new, lost)
    PROVE  RefTrue'
  <1>1. /\ TypeOK /\ TypeOK' /\ Flow(heads, out, new, lost) /\ Actors(heads, lost)
        /\ LiveTrue(new, lost) /\ RefsFrom(heads) /\ EndsTrue(heads, lost)
    BY DEF IInv, Step
  <1> SUFFICES ASSUME NEW id \in Ids, NEW c \in Clients,
                      (c \in Browsers /\ Linked(c, id)') \/ Card(id, c)'
               PROVE  "end" \in missed'[id] \/ live'[id] = c \/ Ending(id)'
    BY DEF RefTrue
  <1>2. ~NoRef(id)'
    BY DEF NoRef, Card, Linked
  <1>3. \/ (c \in Browsers /\ Linked(c, id)) \/ Card(id, c)
        \/ Heading(heads, id, c)
    BY <1>1 DEF RefsFrom, OwnHeading, CardHeading, Heading
  <1>4. live[id] = c \/ "end" \in missed[id] \/ Ending(id) \/ Ending(id)'
    <2>1. CASE (c \in Browsers /\ Linked(c, id)) \/ Card(id, c)
      BY <2>1 DEF RefTrue
    <2>2. ASSUME NEW v \in heads, Is(inbox[v][1], "started", id), inbox[v][1].of = c
          PROVE  live[id] = c \/ Ending(id)'
      <3>1. v \in Browsers /\ v \notin lost /\ 1 \in 1..Len(inbox[v])
        BY <1>1, InboxShape DEF Actors
      <3>2. live[id] = c \/ Behind(inbox[v], 1, "stopped", id)
        BY <2>2, <3>1 DEF StartedTrue, Is
      <3>3. CASE Behind(inbox[v], 1, "stopped", id)
        BY <1>1, <3>1, <3>3, Stays DEF Ending
      <3> QED BY <3>2, <3>3
    <2> QED BY <1>3, <2>1, <2>2 DEF Heading
  <1>5. ~Fresh(id)
    <2>1. CASE (c \in Browsers /\ Linked(c, id)) \/ Card(id, c)
      BY <1>1, <2>1, FreshShape DEF Card
    <2>2. ASSUME NEW v \in heads, Is(inbox[v][1], "started", id)
          PROVE  ~Fresh(id)
      <3>1. v \in Browsers /\ 1 \in 1..Len(inbox[v])
        BY <1>1, InboxShape DEF Actors
      <3> QED BY <1>1, <2>2, <3>1, FreshShape DEF Is
    <2> QED BY <1>3, <2>1, <2>2 DEF Heading
  <1>6. CASE live[id] = c
    BY <1>1, <1>2, <1>5, <1>6, EndedStep DEF LiveTrue
  <1>7. CASE "end" \in missed[id]
    BY <1>1, <1>5, <1>7 DEF EndsTrue
  <1>8. CASE Ending(id)
    BY <1>2, <1>8, EndingStep
  <1> QED BY <1>4, <1>6, <1>7, <1>8

LEMMA HeldStep ==
    ASSUME IInv, IInv', Held, NEW heads, NEW out, NEW new, NEW lost, Step(heads, out, new, lost)
    PROVE  Held'
  <1>1. /\ TypeOK /\ TypeOK' /\ Flow(heads, out, new, lost) /\ Actors(heads, lost)
        /\ OutTrue(out, lost) /\ HeldFrom(heads, new)
    BY DEF IInv, Step
  <1> SUFFICES ASSUME NEW b \in Browsers, NEW id \in Ids, live'[id] = b
               PROVE  \/ "abandoned" \in missed'[id] \/ Linked(b, id)' \/ Waits(b, id)'
                      \/ Announced(b, id)'
    BY DEF Held
  <1>2. /\ live[id] = b \/ Msg("started", id, b) \in new[b]
        /\ "abandoned" \in missed[id] /\ live[id] = b => "abandoned" \in missed'[id]
        /\ Linked(b, id) => Linked(b, id)' \/ Waits(b, id)'
        /\ Waits(b, id) => Waits(b, id)' \/ "abandoned" \in missed'[id]
        /\ b \in heads /\ OwnHeading({b}, id, b) => Linked(b, id)' \/ Waits(b, id)'
    BY <1>1 DEF HeldFrom
  <1>3. b \notin lost
    BY <1>1 DEF Actors
  <1>4. PICK s \in {0, 1} : /\ Passed(inbox[b], inbox'[b], s, out[b], new[b])
                            /\ s = 1 <=> b \in heads
    BY <1>1, <1>3 DEF Flow
  <1>5. inbox[b] \in Seq(Message) /\ inbox'[b] \in Seq(Message)
    BY <1>1 DEF TypeOK
  <1>6. CASE Msg("started", id, b) \in new[b]
    <2>1. PICK n \in 1..Len(inbox'[b]) : inbox'[b][n] = Msg("started", id, b)
      BY <1>4, <1>5, <1>6, PassedShape
    <2> QED BY <2>1 DEF Announced, Is, Own, Msg
  <1>7. ASSUME NEW n \in 1..Len(inbox[b]),
               Is(inbox[b][n], "started", id), inbox[b][n].of = b, Own(inbox[b][n])
        PROVE  Announced(b, id)' \/ Linked(b, id)' \/ Waits(b, id)'
    <2>1. inbox[b][n] \notin out[b]
      BY <1>1, <1>3, <1>7 DEF OutTrue, Is
    <2>2. CASE n > s
      <3>1. PICK k \in 1..Len(inbox'[b]) : inbox'[b][k] = inbox[b][n]
        BY <1>4, <1>5, <2>1, <2>2, PassedAt
      <3> QED BY <1>7, <3>1 DEF Announced
    <2>3. CASE ~(n > s)
      <3>1. n = 1 /\ s = 1
        BY <2>3
      <3>2. b \in heads
        BY <1>4, <3>1
      <3> QED BY <1>2, <1>7, <3>1, <3>2 DEF OwnHeading
    <2> QED BY <2>2, <2>3
  <1> QED BY <1>2, <1>6, <1>7 DEF Held, Announced

LEMMA PublishedStep ==
    ASSUME IInv, IInv', Published, NEW heads, NEW out, NEW new, NEW lost,
           Step(heads, out, new, lost)
    PROVE  Published'
  BY OneClaimStep, OnlyUpStep, StoppedStep, StartedStep, RefStep, HeldStep DEF Published

-----------------------------------------------------------------------------
(* The flow of the messages in each kind of step. *)

Nobody == [v \in Browsers |-> {}]
ToUp(ms) == [v \in Browsers |-> IF v \in Up THEN ms ELSE {}]
ToOne(b, ms) == [v \in Browsers |-> IF v = b THEN ms ELSE {}]
Stops(ids) == {Msg("stopped", id, None) : id \in ids}

\* What goes out of date with stops and leaves.
Late(stops, leaves) ==
    [v \in Browsers |-> {m \in Message :
        \/ m.type = "joinRefused" /\ (m.id \in stops \/ <<v, m.id>> \in leaves)
        \/ m.type = "removed" /\ v \in stops}]

\* The inboxes inb are those of now, without what heads handle and with out out of date.
Made(inb, heads, out) ==
    /\ inb \in Inboxes
    /\ \A v \in Browsers : Passed(inbox[v], inb[v], IF v \in heads THEN 1 ELSE 0, out[v], {})

LEMMA PassedSame ==
    ASSUME NEW q \in Seq(Message)
    PROVE  Passed(q, q, 0, {}, {})
  BY DEF Passed

LEMMA PassedTail ==
    ASSUME NEW q \in Seq(Message), NEW r \in Seq(Message), NEW out, q # <<>>,
           Passed(q, r, 0, out, {})
    PROVE  Passed(q, Tail(r), 1, out, {})
  <1>1. /\ Len(r) >= Len(q) /\ Len(q) \in Nat \ {0} /\ Len(r) \in Nat
        /\ \A k \in 1..Len(q) : r[k] = IF q[k] \in out THEN Old(q[k]) ELSE q[k]
        /\ \A k \in 1..Len(r) : ~(k > Len(q))
    BY PassedShape DEF Passed
  <1>2. Len(r) = Len(q)
    BY <1>1
  <1>3. Len(Tail(r)) = Len(q) - 1 /\ \A k \in 1..(Len(q) - 1) : Tail(r)[k] = r[k + 1]
    BY <1>1, <1>2
  <1>4. \A k \in 1..(Len(q) - 1) :
           Tail(r)[k] = IF q[k + 1] \in out THEN Old(q[k + 1]) ELSE q[k + 1]
    <2> TAKE k \in 1..(Len(q) - 1)
    <2>1. k + 1 \in 1..Len(q)
      BY <1>1
    <2> QED BY <1>1, <1>3, <2>1
  <1> QED BY <1>1, <1>3, <1>4 DEF Passed

LEMMA PassedMore ==
    ASSUME NEW q \in Seq(Message), NEW r \in Seq(Message), NEW s \in {0, 1}, NEW out,
           NEW more \in Seq(Message), Passed(q, r, s, out, {})
    PROVE  Passed(q, r \o more, s, out, ToSet(more))
  <1>1. /\ s <= Len(q) /\ Len(q) \in Nat /\ Len(r) \in Nat /\ Len(more) \in Nat
        /\ Len(q) - s <= Len(r)
        /\ \A k \in 1..(Len(q) - s) : r[k] = IF q[k + s] \in out THEN Old(q[k + s]) ELSE q[k + s]
        /\ \A k \in 1..Len(r) : ~(k > Len(q) - s)
    BY DEF Passed
  <1>2. Len(r) = Len(q) - s
    <2>1. CASE Len(r) = 0
      BY <1>1, <2>1
    <2>2. CASE Len(r) # 0
      BY <1>1, <2>2
    <2> QED BY <2>1, <2>2
  <1>3. /\ Len(r \o more) = Len(r) + Len(more)
        /\ \A k \in 1..Len(r) : (r \o more)[k] = r[k]
        /\ \A k \in 1..Len(r \o more) : k > Len(r) => (r \o more)[k] = more[k - Len(r)] /\ k - Len(r) \in 1..Len(more)
        /\ \A k \in 1..Len(more) : (r \o more)[k + Len(r)] = more[k] /\ k + Len(r) \in 1..Len(r \o more)
    BY <1>1
  <1>4. \A k \in 1..Len(more) : more[k] \in ToSet(more)
    BY DEF ToSet
  <1>5. \A m \in ToSet(more) : \E k \in 1..Len(more) : more[k] = m
    BY DEF ToSet
  <1>6. \A m \in ToSet(more) : \E k \in 1..Len(r \o more) : k > Len(q) - s /\ (r \o more)[k] = m
    <2> TAKE m \in ToSet(more)
    <2>1. PICK k \in 1..Len(more) : more[k] = m
      BY <1>5
    <2>2. k + Len(r) > Len(q) - s
      BY <1>1, <1>2
    <2> QED BY <1>3, <2>1, <2>2
  <1>7. \A k \in 1..Len(r \o more) : k > Len(q) - s => (r \o more)[k] \in ToSet(more)
    BY <1>2, <1>3, <1>4
  <1>8. \A k \in 1..(Len(q) - s) :
           (r \o more)[k] = IF q[k + s] \in out THEN Old(q[k + s]) ELSE q[k + s]
    BY <1>1, <1>2, <1>3
  <1>9. Len(q) - s <= Len(r \o more)
    BY <1>1, <1>2, <1>3
  <1> QED BY <1>1, <1>6, <1>7, <1>8, <1>9 DEF Passed

LEMMA MadeNow ==
    ASSUME TypeOK
    PROVE  Made(inbox, {}, Nobody)
  BY PassedSame, InboxShape, Types DEF Made, Nobody, ServerOK

LEMMA MadeLate ==
    ASSUME TypeOK, NEW stops, NEW leaves
    PROVE  Made(Outdated(stops, leaves), {}, Late(stops, leaves))
  <1>1. Outdated(stops, leaves) \in Inboxes
    BY OutdatedShape
  <1>2. ASSUME NEW v \in Browsers
        PROVE  Passed(inbox[v], Outdated(stops, leaves)[v], 0, Late(stops, leaves)[v], {})
    <2>1. PICK q \in Seq(Message) : q = inbox[v]
      BY InboxShape
    <2>2. PICK r : r = Outdated(stops, leaves)[v]
      OBVIOUS
    <2>3. ASSUME NEW n \in 1..Len(q)
          PROVE  q[n] \in Late(stops, leaves)[v] <=>
                    \/ q[n].type = "joinRefused" /\ (q[n].id \in stops \/ <<v, q[n].id>> \in leaves)
                    \/ q[n].type = "removed" /\ v \in stops
      <3>1. PICK m \in Message : m = q[n]
        BY <2>1
      <3>2. Late(stops, leaves)[v] = {x \in Message :
                    \/ x.type = "joinRefused" /\ (x.id \in stops \/ <<v, x.id>> \in leaves)
                    \/ x.type = "removed" /\ v \in stops}
        BY DEF Late
      <3> QED BY <3>1, <3>2
    <2>4. r = [n \in DOMAIN q |-> IF \/ q[n].type = "joinRefused" /\ (q[n].id \in stops \/ <<v, q[n].id>> \in leaves)
                                     \/ q[n].type = "removed" /\ v \in stops
                                  THEN Old(q[n]) ELSE q[n]]
      BY <2>1, <2>2 DEF Outdated, Outdate, Old
    <2>5. r \in Seq(Message)
      BY <1>1, <2>2 DEF Inboxes
    <2>6. Len(r) = Len(q) /\ DOMAIN q = 1..Len(q)
      BY <2>4, <2>5
    <2>7. \A n \in 1..Len(q) : r[n] = IF q[n] \in Late(stops, leaves)[v] THEN Old(q[n]) ELSE q[n]
      BY <2>3, <2>4, <2>6
    <2>8. Passed(q, r, 0, Late(stops, leaves)[v], {})
      <3>1. Len(q) \in Nat
        OBVIOUS
      <3> HIDE DEF Late
      <3> QED BY <2>6, <2>7, <3>1 DEF Passed
    <2> QED BY <2>1, <2>2, <2>8
  <1> QED BY <1>1, <1>2 DEF Made

LEMMA MadeRest ==
    ASSUME TypeOK, NEW inb, NEW out, Made(inb, {}, out), NEW b \in Browsers, inbox[b] # <<>>
    PROVE  Made(Rest(inb, b), {b}, out)
  <1>1. \A v \in Browsers : /\ inb[v] \in Seq(Message) /\ inbox[v] \in Seq(Message)
                            /\ Passed(inbox[v], inb[v], 0, out[v], {})
    BY InboxShape DEF Made, Inboxes
  <1>2. inb[b] # <<>>
    BY <1>1 DEF Passed
  <1>3. Rest(inb, b) \in Inboxes
    BY <1>2, RestShape DEF Made
  <1>4. ASSUME NEW v \in Browsers
        PROVE  Passed(inbox[v], Rest(inb, b)[v], IF v \in {b} THEN 1 ELSE 0, out[v], {})
    <2>1. Rest(inb, b)[v] = IF v = b THEN Tail(inb[b]) ELSE inb[v]
      BY DEF Rest, Made, Inboxes
    <2>2. CASE v = b
      BY <1>1, <2>1, <2>2, PassedTail
    <2>3. CASE v # b
      BY <1>1, <2>1, <2>3
    <2> QED BY <2>2, <2>3
  <1> QED BY <1>3, <1>4 DEF Made

LEMMA MadeFlow ==
    ASSUME TypeOK, NEW heads, NEW out, Made(inbox', heads, out)
    PROVE  Flow(heads, out, Nobody, {})
  BY DEF Made, Flow, Nobody

LEMMA ToAllFlow ==
    ASSUME TypeOK, NEW inb, NEW heads, NEW out, Made(inb, heads, out),
           NEW more \in Seq(Message), inbox' = ToAll(inb, more)
    PROVE  Flow(heads, out, ToUp(ToSet(more)), {})
  <1> SUFFICES ASSUME NEW v \in Browsers
               PROVE  Passed(inbox[v], inbox'[v], IF v \in heads THEN 1 ELSE 0, out[v], ToUp(ToSet(more))[v])
    BY DEF Flow
  <1>1. /\ inbox[v] \in Seq(Message) /\ inb[v] \in Seq(Message)
        /\ Passed(inbox[v], inb[v], IF v \in heads THEN 1 ELSE 0, out[v], {})
    BY InboxShape DEF Made, Inboxes
  <1>2. CASE v \in Up
    <2>1. inbox'[v] = inb[v] \o more /\ ToUp(ToSet(more))[v] = ToSet(more)
      BY <1>2 DEF ToAll, ToUp
    <2> QED BY <1>1, <2>1, PassedMore
  <1>3. CASE v \notin Up
    BY <1>1, <1>3 DEF ToAll, ToUp
  <1> QED BY <1>2, <1>3

LEMMA AppendFlow ==
    ASSUME TypeOK, NEW b \in Browsers, NEW more \in Seq(Message),
           inbox' = [inbox EXCEPT ![b] = @ \o more]
    PROVE  Flow({}, Nobody, ToOne(b, ToSet(more)), {})
  <1> SUFFICES ASSUME NEW v \in Browsers
               PROVE  Passed(inbox[v], inbox'[v], 0, {}, ToOne(b, ToSet(more))[v])
    BY DEF Flow, Nobody
  <1>1. inbox[v] \in Seq(Message) /\ Passed(inbox[v], inbox[v], 0, {}, {})
    BY InboxShape, PassedSame
  <1>2. inbox'[v] = IF v = b THEN inbox[v] \o more ELSE inbox[v]
    BY DEF TypeOK
  <1>3. ToOne(b, ToSet(more))[v] = IF v = b THEN ToSet(more) ELSE {}
    BY DEF ToOne
  <1>4. CASE v = b
    BY <1>1, <1>2, <1>3, <1>4, PassedMore
  <1>5. CASE v # b
    BY <1>1, <1>2, <1>3, <1>5
  <1> QED BY <1>4, <1>5

\* Orders name each of the ids.
LEMMA OrderAll ==
    ASSUME NEW ids \in SUBSET Ids, NEW order \in SetToSeqs(ids)
    PROVE  ToSet(order) = ids
  <1>1. IsFiniteSet(ids) /\ Cardinality(ids) \in Nat
    BY IdsAssumption, FS_Subset, FS_CardinalityType
  <1>2. PICK D : D = 1..Cardinality(ids)
    OBVIOUS
  <1>3. IsFiniteSet(D) /\ Cardinality(D) = Cardinality(ids)
    BY <1>1, <1>2, FS_Interval
  <1>4. order \in [D -> ids] /\ \A i, j \in D : i # j => order[i] # order[j]
    BY <1>2 DEF SetToSeqs
  <1>5. order \in Injection(D, ids)
    BY <1>4 DEF Injection, IsInjective
  <1>6. order \in Surjection(D, ids)
    BY <1>1, <1>3, <1>5, FS_Injection
  <1>7. \A id \in ids : \E i \in D : order[i] = id
    BY <1>6 DEF Surjection
  <1> QED BY <1>4, <1>7 DEF ToSet

LEMMA NoticesAll ==
    ASSUME NEW ids \in SUBSET Ids, NEW order \in SetToSeqs(ids), NEW type, NEW of
    PROVE  ToSet(Notices(type, order, of)) = {Msg(type, id, of) : id \in ids}
  <1>1. ToSet(order) = ids
    BY OrderAll
  <1> QED BY <1>1 DEF ToSet, Notices

LEMMA EndsFlow ==
    ASSUME TypeOK, NEW inb, NEW heads, NEW out, Made(inb, heads, out),
           NEW ids \in SUBSET Ids, inbox' \in Ends(inb, ids)
    PROVE  Flow(heads, out, ToUp(Stops(ids)), {})
  <1>1. PICK order \in SetToSeqs(ids) : inbox' = ToAll(inb, Notices("stopped", order, None))
    BY DEF Ends
  <1>2. Notices("stopped", order, None) \in Seq(Message)
    BY NoticesShape
  <1>3. ToSet(Notices("stopped", order, None)) = Stops(ids)
    BY NoticesAll DEF Stops
  <1> QED BY <1>1, <1>2, <1>3, ToAllFlow

-----------------------------------------------------------------------------
(* Kinds of steps. *)

\* What was missed of the ends of streams is not forgotten.
MissedKept ==
    \A id \in Ids : /\ "end" \in missed[id] => "end" \in missed'[id]
                    /\ "abandoned" \in missed[id] => "abandoned" \in missed'[id]

RefsKept ==
    /\ \A b \in Browsers, id \in Ids : Linked(b, id)' => Linked(b, id)
    /\ \A id \in Ids, c \in Clients : Card(id, c)' => Card(id, c)

\* Cards are neither made nor retired.
CardsSame ==
    \A id \in Ids : /\ streams'[id] # None <=> streams[id] # None
                    /\ streams'[id] # None => /\ streams'[id].src = streams[id].src
                                              /\ streams'[id].channel = streams[id].channel

LinksKept == \A b \in Browsers, id \in Ids : live[id] = b /\ Linked(b, id) => Linked(b, id)'

WaitsKept ==
    \A b \in Browsers, id \in Ids :
       live[id] = b /\ Waits(b, id) => Waits(b, id)' \/ "abandoned" \in missed'[id]

LEMMA NobodyShape == \A v \in Browsers : Nobody[v] = {}
  BY DEF Nobody

\* Nothing is handled and no stream is given out or ends.
LEMMA CalmStep ==
    ASSUME IInv, NEW new, Flow({}, Nobody, new, {}), NewTrue(new), Up \subseteq Up', live' = live,
           place' = place,
           MissedKept, RefsKept, LinksKept, WaitsKept,
           OnlyUp, \A c \in retry' : c \in retry \/ c.by \in Up
    PROVE  Step({}, Nobody, new, {})
  <1>1. Actors({}, {}) /\ OutTrue(Nobody, {})
    BY NobodyShape DEF Actors, OutTrue, OnlyUp
  <1>2. LiveTrue(new, {}) /\ RefsFrom({}) /\ EndsTrue({}, {})
    BY DEF LiveTrue, RefsFrom, RefsKept, EndsTrue, MissedKept
  <1>3. HeldFrom({}, new)
    BY DEF HeldFrom, LinksKept, WaitsKept, MissedKept
  <1> QED BY <1>1, <1>2, <1>3 DEF Step, MoveTold

LEMMA HeadFirst ==
    ASSUME TypeOK, NEW b \in Browsers, inbox[b] # <<>>
    PROVE  Head(inbox[b]) = inbox[b][1] /\ 1 \in 1..Len(inbox[b])
  BY InboxShape

\* A message is handled and no stream is given out or ends.
LEMMA HeardStep ==
    ASSUME IInv, OnlyUp, NEW b \in Browsers, inbox[b] # <<>>,
           NEW out, OutTrue(out, {}), Flow({b}, out, Nobody, {}),
           Up' = Up, live' = live, place' = place, retry' = retry, MissedKept, RefsFrom({b}),
           LinksKept,
           \A id \in Ids : OwnHeading({b}, id, b) => Linked(b, id)',
           \A id \in Ids : Is(Head(inbox[b]), "stopped", id) => NoRef(id)'
    PROVE  Step({b}, out, Nobody, {})
  <1>1. TypeOK /\ Head(inbox[b]) = inbox[b][1]
    BY HeadFirst DEF IInv
  <1>2. Actors({b}, {}) /\ NewTrue(Nobody)
    BY NobodyShape DEF Actors, NewTrue, OnlyUp
  <1>3. LiveTrue(Nobody, {}) /\ EndsTrue({b}, {})
    BY <1>1 DEF LiveTrue, EndsTrue, MissedKept
  <1>4. HeldFrom({b}, Nobody)
    <2>1. \A c \in Browsers, id \in Ids : Waits(c, id) => Waits(c, id)'
      BY DEF Waits
    <2> QED BY <2>1 DEF HeldFrom, LinksKept, MissedKept
  <1> QED BY <1>1, <1>2, <1>3, <1>4 DEF Step, MoveTold

\* A message that announces nothing is handled.
LEMMA HandleStep ==
    ASSUME IInv, OnlyUp, NEW b \in Browsers, inbox[b] # <<>>, Head(inbox[b]).type # "started",
           NEW out, OutTrue(out, {}), Flow({b}, out, Nobody, {}),
           Up' = Up, live' = live, place' = place, retry' = retry, MissedKept, RefsKept,
           LinksKept,
           \A id \in Ids : Is(Head(inbox[b]), "stopped", id) => NoRef(id)'
    PROVE  Step({b}, out, Nobody, {})
  <1>1. Head(inbox[b]) = inbox[b][1]
    BY HeadFirst DEF IInv
  <1>2. \A id \in Ids : ~OwnHeading({b}, id, b)
    BY <1>1 DEF OwnHeading, Is
  <1>3. RefsFrom({b})
    BY DEF RefsFrom, RefsKept
  <1> QED BY <1>2, <1>3, HeardStep

\* What cleanup commands do: those in done are executed and end the streams in ended.
Sent(cmds, waiting, done, ended) ==
    /\ done \subseteq cmds
    /\ ended = {id \in Ids : \E c \in done : c.id = id /\ c.of = None /\ live[id] = c.by}
    /\ live' = [id \in Ids |-> IF id \in ended THEN None ELSE live[id]]
    /\ audience' = [id \in Ids |-> IF id \in ended THEN {}
                                   ELSE audience[id] \ {c.of : c \in {d \in done : d.id = id}}]
    /\ retry' = waiting \cup (cmds \ done)
    /\ missed' = Miss({c.id : c \in cmds \ done}, "flooded")

LEMMA SendParts ==
    ASSUME TypeOK, NEW heads, NEW out, NEW inb, Made(inb, heads, out), NEW cmds, NEW waiting,
           Send(cmds, inb, waiting)
    PROVE  \E done, ended : /\ Sent(cmds, waiting, done, ended)
                            /\ Flow(heads, out, ToUp(Stops(ended)), {})
  <1>1. PICK done \in SUBSET cmds :
          LET ended == {id \in Ids : \E c \in done : c.id = id /\ c.of = None /\ live[id] = c.by} IN
          /\ live' = [id \in Ids |-> IF id \in ended THEN None ELSE live[id]]
          /\ audience' = [id \in Ids |-> IF id \in ended THEN {}
                                         ELSE audience[id] \ {c.of : c \in {d \in done : d.id = id}}]
          /\ inbox' \in Ends(inb, ended)
          /\ retry' = waiting \cup (cmds \ done)
          /\ missed' = Miss({c.id : c \in cmds \ done}, "flooded")
    BY DEF Send
  <1>2. PICK ended : ended = {id \in Ids : \E c \in done : c.id = id /\ c.of = None /\ live[id] = c.by}
    OBVIOUS
  <1>3. ended \in SUBSET Ids /\ inbox' \in Ends(inb, ended)
    BY <1>1, <1>2
  <1>4. Flow(heads, out, ToUp(Stops(ended)), {})
    BY <1>3, EndsFlow
  <1>5. Sent(cmds, waiting, done, ended)
    BY <1>1, <1>2 DEF Sent
  <1> QED BY <1>4, <1>5

LEMMA MissAdds ==
    ASSUME TypeOK, NEW ids, NEW what, missed' = Miss(ids, what)
    PROVE  \A id \in Ids : /\ missed[id] \subseteq missed'[id]
                           /\ id \in ids => what \in missed'[id]
  BY DEF Miss

\* What is sent to the connected sessions as streams end.
LEMMA StopsTrue ==
    ASSUME NEW ids \in SUBSET Ids, \A id \in ids : live'[id] = None
    PROVE  /\ NewTrue(ToUp(Stops(ids)))
           /\ \A id \in ids : \A v \in Up : Msg("stopped", id, None) \in ToUp(Stops(ids))[v]
  <1>1. \A v \in Up : v \in Browsers
    BY DEF Up
  <1> QED BY <1>1 DEF NewTrue, ToUp, Stops, Msg

Commanded(cmds, b, id) == \E c \in cmds : c.by = b /\ c.id = id /\ c.of = None

\* Commands are sent: a link that is lost is one whose publication is stopped.
LEMMA SendStep ==
    ASSUME IInv, OnlyUp, NEW heads \in SUBSET Browsers, \A v \in heads : inbox[v] # <<>>,
           NEW out, OutTrue(out, {}), NEW cmds \in SUBSET Cleanup, NEW waiting, NEW done, NEW ended,
           Sent(cmds, waiting, done, ended), Flow(heads, out, ToUp(Stops(ended)), {}),
           Up' = Up, place' = place, RefsFrom(heads), \A c \in cmds : c.by \in Up,
           \A c \in waiting : \E d \in retry : c.by = d.by,
           \A v \in heads : inbox[v][1].type # "stopped",
           \A b \in Browsers, id \in Ids : Linked(b, id) => Linked(b, id)' \/ Commanded(cmds, b, id),
           \A b \in heads, id \in Ids :
              OwnHeading({b}, id, b) => Linked(b, id)' \/ Commanded(cmds, b, id),
           \A b \in Browsers, id \in Ids : Waits(b, id) => Commanded(waiting, b, id)
    PROVE  Step(heads, out, ToUp(Stops(ended)), {})
  <1>1. /\ TypeOK /\ ended \in SUBSET Ids
        /\ live' = [id \in Ids |-> IF id \in ended THEN None ELSE live[id]]
        /\ \A id \in ended : live[id] \in Browsers
    BY DEF IInv, Sent, Cleanup
  <1>2. \A id \in Ids : missed[id] \subseteq missed'[id]
    BY <1>1, MissAdds DEF Sent
  <1>3. Actors(heads, {})
    BY DEF Actors, OnlyUp, Sent
  <1>4. /\ NewTrue(ToUp(Stops(ended)))
        /\ \A id \in ended : \A v \in Up : Msg("stopped", id, None) \in ToUp(Stops(ended))[v]
    BY <1>1, StopsTrue
  <1>5. LiveTrue(ToUp(Stops(ended)), {})
    <2> SUFFICES ASSUME NEW id \in Ids, live'[id] # live[id]
                 PROVE  /\ Ended(id)
                        /\ \A v \in Up : Msg("stopped", id, None) \in ToUp(Stops(ended))[v]
                        /\ Up # {}
      BY DEF LiveTrue
    <2>1. id \in ended /\ live'[id] = None
      BY <1>1
    <2>2. live[id] \in Up
      BY <1>1, <2>1 DEF OnlyUp
    <2>3. live[id] # None
      BY <1>1, <2>1, NoneAssumption
    <2> QED BY <1>4, <2>1, <2>2, <2>3 DEF Ended
  <1>6. EndsTrue(heads, {})
    BY <1>2 DEF EndsTrue, Is
  <1>7. HeldFrom(heads, ToUp(Stops(ended)))
    <2> SUFFICES ASSUME NEW b \in Browsers, NEW id \in Ids, live'[id] = b
                 PROVE  /\ live[id] = b
                        /\ "abandoned" \in missed[id] => "abandoned" \in missed'[id]
                        /\ Linked(b, id) => Linked(b, id)' \/ Waits(b, id)'
                        /\ Waits(b, id) => Waits(b, id)'
                        /\ b \in heads /\ OwnHeading({b}, id, b) => Linked(b, id)' \/ Waits(b, id)'
      BY DEF HeldFrom
    <2>1. live[id] = b /\ id \notin ended
      BY <1>1, NoneAssumption
    <2>2. Commanded(cmds, b, id) => Waits(b, id)'
      <3> SUFFICES ASSUME NEW c \in cmds, c.by = b, c.id = id, c.of = None
                   PROVE  Waits(b, id)'
        BY DEF Commanded
      <3>1. c \notin done
        BY <2>1 DEF Sent
      <3> QED BY <3>1 DEF Sent, Waits
    <2>3. Commanded(waiting, b, id) => Waits(b, id)'
      BY DEF Commanded, Sent, Waits
    <2> QED BY <1>2, <2>1, <2>2, <2>3
  <1> QED BY <1>3, <1>4, <1>5, <1>6, <1>7 DEF Step, MoveTold

\* Stops and leaves change nothing else in what they leave.
LEMMA RetiredKeeps ==
    ASSUME TypeOK, NEW stops, NEW leaves, streams' = Retired(stops, leaves), NEW k \in Keys
    PROVE  /\ streams'[k] # None <=> streams[k] # None /\ k \notin stops
           /\ streams'[k] # None =>
                 /\ streams'[k].src = streams[k].src
                 /\ streams'[k].channel = streams[k].channel
                 /\ streams'[k].link = streams[k].link
                 /\ streams'[k].natives = streams[k].natives
                 /\ streams'[k].viewers = {v \in streams[k].viewers : <<v, k>> \notin leaves}
  <1>1. CASE k \in stops \/ streams[k] = None
    BY <1>1 DEF Retired
  <1>2. CASE k \notin stops /\ streams[k] # None
    <2>1. PICK s \in Stream : s = streams[k]
      BY <1>2, EntryShape
    <2>2. PICK set : set = {v \in s.viewers : <<v, k>> \notin leaves}
      OBVIOUS
    <2>3. streams'[k] = [s EXCEPT !.viewers = set]
      BY <1>2, <2>1, <2>2 DEF Retired
    <2>4. set \in SUBSET Browsers
      BY <2>2, StreamShape
    <2>5. /\ streams'[k] \in Stream
          /\ streams'[k].src = s.src /\ streams'[k].channel = s.channel
          /\ streams'[k].link = s.link /\ streams'[k].natives = s.natives
          /\ streams'[k].viewers = set
      BY <2>3, <2>4, ViewersSet DEF Stream
    <2> QED BY <1>2, <2>1, <2>2, <2>5, StreamAssumption
  <1> QED BY <1>1, <1>2

LEMMA RetiredRefs ==
    ASSUME TypeOK, NEW stops, NEW leaves, streams' = Retired(stops, leaves)
    PROVE  /\ RefsKept
           /\ \A b \in Browsers, id \in Ids : Linked(b, id) => Linked(b, id)' \/ b \in stops
           /\ \A b \in Browsers, id \in Ids : Linked(b, id)' => b \notin stops
           /\ \A id \in Ids, c \in Clients : Card(id, c) => Card(id, c)' \/ id \in stops
           /\ stops \cap Ids = {} => CardsSame
  <1>1. \A k \in Browsers \cup Ids : k \in Keys
    BY DEF Keys
  <1> QED BY <1>1, RetiredKeeps DEF RefsKept, CardsSame, Linked, Card

LEMMA LateTrue ==
    ASSUME NEW stops, NEW leaves
    PROVE  OutTrue(Late(stops, leaves), {})
  BY DEF OutTrue, Late

\* The commands of a session that is connected reach every publication it had linked.
LEMMA StopsCommanded ==
    ASSUME IInv, NEW stops, NEW leaves, NEW b \in Browsers, NEW id \in Ids,
           Linked(b, id), b \in stops
    PROVE  Commanded(Cleanups(stops, leaves), b, id)
  <1>1. b \in Up
    BY DEF IInv, Agreement, ChannelIsolation, Linked
  <1>2. PICK c : c = [by |-> b, id |-> id, of |-> None, current |-> TRUE]
    OBVIOUS
  <1>3. c \in Cleanup /\ c.by = b /\ c.id = id /\ c.of = None /\ c.current
    BY <1>2 DEF Cleanup
  <1>4. c \in Cleanups(stops, leaves)
    BY <1>1, <1>3 DEF Cleanups, Linked
  <1> QED BY <1>3, <1>4 DEF Commanded

LEMMA LateWaits ==
    ASSUME IInv, NEW stops, NEW b \in Browsers, NEW id \in Ids, Waits(b, id)
    PROVE  /\ Commanded(LateCleanups(stops), b, id)
           /\ Commanded(retry, b, id)
  <1>1. PICK c \in retry : c.by = b /\ c.id = id /\ c.of = None
    BY DEF Waits
  <1>2. c \in Cleanup
    BY DEF IInv, TypeOK
  <1>3. PICK d : d = [c EXCEPT !.current = @ /\ ~(c.by \in stops /\ c.of \in Natives)]
    OBVIOUS
  <1>4. d \in LateCleanups(stops)
    BY <1>3 DEF LateCleanups
  <1>5. d.by = b /\ d.id = id /\ d.of = None
    BY <1>1, <1>2, <1>3 DEF Cleanup
  <1> QED BY <1>1, <1>4, <1>5 DEF Commanded

LEMMA LateBy ==
    ASSUME IInv, NEW stops
    PROVE  \A c \in LateCleanups(stops) : \E d \in retry : c.by = d.by
  <1> SUFFICES ASSUME NEW d \in retry,
                      NEW c, c = [d EXCEPT !.current = @ /\ ~(d.by \in stops /\ d.of \in Natives)]
               PROVE  c.by = d.by
    BY DEF LateCleanups
  <1>1. d \in Cleanup
    BY DEF IInv, TypeOK
  <1> QED BY <1>1 DEF Cleanup

-----------------------------------------------------------------------------
(* Steps that give out and end no stream. *)

LEMMA NobodyFlow ==
    ASSUME TypeOK, inbox' = inbox
    PROVE  Flow({}, Nobody, Nobody, {}) /\ NewTrue(Nobody)
  <1>1. Made(inbox', {}, Nobody)
    BY MadeNow
  <1>2. Flow({}, Nobody, Nobody, {})
    BY <1>1, MadeFlow
  <1> QED BY <1>2, NobodyShape DEF NewTrue

LEMMA SameRefs ==
    ASSUME streams' = streams
    PROVE  RefsKept /\ LinksKept /\ CardsSame
  BY DEF RefsKept, LinksKept, CardsSame, Linked, Card

LEMMA SameMissed == missed' = missed => MissedKept
  BY DEF MissedKept

LEMMA MoreMissed ==
    ASSUME TypeOK, NEW ids, NEW what, missed' = Miss(ids, what)
    PROVE  MissedKept
  BY MissAdds DEF MissedKept

LEMMA MoreWaits == retry \subseteq retry' => WaitsKept
  BY DEF WaitsKept, Waits

\* One session is sent something that announces nothing.
LEMMA ToOneTrue ==
    ASSUME NEW b \in Up, NEW ms, \A m \in ms : m.type \notin {"started", "stopped", "at"}
    PROVE  NewTrue(ToOne(b, ms))
  BY DEF NewTrue, ToOne

LEMMA AppendOneFlow ==
    ASSUME TypeOK, NEW b \in Browsers, NEW m \in Message,
           inbox' = [inbox EXCEPT ![b] = Append(@, m)]
    PROVE  Flow({}, Nobody, ToOne(b, {m}), {})
  <1>1. inbox[b] \in Seq(Message) /\ <<m>> \in Seq(Message)
    BY InboxShape
  <1>2. Append(inbox[b], m) = inbox[b] \o <<m>>
    BY <1>1
  <1>3. inbox' = [inbox EXCEPT ![b] = @ \o <<m>>]
    BY <1>2
  <1>4. ToSet(<<m>>) = {m}
    BY DEF ToSet
  <1> QED BY <1>1, <1>3, <1>4, AppendFlow

LEMMA ArriveStep ==
    ASSUME IInv, OnlyUp, NEW b \in Browsers, Arrive(b)
    PROVE  Step({}, Nobody, Nobody, {})
  <1>1. /\ TypeOK /\ session[b] = "absent" /\ session' = [session EXCEPT ![b] = "down"]
        /\ UNCHANGED <<streams, inbox, retry, place, live, missed>>
    BY DEF Arrive, registry, IInv
  <1>2. Up \subseteq Up'
    BY <1>1 DEF Up, TypeOK
  <1> QED BY <1>1, <1>2, NobodyFlow, SameRefs, SameMissed, MoreWaits, CalmStep

LEMMA ConnectStep ==
    ASSUME IInv, OnlyUp, NEW b \in Browsers, Connect(b)
    PROVE  Step({}, Nobody, Nobody, {})
  <1>1. /\ TypeOK /\ session' = [session EXCEPT ![b] = "up"]
        /\ UNCHANGED <<streams, inbox, retry, place, live, missed>>
    BY DEF Connect, registry, IInv
  <1>2. Up \subseteq Up'
    BY <1>1 DEF Up, TypeOK
  <1> QED BY <1>1, <1>2, NobodyFlow, SameRefs, SameMissed, MoreWaits, CalmStep

LEMMA ScanBreakStep ==
    ASSUME IInv, OnlyUp, ScanBreak
    PROVE  Step({}, Nobody, Nobody, {})
  <1>1. /\ TypeOK
        /\ \/ missed' = Miss({id \in Ids : live[id] \in scan.todo \cap Natives}, "start")
           \/ missed' = missed
        /\ UNCHANGED <<session, streams, inbox, retry, place, live>>
    BY DEF ScanBreak, BrokenPass, sessions, registry, IInv
  <1>2. Up \subseteq Up'
    BY <1>1 DEF Up
  <1>3. MissedKept
    BY <1>1, SameMissed, MoreMissed
  <1> QED BY <1>1, <1>2, <1>3, NobodyFlow, SameRefs, MoreWaits, CalmStep

LEMMA ScanAskStep ==
    ASSUME IInv, OnlyUp, NEW c \in Clients, ScanAsk(c)
    PROVE  \E new : Step({}, Nobody, new, {})
  <1>1. /\ TypeOK /\ scan.by \in Up /\ scan.by \in Browsers
        /\ UNCHANGED <<session, streams, retry, place, live>>
    BY DEF ScanAsk, sessions, registry, IInv, Up
  <1>2. Up \subseteq Up'
    BY <1>1 DEF Up
  <1>3. PICK own : own = {id \in Ids : live[id] = c}
    OBVIOUS
  <1>4. \/ /\ \E order \in SetToSeqs(own) :
                 inbox' = [inbox EXCEPT ![scan.by] = @ \o Notices("started", order, c)]
           /\ missed' = IF \A b \in Browsers : inbox[b] = <<>>
                        THEN [id \in Ids |-> missed[id] \ {"start" : i \in own \cap {id}}]
                        ELSE missed
        \/ inbox' = inbox /\ missed' = IF c \in Natives THEN Miss(own, "start") ELSE missed
    BY <1>3 DEF ScanAsk
  <1>5. MissedKept
    <2>1. CASE missed' = [id \in Ids |-> missed[id] \ {"start" : i \in own \cap {id}}]
      BY <2>1 DEF MissedKept
    <2> QED BY <1>1, <1>4, <2>1, SameMissed, MoreMissed
  <1>6. CASE inbox' = inbox
    BY <1>1, <1>2, <1>5, <1>6, NobodyFlow, SameRefs, MoreWaits, CalmStep
  <1>7. ASSUME NEW order \in SetToSeqs(own),
               inbox' = [inbox EXCEPT ![scan.by] = @ \o Notices("started", order, c)]
        PROVE  \E new : Step({}, Nobody, new, {})
    <2>1. own \in SUBSET Ids
      BY <1>3
    <2>2. PICK more \in Seq(Message) : more = Notices("started", order, c)
      BY <2>1, NoticesShape
    <2>3. ToSet(more) = {Msg("started", id, c) : id \in own}
      BY <2>1, <2>2, NoticesAll
    <2>4. Flow({}, Nobody, ToOne(scan.by, ToSet(more)), {})
      BY <1>1, <1>7, <2>2, AppendFlow
    <2>5. NewTrue(ToOne(scan.by, ToSet(more)))
      BY <1>1, <1>3, <2>3 DEF NewTrue, ToOne, Msg
    <2> QED BY <1>1, <1>2, <1>5, <2>4, <2>5, SameRefs, MoreWaits, CalmStep
  <1> QED BY <1>4, <1>6, <1>7

LEMMA ViewersRefs ==
    ASSUME TypeOK, NEW k \in Keys, streams[k] # None, NEW set \in SUBSET Browsers,
           streams' = [streams EXCEPT ![k].viewers = set]
    PROVE  RefsKept /\ LinksKept /\ CardsSame
  <1>1. PICK s \in Stream : s = streams[k]
    BY EntryShape
  <1>2. PICK r : r = [s EXCEPT !.viewers = set]
    OBVIOUS
  <1>3. r.src = s.src /\ r.channel = s.channel /\ r.link = s.link
    BY <1>2 DEF Stream
  <1>4. \A i \in Keys : streams'[i] = IF i = k THEN r ELSE streams[i]
    BY <1>1, <1>2 DEF TypeOK
  <1>5. \A i \in Browsers \cup Ids : i \in Keys
    BY DEF Keys
  <1>6. r # None
    BY <1>1, <1>2, ViewersSet, StreamAssumption
  <1> QED BY <1>1, <1>3, <1>4, <1>5, <1>6
       DEF RefsKept, LinksKept, CardsSame, Linked, Card

LEMMA JoinStep ==
    ASSUME IInv, OnlyUp, NEW b \in Browsers, NEW k \in Keys, Join(b, k)
    PROVE  \E new : Step({}, Nobody, new, {})
  <1>1. /\ TypeOK /\ b \in Up /\ streams[k] # None
        /\ streams' = [streams EXCEPT ![k].viewers = streams[k].viewers \cup {b}]
        /\ UNCHANGED <<session, retry, place, live, missed>>
    BY DEF Join, sessions, IInv
  <1>2. Up \subseteq Up'
    BY <1>1 DEF Up
  <1>3. RefsKept /\ LinksKept
    <2>1. streams[k].viewers \cup {b} \in SUBSET Browsers
      BY <1>1, EntryShape, StreamShape
    <2> QED BY <1>1, <2>1, ViewersRefs
  <1>4. \/ inbox' = inbox
        \/ k \in Ids /\ inbox' = [inbox EXCEPT ![b] = Append(@, Msg("joinRefused", k, None))]
    BY DEF Join, Keys
  <1>5. CASE inbox' = inbox
    BY <1>1, <1>2, <1>3, <1>5, NobodyFlow, SameMissed, MoreWaits, CalmStep
  <1>6. CASE k \in Ids /\ inbox' = [inbox EXCEPT ![b] = Append(@, Msg("joinRefused", k, None))]
    <2>1. PICK m \in Message : m = Msg("joinRefused", k, None)
      BY <1>6, MsgMessage
    <2>2. Flow({}, Nobody, ToOne(b, {m}), {})
      BY <1>1, <1>6, <2>1, AppendOneFlow
    <2>3. NewTrue(ToOne(b, {m}))
      BY <1>1, <2>1, ToOneTrue DEF Msg
    <2> QED BY <1>1, <1>2, <1>3, <2>2, <2>3, SameMissed, MoreWaits, CalmStep
  <1> QED BY <1>4, <1>5, <1>6

LEMMA WatchStep ==
    ASSUME IInv, OnlyUp, NEW n \in Natives, NEW id \in Ids, Watch(n, id)
    PROVE  \E new : Step({}, Nobody, new, {})
  <1>1. /\ TypeOK /\ live[id] \in Browsers
        /\ inbox' = [inbox EXCEPT ![live[id]] = Append(@, Msg("joinAsked", id, n))]
        /\ UNCHANGED <<session, streams, retry, place, live, missed>>
    BY DEF Watch, sessions, registry, IInv
  <1>2. PICK m \in Message : m = Msg("joinAsked", id, n)
    BY MsgMessage
  <1>3. Flow({}, Nobody, ToOne(live[id], {m}), {})
    BY <1>1, <1>2, AppendOneFlow
  <1>4. NewTrue(ToOne(live[id], {m}))
    BY <1>1, <1>2, ToOneTrue DEF Msg, OnlyUp
  <1>5. Up \subseteq Up'
    BY <1>1 DEF Up
  <1> QED BY <1>1, <1>3, <1>4, <1>5, SameRefs, SameMissed, MoreWaits, CalmStep

LEMMA UnwatchStep ==
    ASSUME IInv, OnlyUp, NEW n \in Natives, NEW id \in Ids, Unwatch(n, id)
    PROVE  \E new : Step({}, Nobody, new, {})
  <1>1. /\ TypeOK
        /\ inbox' = [inbox EXCEPT ![live[id]] = Append(@, Msg("clientLeft", id, n))]
        /\ UNCHANGED <<session, streams, retry, place, live, missed>>
    BY DEF Unwatch, sessions, registry, IInv
  <1>2. PICK m \in Message : m = Msg("clientLeft", id, n)
    BY MsgMessage
  <1>3. Up \subseteq Up'
    BY <1>1 DEF Up
  <1>4. CASE live[id] \in Browsers
    <2>1. Flow({}, Nobody, ToOne(live[id], {m}), {})
      BY <1>1, <1>2, <1>4, AppendOneFlow
    <2>2. NewTrue(ToOne(live[id], {m}))
      BY <1>2, <1>4, ToOneTrue DEF Msg, OnlyUp
    <2> QED BY <1>1, <1>3, <2>1, <2>2, SameRefs, SameMissed, MoreWaits, CalmStep
  <1>5. CASE live[id] \notin Browsers
    <2>1. inbox' = inbox
      BY <1>1, <1>5 DEF TypeOK
    <2> QED BY <1>1, <1>3, <2>1, NobodyFlow, SameRefs, SameMissed, MoreWaits, CalmStep
  <1> QED BY <1>4, <1>5

LEMMA ExpelledFlow ==
    ASSUME TypeOK, NEW b \in Up, NEW id \in Ids, NEW n \in Natives,
           NEW current \in BOOLEAN, Expelled(b, id, n, current)
    PROVE  \E new : /\ Flow({}, Nobody, new, {}) /\ NewTrue(new)
                    /\ \A v \in Browsers : \A m \in new[v] :
                          /\ v = b /\ m.type \in {"clientLeft", "removed"}
                          /\ m.id = id /\ m.of = n
                    /\ n \in audience[id] => Msg("clientLeft", id, n) \in new[b]
  <1>1. PICK m \in Message : m = Msg("clientLeft", id, n)
    BY MsgMessage
  <1>2. PICK r \in Message : r = [Msg("removed", id, n) EXCEPT !.current = current]
    BY MsgMessage
  <1>3. /\ r.type = "removed" /\ m.type = "clientLeft"
        /\ \A x \in {m, r} : x.id = id /\ x.of = n
    BY <1>1, <1>2 DEF Msg
  <1>4. PICK left : left = IF n \in audience[id] THEN <<m>> ELSE <<>>
    OBVIOUS
  <1>5. PICK more : more = IF n \in audience[id] THEN <<m, r>> ELSE <<r>>
    OBVIOUS
  <1>6. /\ b \in Browsers /\ inbox[b] \in Seq(Message)
        /\ more \in Seq(Message)
    BY <1>5, InboxShape DEF Up
  <1>7. (inbox[b] \o left) \o <<r>> = inbox[b] \o more
    <2>1. PICK q \in Seq(Message) : q = inbox[b]
      BY <1>6
    <2>2. (q \o <<m>>) \o <<r>> = q \o <<m, r>> /\ (q \o <<>>) \o <<r>> = q \o <<r>>
      OBVIOUS
    <2> QED BY <1>4, <1>5, <2>1, <2>2
  <1>8. inbox' = [inbox EXCEPT ![b] = @ \o more]
    BY <1>1, <1>2, <1>4, <1>7 DEF Expelled
  <1>9. \A x \in ToSet(more) : x \in {m, r}
    BY <1>5 DEF ToSet
  <1>10. NewTrue(ToOne(b, ToSet(more)))
    BY <1>3, <1>9, ToOneTrue
  <1>11. \A v \in Browsers : \A x \in ToOne(b, ToSet(more))[v] : v = b /\ x \in {m, r}
    BY <1>9 DEF ToOne
  <1>12. n \in audience[id] => m \in ToOne(b, ToSet(more))[b]
    BY <1>5, <1>6 DEF ToOne, ToSet
  <1>13. Flow({}, Nobody, ToOne(b, ToSet(more)), {})
    BY <1>6, <1>8, AppendFlow
  <1> QED BY <1>1, <1>3, <1>10, <1>11, <1>12, <1>13

LEMMA EvictStep ==
    ASSUME IInv, OnlyUp, NEW b \in Browsers, NEW n \in Natives, Evict(b, n)
    PROVE  \E new : Step({}, Nobody, new, {})
  <1>1. /\ TypeOK /\ b \in Up /\ streams[b] # None
        /\ UNCHANGED <<session, streams, place, live>>
    BY DEF Evict, sessions, registry, IInv
  <1>2. PICK id \in Ids : id = streams[b].link
    BY <1>1, EntryShape, StreamShape DEF Evict, Keys
  <1>3. Up \subseteq Up'
    BY <1>1 DEF Up
  <1>4. CASE Expelled(b, id, n, TRUE) /\ UNCHANGED <<retry, missed>>
    <2>1. PICK new : Flow({}, Nobody, new, {}) /\ NewTrue(new)
      BY <1>1, <1>4, ExpelledFlow
    <2> QED BY <1>1, <1>3, <1>4, <2>1, SameRefs, SameMissed, MoreWaits, CalmStep
  <1>5. CASE /\ retry' = retry \cup {[by |-> b, id |-> id, of |-> n, current |-> TRUE]}
             /\ missed' = Miss({id}, "flooded")
             /\ inbox' = inbox
    BY <1>1, <1>3, <1>5, NobodyFlow, SameRefs, MoreMissed, MoreWaits, CalmStep
  <1> QED BY <1>2, <1>4, <1>5 DEF Evict

LEMMA ToAllStops ==
    ASSUME TypeOK, NEW id \in Ids, inbox' = ToAll(inbox, <<Msg("stopped", id, None)>>)
    PROVE  Flow({}, Nobody, ToUp(Stops({id})), {})
  <1>1. PICK m \in Message : m = Msg("stopped", id, None)
    BY MsgMessage
  <1>2. PICK more : more = <<m>>
    OBVIOUS
  <1>3. more \in Seq(Message) /\ ToSet(more) = Stops({id})
    BY <1>1, <1>2 DEF ToSet, Stops
  <1> QED BY <1>1, <1>2, <1>3, MadeNow, ToAllFlow

LEMMA ResendStep ==
    ASSUME IInv, OnlyUp, NEW c \in retry, Resend(c)
    PROVE  \E new : Step({}, Nobody, new, {})
  <1>1. /\ TypeOK /\ c \in Cleanup /\ retry' = retry \ {c}
        /\ UNCHANGED <<session, streams, place>>
    BY DEF Resend, sessions, registry, IInv, TypeOK
  <1>2. c.by \in Up /\ c.id \in Ids /\ c.current \in BOOLEAN
    BY <1>1 DEF Cleanup, OnlyUp
  <1>3. Up' = Up
    BY <1>1 DEF Up
  <1>4. CASE c.of \in Natives /\ Expelled(c.by, c.id, c.of, c.current) /\ UNCHANGED <<live, missed>>
    <2>1. PICK new : Flow({}, Nobody, new, {}) /\ NewTrue(new)
      BY <1>1, <1>2, <1>4, ExpelledFlow
    <2>2. WaitsKept
      BY <1>1, <1>4, NoneAssumption DEF WaitsKept, Waits
    <2> QED BY <1>1, <1>3, <1>4, <2>1, <2>2, SameRefs, SameMissed, CalmStep
  <1>5. CASE c.of \in Browsers /\ UNCHANGED <<live, inbox, missed>>
    <2>1. WaitsKept
      BY <1>1, <1>5, NoneAssumption DEF WaitsKept, Waits
    <2> QED BY <1>1, <1>3, <1>5, <2>1, NobodyFlow, SameRefs, SameMissed, CalmStep
  <1>6. CASE /\ missed' = IF live[c.id] # None THEN Miss({c.id}, "abandoned") ELSE missed
             /\ UNCHANGED <<live, audience, inbox>>
    <2>1. MissedKept /\ (live[c.id] # None => "abandoned" \in missed'[c.id])
      <3>1. CASE live[c.id] # None
        <4>1. missed' = Miss({c.id}, "abandoned")
          BY <1>6, <3>1
        <4>2. c.id \in {c.id} /\ c.id \in Ids
          BY <1>2 DEF Cleanup
        <4>3. MissedKept
          BY <1>1, <4>1, MoreMissed
        <4>4. "abandoned" \in missed'[c.id]
          BY <1>1, <4>1, <4>2, MissAdds
        <4> QED BY <4>3, <4>4
      <3>2. CASE live[c.id] = None
        BY <1>6, <3>2, SameMissed
      <3> QED BY <3>1, <3>2
    <2>2. ASSUME NEW b \in Browsers, NEW id \in Ids, live[id] = b,
                 NEW d \in retry, d.by = b, d.id = id, d.of = None
          PROVE  Waits(b, id)' \/ "abandoned" \in missed'[id]
      <3>1. CASE d = c
        BY <2>1, <2>2, <3>1, NoneAssumption
      <3>2. CASE d # c
        BY <1>1, <2>2, <3>2 DEF Waits
      <3> QED BY <3>1, <3>2
    <2>3. WaitsKept
      BY <2>2 DEF WaitsKept, Waits
    <2> QED BY <1>1, <1>3, <1>6, <2>1, <2>3, NobodyFlow, SameRefs, CalmStep
  <1>7. CASE /\ c.of = None /\ live[c.id] = c.by
             /\ live' = [live EXCEPT ![c.id] = None]
             /\ inbox' = ToAll(inbox, <<Msg("stopped", c.id, None)>>)
             /\ missed' = missed
    <2>1. PICK new : new = ToUp(Stops({c.id}))
      OBVIOUS
    <2>2. \A id \in Ids : live'[id] = IF id = c.id THEN None ELSE live[id]
      BY <1>1, <1>7 DEF TypeOK
    <2>3. Flow({}, Nobody, new, {})
      BY <1>1, <1>2, <1>7, <2>1, ToAllStops
    <2>4. /\ NewTrue(new)
          /\ \A v \in Up : Msg("stopped", c.id, None) \in new[v]
      BY <1>2, <2>1, <2>2, StopsTrue
    <2>5. live[c.id] # None /\ Up # {}
      BY <1>2, <1>7, NoneAssumption DEF Up
    <2>6. Actors({}, {}) /\ OutTrue(Nobody, {})
      BY <1>1, <1>3, NobodyShape DEF Actors, OutTrue, OnlyUp
    <2>7. LiveTrue(new, {})
      BY <1>2, <2>2, <2>4, <2>5 DEF LiveTrue, Ended
    <2>8. RefsFrom({}) /\ EndsTrue({}, {})
      BY <1>1, <1>7, SameRefs DEF RefsFrom, RefsKept, EndsTrue
    <2>9. HeldFrom({}, new)
      <3> SUFFICES ASSUME NEW b \in Browsers, NEW id \in Ids, live'[id] = b
                   PROVE  /\ live[id] = b
                          /\ "abandoned" \in missed[id] => "abandoned" \in missed'[id]
                          /\ Linked(b, id) => Linked(b, id)'
                          /\ Waits(b, id) => Waits(b, id)'
        BY DEF HeldFrom
      <3>1. id # c.id /\ live[id] = b
        BY <2>2, NoneAssumption
      <3>2. Waits(b, id) => Waits(b, id)'
        BY <1>1, <3>1 DEF Waits
      <3> QED BY <1>1, <1>7, <3>1, <3>2 DEF Linked
    <2> QED BY <1>1, <2>3, <2>4, <2>6, <2>7, <2>8, <2>9 DEF Step, MoveTold
  <1> QED BY <1>4, <1>5, <1>6, <1>7 DEF Resend

-----------------------------------------------------------------------------
(* Steps that retire streams and send commands. *)

LEMMA RetireSendStep ==
    ASSUME IInv, OnlyUp, NEW stops, NEW leaves, streams' = Retired(stops, leaves), Up' = Up,
           place' = place,
           NEW heads \in SUBSET Browsers, \A v \in heads : inbox[v] # <<>>,
           \A v \in heads : inbox[v][1].type \notin {"started", "stopped"},
           NEW inb, Made(inb, heads, Late(stops, leaves)),
           NEW waiting \in {retry, LateCleanups(stops)},
           Send(Cleanups(stops, leaves), inb, waiting)
    PROVE  \E ended : Step(heads, Late(stops, leaves), ToUp(Stops(ended)), {})
  <1>1. PICK out : out = Late(stops, leaves)
    OBVIOUS
  <1>2. PICK cmds \in SUBSET Cleanup : cmds = Cleanups(stops, leaves)
    BY DEF Cleanups
  <1>3. PICK done, ended : /\ Sent(cmds, waiting, done, ended)
                           /\ Flow(heads, out, ToUp(Stops(ended)), {})
    BY <1>1, <1>2, SendParts DEF IInv
  <1>4. OutTrue(out, {})
    BY <1>1, LateTrue
  <1>5. /\ RefsKept
        /\ \A b \in Browsers, id \in Ids : Linked(b, id) => Linked(b, id)' \/ b \in stops
    BY RetiredRefs DEF IInv
  <1>6. RefsFrom(heads)
    BY <1>5 DEF RefsFrom, RefsKept
  <1>7. \A b \in Browsers, id \in Ids : Linked(b, id) => Linked(b, id)' \/ Commanded(cmds, b, id)
    BY <1>2, <1>5, StopsCommanded
  <1>8. \A c \in cmds : c.by \in Up
    BY <1>2 DEF Cleanups
  <1>9. \A c \in waiting : \E d \in retry : c.by = d.by
    BY LateBy
  <1>10. \A b \in Browsers, id \in Ids : Waits(b, id) => Commanded(waiting, b, id)
    BY LateWaits
  <1>11. \A b \in heads, id \in Ids : ~OwnHeading({b}, id, b)
    BY DEF OwnHeading, Is
  <1> QED BY <1>1, <1>3, <1>4, <1>6, <1>7, <1>8, <1>9, <1>10, <1>11, SendStep

LEMMA StopStep ==
    ASSUME IInv, OnlyUp, NEW b \in Browsers, Stop(b)
    PROVE  \E out, new : Step({}, out, new, {})
  <1>1. PICK stops, leaves : stops = {b} /\ leaves = {}
    OBVIOUS
  <1>2. /\ streams' = Retired(stops, leaves)
        /\ Send(Cleanups(stops, leaves), Outdated(stops, leaves), LateCleanups(stops))
        /\ Up' = Up /\ place' = place /\ TypeOK
    BY <1>1 DEF Stop, Retire, sessions, Up, IInv
  <1>3. Made(Outdated(stops, leaves), {}, Late(stops, leaves))
    BY <1>2, MadeLate
  <1> QED BY <1>2, <1>3, RetireSendStep

LEMMA LeaveStep ==
    ASSUME IInv, OnlyUp, NEW b \in Browsers, NEW k \in Keys, Leave(b, k)
    PROVE  \E out, new : Step({}, out, new, {})
  <1>1. PICK stops, leaves : stops = {} /\ leaves = {<<b, k>>}
    OBVIOUS
  <1>2. /\ streams' = Retired(stops, leaves)
        /\ Send(Cleanups(stops, leaves), Outdated(stops, leaves), retry)
        /\ Up' = Up /\ place' = place /\ TypeOK
    BY <1>1 DEF Leave, Retire, sessions, Up, IInv
  <1>3. Made(Outdated(stops, leaves), {}, Late(stops, leaves))
    BY <1>2, MadeLate
  <1> QED BY <1>2, <1>3, RetireSendStep

LEMMA BrowserMoveStep ==
    ASSUME IInv, OnlyUp, NEW b \in Browsers, NEW ch \in Channels, BrowserMove(b, ch)
    PROVE  \E out, new : Step({}, out, new, {})
  <1>1. PICK stops, leaves : /\ stops = {k \in {b} : streams[k] # None}
                             /\ leaves = {b} \X {k \in Viewed(b) : streams[k].channel # ch}
    OBVIOUS
  <1>2. /\ streams' = Retired(stops, leaves)
        /\ Send(Cleanups(stops, leaves), Outdated(stops, leaves), LateCleanups(stops))
        /\ Up' = Up /\ place' = place /\ TypeOK
    BY <1>1 DEF BrowserMove, Retire, Up, IInv
  <1>3. Made(Outdated(stops, leaves), {}, Late(stops, leaves))
    BY <1>2, MadeLate
  <1> QED BY <1>2, <1>3, RetireSendStep

LEMMA JoinRefusedStep ==
    ASSUME IInv, OnlyUp, NEW b \in Browsers, JoinRefusedAnswer(b)
    PROVE  \E out, new : Step({b}, out, new, {})
  <1>1. /\ inbox[b] # <<>> /\ Head(inbox[b]).type = "joinRefused" /\ TypeOK
        /\ Up' = Up /\ place' = place
    BY DEF JoinRefusedAnswer, Heads, sessions, Up, IInv
  <1>2. PICK stops, leaves :
          /\ stops = {}
          /\ leaves = IF Head(inbox[b]).current THEN {<<b, Head(inbox[b]).id>>} ELSE {}
    OBVIOUS
  <1>3. /\ streams' = Retired(stops, leaves)
        /\ Send(Cleanups(stops, leaves), Rest(Outdated(stops, leaves), b), retry)
    BY <1>2 DEF JoinRefusedAnswer, Retire
  <1>4. Made(Rest(Outdated(stops, leaves), b), {b}, Late(stops, leaves))
    BY <1>1, MadeLate, MadeRest
  <1>5. inbox[b][1].type = "joinRefused"
    BY <1>1, HeadFirst
  <1> QED BY <1>1, <1>3, <1>4, <1>5, RetireSendStep

-----------------------------------------------------------------------------
(* Notices that announce nothing. *)

LEMMA RestFlow ==
    ASSUME TypeOK, NEW b \in Browsers, inbox[b] # <<>>, inbox' = Rest(inbox, b)
    PROVE  Flow({b}, Nobody, Nobody, {}) /\ OutTrue(Nobody, {})
  <1>1. Made(inbox', {b}, Nobody)
    BY MadeNow, MadeRest
  <1> QED BY <1>1, MadeFlow, NobodyShape DEF OutTrue

LEMMA RestLateFlow ==
    ASSUME TypeOK, NEW b \in Browsers, inbox[b] # <<>>, NEW stops, NEW leaves,
           inbox' = Rest(Outdated(stops, leaves), b)
    PROVE  \E out : Flow({b}, out, Nobody, {}) /\ OutTrue(out, {})
  <1>1. Made(inbox', {b}, Late(stops, leaves))
    BY MadeLate, MadeRest
  <1> QED BY <1>1, MadeFlow, LateTrue

\* Streams change in nothing but their native viewers.
LEMMA NativesRefs ==
    ASSUME \A k \in Keys : \/ streams'[k] = streams[k]
                           \/ /\ streams[k] \in Stream
                              /\ \E set : streams'[k] = [streams[k] EXCEPT !.natives = set]
                              /\ streams'[k] # None
    PROVE  RefsKept /\ LinksKept /\ CardsSame
  <1>1. \A s \in Stream : \A set : /\ [s EXCEPT !.natives = set].src = s.src
                                   /\ [s EXCEPT !.natives = set].channel = s.channel
                                   /\ [s EXCEPT !.natives = set].link = s.link
    BY DEF Stream
  <1>2. ASSUME NEW k \in Keys
        PROVE  /\ streams'[k] # None <=> streams[k] # None
               /\ streams'[k] # None => /\ streams'[k].src = streams[k].src
                                        /\ streams'[k].channel = streams[k].channel
                                        /\ streams'[k].link = streams[k].link
    <2>1. CASE streams'[k] = streams[k]
      BY <2>1
    <2>2. CASE streams'[k] # streams[k]
      <3>1. PICK s \in Stream : s = streams[k]
        BY <2>2
      <3>2. PICK set : streams'[k] = [s EXCEPT !.natives = set]
        BY <2>2, <3>1
      <3>3. /\ streams'[k].src = s.src /\ streams'[k].channel = s.channel
            /\ streams'[k].link = s.link
        BY <1>1, <3>2
      <3> QED BY <2>2, <3>1, <3>3, StreamAssumption
    <2> QED BY <2>1, <2>2
  <1>3. \A k \in Browsers \cup Ids : k \in Keys
    BY DEF Keys
  <1> QED BY <1>2, <1>3 DEF RefsKept, LinksKept, CardsSame, Linked, Card

LEMMA OneNatives ==
    ASSUME TypeOK, NEW k \in Keys, streams[k] # None, NEW set \in SUBSET Natives,
           streams' = [streams EXCEPT ![k].natives = set]
    PROVE  RefsKept /\ LinksKept /\ CardsSame
  <1>1. PICK s \in Stream : s = streams[k]
    BY EntryShape
  <1>2. [s EXCEPT !.natives = set] # None
    BY NativesSet, StreamAssumption DEF Altered
  <1>3. \A i \in Keys : streams'[i] = IF i = k THEN [s EXCEPT !.natives = set] ELSE streams[i]
    BY <1>1 DEF TypeOK
  <1>4. \A i \in Keys : \/ streams'[i] = streams[i]
                        \/ /\ streams[i] \in Stream
                           /\ \E x : streams'[i] = [streams[i] EXCEPT !.natives = x]
                           /\ streams'[i] # None
    BY <1>1, <1>2, <1>3
  <1> QED BY <1>4, NativesRefs

LEMMA AudienceNoticeStep ==
    ASSUME IInv, OnlyUp, NEW b \in Browsers, JoinAskedNotice(b) \/ RemovedAnswer(b)
    PROVE  Step({b}, Nobody, Nobody, {})
  <1>1. PICK m \in Message : m = Head(inbox[b])
    BY HeadShape DEF JoinAskedNotice, RemovedAnswer, Heads, IInv
  <1>2. /\ inbox[b] # <<>> /\ m.type \in {"joinAsked", "removed"} /\ TypeOK
        /\ inbox' = Rest(inbox, b) /\ UNCHANGED <<session, place, live, retry>>
    BY <1>1 DEF JoinAskedNotice, RemovedAnswer, Heads, sessions, IInv
  <1>3. /\ missed' = missed \/ \E ids, what : missed' = Miss(ids, what)
        /\ \/ streams' = streams
           \/ /\ streams[b] # None
              /\ \E set : /\ set \in {streams[b].natives \cup {m.of}, streams[b].natives \ {m.of}}
                          /\ streams' = [streams EXCEPT ![b].natives = set]
    BY <1>1 DEF JoinAskedNotice, RemovedAnswer
  <1>4. MissedKept
    BY <1>2, <1>3, SameMissed, MoreMissed
  <1>5. m.of \in Natives
    BY <1>2, MessageShape
  <1>6. RefsKept /\ LinksKept
    <2>1. CASE streams' = streams
      BY <2>1, SameRefs
    <2>2. CASE streams' # streams
      <3>1. PICK set : /\ set \in {streams[b].natives \cup {m.of}, streams[b].natives \ {m.of}}
                       /\ streams' = [streams EXCEPT ![b].natives = set]
        BY <1>3, <2>2
      <3>2. streams[b] # None /\ b \in Keys
        BY <1>3, <2>2 DEF Keys
      <3>3. set \in SUBSET Natives
        BY <1>2, <1>5, <3>1, <3>2, EntryShape, StreamShape
      <3> QED BY <1>2, <3>1, <3>2, <3>3, OneNatives
    <2> QED BY <2>1, <2>2
  <1>7. Up' = Up
    BY <1>2 DEF Up
  <1>8. Flow({b}, Nobody, Nobody, {}) /\ OutTrue(Nobody, {})
    BY <1>2, RestFlow
  <1> QED BY <1>1, <1>2, <1>4, <1>6, <1>7, <1>8, HandleStep DEF Is

LEMMA ClientLeftStep ==
    ASSUME IInv, OnlyUp, NEW b \in Browsers, ClientLeftNotice(b)
    PROVE  Step({b}, Nobody, Nobody, {})
  <1>1. PICK m \in Message : m = Head(inbox[b])
    BY HeadShape DEF ClientLeftNotice, Heads, IInv
  <1>2. /\ inbox[b] # <<>> /\ m.type = "clientLeft" /\ TypeOK
        /\ inbox' = Rest(inbox, b) /\ UNCHANGED <<session, place, live, retry, missed>>
        /\ streams' = [k \in Keys |-> IF k \in Browsers /\ streams[k] # None /\ streams[k].link = m.id
                                      THEN [streams[k] EXCEPT !.natives = @ \ {m.of}] ELSE streams[k]]
    BY <1>1 DEF ClientLeftNotice, Heads, sessions, IInv
  <1>3. RefsKept /\ LinksKept
    <2>1. ASSUME NEW k \in Keys, streams'[k] # streams[k]
          PROVE  /\ streams[k] \in Stream
                 /\ \E set : streams'[k] = [streams[k] EXCEPT !.natives = set]
                 /\ streams'[k] # None
      <3>1. streams[k] # None
        BY <1>2, <2>1
      <3>2. PICK s \in Stream : s = streams[k]
        BY <1>2, <3>1, EntryShape
      <3>3. PICK set : set = s.natives \ {m.of}
        OBVIOUS
      <3>4. set \in SUBSET Natives
        BY <3>2, <3>3, StreamShape
      <3>5. streams'[k] = [s EXCEPT !.natives = set]
        BY <1>2, <2>1, <3>2, <3>3
      <3> QED BY <3>2, <3>4, <3>5, NativesSet, StreamAssumption DEF Altered
    <2> QED BY <2>1, NativesRefs
  <1>4. Up' = Up /\ MissedKept
    BY <1>2, SameMissed DEF Up
  <1>5. Flow({b}, Nobody, Nobody, {}) /\ OutTrue(Nobody, {})
    BY <1>2, RestFlow
  <1> QED BY <1>1, <1>2, <1>3, <1>4, <1>5, HandleStep DEF Is

LEMMA AtNoticeStep ==
    ASSUME IInv, OnlyUp, NEW b \in Browsers, AtNotice(b)
    PROVE  \E out : Step({b}, out, Nobody, {})
  <1>1. PICK m : m = Head(inbox[b])
    OBVIOUS
  <1>2. PICK stops : stops = {id \in Ids : /\ directory[b][m.of] # None
                                           /\ streams[id] # None /\ streams[id].src = m.of
                                           /\ streams[id].channel # m.id}
    OBVIOUS
  <1>3. /\ inbox[b] # <<>> /\ m.type = "at" /\ TypeOK
        /\ streams' = Retired(stops, {}) /\ inbox' = Rest(Outdated(stops, {}), b)
        /\ missed' = Miss(stops, "moved") /\ UNCHANGED <<session, place, live, retry>>
    BY <1>1, <1>2 DEF AtNotice, Heads, Retire, IInv
  <1>4. RefsKept /\ LinksKept
    <2>1. \A v \in Browsers : v \notin stops
      BY <1>2, ClientsAssumption
    <2> QED BY <1>3, <2>1, RetiredRefs DEF LinksKept
  <1>5. Up' = Up /\ MissedKept
    BY <1>3, MoreMissed DEF Up
  <1>6. PICK out : Flow({b}, out, Nobody, {}) /\ OutTrue(out, {})
    BY <1>3, RestLateFlow
  <1> QED BY <1>1, <1>3, <1>4, <1>5, <1>6, HandleStep DEF Is

LEMMA StoppedNoticeStep ==
    ASSUME IInv, Published, NEW b \in Browsers, StoppedNotice(b)
    PROVE  \E out : Step({b}, out, Nobody, {})
  <1>1. PICK m \in Message : m = Head(inbox[b])
    BY HeadShape DEF StoppedNotice, Heads, IInv
  <1>2. /\ inbox[b] # <<>> /\ m.type = "stopped" /\ TypeOK
        /\ UNCHANGED <<session, place, live, retry, missed>>
        /\ OnlyUp /\ StoppedTrue /\ OneClaim
    BY <1>1 DEF StoppedNotice, Heads, sessions, IInv, Published
  <1>3. PICK id \in Ids : id = m.id
    BY <1>2, MessageShape
  <1>4. PICK cards : cards = {k \in {id} : streams[k] # None}
    OBVIOUS
  <1>5. /\ inbox' = Rest(Outdated(cards, {}), b)
        /\ streams' = IF cards # {} THEN Retired(cards, {})
                      ELSE [k \in Keys |-> IF k \in Browsers /\ Linked(k, id)
                            THEN [streams[k] EXCEPT !.link = None, !.natives = {}] ELSE streams[k]]
    BY <1>1, <1>3, <1>4 DEF StoppedNotice, Linked
  <1>6. live[id] = None
    <2>1. Is(inbox[b][1], "stopped", id) /\ 1 \in 1..Len(inbox[b])
      BY <1>1, <1>2, <1>3, HeadFirst DEF Is
    <2>2. Has(inbox[b], "stopped", id)
      BY <2>1 DEF Has
    <2> QED BY <1>2, <2>2 DEF StoppedTrue
  <1>7. RefsKept /\ LinksKept /\ NoRef(id)'
    <2>1. CASE cards # {}
      <3>1. cards = {id} /\ streams[id] # None /\ streams' = Retired(cards, {})
        BY <1>4, <1>5, <2>1
      <3>2. \A v \in Browsers : v \notin cards
        BY <3>1, ClientsAssumption
      <3>3. RefsKept /\ LinksKept
        BY <1>2, <3>1, <3>2, RetiredRefs DEF LinksKept
      <3>4. id \in Keys
        BY DEF Keys
      <3>5. streams'[id] = None
        BY <1>2, <3>1, <3>4, RetiredKeeps
      <3>6. Card(id, streams[id].src) /\ streams[id].src \in Clients
        BY <1>2, <3>1, <3>4, EntryShape, StreamShape DEF Card
      <3>7. \A v \in Browsers : ~Linked(v, id)
        BY <1>2, <3>6 DEF OneClaim, OwnClaim, CardClaim
      <3> QED BY <3>3, <3>5, <3>7 DEF NoRef, RefsKept
    <2>2. CASE cards = {}
      <3>1. streams[id] = None
        BY <1>4, <2>2
      <3>2. \A k \in Keys : ~(k \in Browsers /\ Linked(k, id)) => streams'[k] = streams[k]
        BY <1>5, <2>2
      <3>3. ASSUME NEW k \in Browsers, Linked(k, id)
            PROVE  streams'[k].link = None
        <4>1. k \in Keys /\ streams[k] \in Stream
          BY <1>2, <3>3, EntryShape DEF Keys, Linked
        <4>2. PICK s \in Stream : s = streams[k]
          BY <4>1
        <4>3. streams'[k] = [s EXCEPT !.link = None, !.natives = {}]
          BY <1>5, <2>2, <3>3, <4>1, <4>2
        <4> QED BY <4>3 DEF Stream
      <3>4. \A k \in Browsers \cup Ids : k \in Keys
        BY DEF Keys
      <3>5. \A k \in Ids : k \notin Browsers
        BY ClientsAssumption
      <3>6. NoRef(id)'
        BY <3>1, <3>2, <3>3, <3>4, <3>5, NoneAssumption DEF NoRef, Linked
      <3>7. \A v \in Browsers, i \in Ids : Linked(v, i)' => Linked(v, i)
        BY <3>2, <3>3, <3>4, NoneAssumption DEF Linked
      <3>8. \A i \in Ids, c \in Clients : Card(i, c)' => Card(i, c)
        BY <3>2, <3>4, <3>5 DEF Card
      <3>9. LinksKept
        <4> SUFFICES ASSUME NEW v \in Browsers, NEW i \in Ids, live[i] = v, Linked(v, i)
                     PROVE  Linked(v, i)'
          BY DEF LinksKept
        <4>1. i # id
          BY <1>6, NoneAssumption
        <4>2. ~Linked(v, id)
          BY <4>1 DEF Linked
        <4> QED BY <3>2, <3>4, <4>2 DEF Linked
      <3> QED BY <3>6, <3>7, <3>8, <3>9 DEF RefsKept
    <2> QED BY <2>1, <2>2
  <1>8. Up' = Up /\ MissedKept
    BY <1>2, SameMissed DEF Up
  <1>9. PICK out : Flow({b}, out, Nobody, {}) /\ OutTrue(out, {})
    BY <1>2, <1>5, RestLateFlow
  <1>10. \A i \in Ids : Is(Head(inbox[b]), "stopped", i) => NoRef(i)'
    BY <1>1, <1>3, <1>7 DEF Is
  <1> QED BY <1>1, <1>2, <1>7, <1>8, <1>9, <1>10, HandleStep

-----------------------------------------------------------------------------
(* Announcements. *)

\* Session b has the announcement m to handle.
Announcing(b, m) ==
    /\ inbox[b] # <<>> /\ m \in Message /\ inbox[b][1] = m /\ m.type = "started"
    /\ m.id \in Ids /\ m.of \in Clients /\ 1 \in 1..Len(inbox[b])
    /\ \A id \in Ids : ~Is(m, "stopped", id)
    /\ \A id \in Ids, c \in Clients :
          /\ OwnHeading({b}, id, c) <=> id = m.id /\ c = m.of /\ Own(m)
          /\ CardHeading({b}, id, c) <=> id = m.id /\ c = m.of /\ ~Own(m)

LEMMA HeadStarted ==
    ASSUME IInv, NEW b \in Browsers, Heads(b, "started"), NEW m, m = Head(inbox[b])
    PROVE  Announcing(b, m)
  <1>1. /\ inbox[b] # <<>> /\ m \in Message /\ inbox[b][1] = m /\ m.type = "started"
        /\ 1 \in 1..Len(inbox[b])
    BY HeadShape, HeadFirst DEF Heads, IInv
  <1>2. m.id \in Ids /\ m.of \in Clients
    BY <1>1, MessageShape
  <1> QED BY <1>1, <1>2 DEF OwnHeading, CardHeading, Is, Announcing

LEMMA LinkRefs ==
    ASSUME TypeOK, NEW c \in Browsers, NEW id \in Ids, streams[c] # None,
           streams[c].link \in {None, id}, streams' = [streams EXCEPT ![c].link = id]
    PROVE  /\ \A v \in Browsers, i \in Ids :
                 Linked(v, i)' <=> Linked(v, i) \/ (v = c /\ i = id)
           /\ \A i \in Ids, d \in Clients : Card(i, d)' <=> Card(i, d)
           /\ CardsSame
  <1>1. PICK s \in Stream : s = streams[c]
    BY EntryShape DEF Keys
  <1>2. PICK r : r = [s EXCEPT !.link = id]
    OBVIOUS
  <1>3. r # None /\ r.link = id
    BY <1>2, StreamAssumption DEF Stream
  <1>4. \A k \in Browsers \cup Ids : k \in Keys
    BY DEF Keys
  <1>5. \A k \in Keys : streams'[k] = IF k = c THEN r ELSE streams[k]
    BY <1>1, <1>2 DEF TypeOK
  <1>6. \A i \in Ids : i # c /\ i # None
    BY ClientsAssumption, NoneAssumption
  <1> QED BY <1>1, <1>3, <1>4, <1>5, <1>6 DEF Linked, Card, CardsSame

LEMMA OwnStartedStep ==
    ASSUME IInv, OnlyUp, NEW b \in Browsers, OwnStarted(b)
    PROVE  \E new : Step({b}, Nobody, new, {})
  <1>1. PICK m : m = Head(inbox[b])
    OBVIOUS
  <1>2. Heads(b, "started") /\ m.of \in Browsers /\ m.current
    BY <1>1 DEF OwnStarted
  <1>3. /\ inbox[b] # <<>> /\ inbox[b][1] = m /\ m.type = "started" /\ m.id \in Ids
        /\ 1 \in 1..Len(inbox[b])
        /\ \A id \in Ids : ~Is(m, "stopped", id)
        /\ \A id \in Ids, c \in Browsers : OwnHeading({b}, id, c) <=> id = m.id /\ c = m.of
    <2>1. Own(m) /\ \A c \in Browsers : c \in Clients
      BY <1>2 DEF Own, Clients
    <2>2. Announcing(b, m)
      BY <1>1, <1>2, HeadStarted
    <2> QED BY <2>1, <2>2 DEF Announcing
  <1>4. TypeOK /\ Up' = Up /\ place' = place
    BY DEF OwnStarted, sessions, Up, IInv
  <1>5. CASE streams[m.of] # None /\ streams[m.of].link \in {None, m.id}
    <2>1. /\ streams' = [streams EXCEPT ![m.of].link = m.id]
          /\ inbox' = Rest(inbox, b) /\ UNCHANGED <<live, retry, missed>>
      BY <1>1, <1>5 DEF OwnStarted
    <2>2. /\ \A v \in Browsers, i \in Ids :
                Linked(v, i)' <=> Linked(v, i) \/ (v = m.of /\ i = m.id)
          /\ \A i \in Ids, d \in Clients : Card(i, d)' <=> Card(i, d)
      BY <1>2, <1>3, <1>4, <1>5, <2>1, LinkRefs
    <2>3. RefsFrom({b}) /\ LinksKept
      BY <1>3, <2>2 DEF RefsFrom, LinksKept
    <2>4. \A id \in Ids : OwnHeading({b}, id, b) => Linked(b, id)'
      BY <1>3, <2>2
    <2>5. Flow({b}, Nobody, Nobody, {}) /\ OutTrue(Nobody, {})
      BY <1>3, <1>4, <2>1, RestFlow
    <2> QED BY <1>1, <1>3, <1>4, <2>1, <2>3, <2>4, <2>5, SameMissed, HeardStep
  <1>6. CASE ~(streams[m.of] # None /\ streams[m.of].link \in {None, m.id})
    <2>1. PICK c : c = [by |-> m.of, id |-> m.id, of |-> None, current |-> TRUE]
      OBVIOUS
    <2>2. c \in Cleanup /\ c.by = m.of /\ c.id = m.id /\ c.of = None
      BY <1>2, <1>3, <2>1 DEF Cleanup
    <2>3. PICK cmds \in SUBSET Cleanup : cmds = {c}
      BY <2>2
    <2>4. Send(cmds, Rest(inbox, b), retry) /\ streams' = streams
      BY <1>1, <1>6, <2>1, <2>3 DEF OwnStarted
    <2>5. Made(Rest(inbox, b), {b}, Nobody)
      BY <1>3, <1>4, MadeNow, MadeRest
    <2>6. PICK done, ended : /\ Sent(cmds, retry, done, ended)
                             /\ Flow({b}, Nobody, ToUp(Stops(ended)), {})
      BY <1>4, <2>4, <2>5, SendParts
    <2>7. m.of \in Up
      BY <1>2, <1>3 DEF OnlyUp, Own
    <2>8. \A d \in cmds : d.by \in Up
      BY <2>2, <2>3, <2>7
    <2>9. \A id \in Ids : OwnHeading({b}, id, b) => Commanded(cmds, b, id)
      BY <1>3, <2>2, <2>3 DEF Commanded
    <2>10. OutTrue(Nobody, {})
      BY NobodyShape DEF OutTrue
    <2>11. RefsFrom({b}) /\ \A v \in Browsers, id \in Ids : Linked(v, id) => Linked(v, id)'
      BY <2>4 DEF RefsFrom, Linked, Card
    <2>12. \A v \in Browsers, id \in Ids : Waits(v, id) => Commanded(retry, v, id)
      BY LateWaits
    <2>13. \A v \in {b} : inbox[v] # <<>> /\ inbox[v][1].type # "stopped"
      BY <1>3
    <2> QED BY <1>4, <2>6, <2>8, <2>9, <2>10, <2>11, <2>12, <2>13, SendStep
  <1> QED BY <1>5, <1>6

\* The registry as stream id of client c in channel ch is announced.
Carded(stops, leaves, id, c, ch) ==
    [Retired(stops, leaves) EXCEPT
        ![id] = IF @ = None THEN NewStream(c, ch) ELSE [@ EXCEPT !.src = c]]

\* Retired or not, the card is of that client.
LEMMA CardShape ==
    ASSUME TypeOK, NEW stops \in SUBSET Ids, NEW leaves, NEW id \in Ids, stops \subseteq {id},
           NEW c \in Clients, NEW ch \in Channels,
           streams' = Carded(stops, leaves, id, c, ch)
    PROVE  /\ streams'[id] # None /\ streams'[id].src = c
           /\ (streams[id] # None /\ streams[id].channel # ch => id \in stops) =>
                 streams'[id].channel = ch
           /\ \A v \in Browsers : streams'[v] # None <=> streams[v] # None
           /\ \A v \in Browsers : streams'[v] # None => streams'[v].link = streams[v].link
           /\ \A i \in Ids \ {id} : /\ streams'[i] # None <=> streams[i] # None
                                    /\ streams'[i] # None =>
                                          /\ streams'[i].src = streams[i].src
                                          /\ streams'[i].channel = streams[i].channel
  <1>1. PICK r : r = Retired(stops, leaves)
    OBVIOUS
  <1>2. \A k \in Keys : /\ r[k] \in Stream \cup {None}
                        /\ r[k] # None <=> streams[k] # None /\ k \notin stops
    BY <1>1, RetiredShape
  <1>3. r = [k \in Keys |-> r[k]]
    BY <1>1 DEF Retired
  <1>4. \A k \in Keys : r[k] # None => /\ r[k].src = streams[k].src
                                       /\ r[k].channel = streams[k].channel
                                       /\ r[k].link = streams[k].link
    <2> SUFFICES ASSUME NEW k \in Keys, r[k] # None
                 PROVE  /\ r[k].src = streams[k].src
                        /\ r[k].channel = streams[k].channel
                        /\ r[k].link = streams[k].link
      OBVIOUS
    <2>1. k \notin stops /\ streams[k] # None
      BY <1>2
    <2>2. PICK s \in Stream : s = streams[k]
      BY <2>1, EntryShape
    <2>3. PICK set : set = {v \in s.viewers : <<v, k>> \notin leaves}
      OBVIOUS
    <2>4. r[k] = [s EXCEPT !.viewers = set]
      BY <1>1, <2>1, <2>2, <2>3 DEF Retired
    <2> QED BY <2>2, <2>4 DEF Stream
  <1>5. PICK e : e = IF r[id] = None THEN NewStream(c, ch) ELSE [r[id] EXCEPT !.src = c]
    OBVIOUS
  <1>6. \A k \in Keys : streams'[k] = IF k = id THEN e ELSE r[k]
    BY <1>1, <1>3, <1>5 DEF Carded
  <1>7. /\ e # None /\ e.src = c
        /\ e.channel = IF r[id] = None THEN ch ELSE r[id].channel
    <2>1. CASE r[id] = None
      <3>1. e = NewStream(c, ch)
        BY <1>5, <2>1
      <3>2. e.src = c /\ e.channel = ch
        BY <3>1 DEF NewStream
      <3>3. e # None
        BY <3>1, NewStreamShape, StreamAssumption
      <3> QED BY <2>1, <3>2, <3>3
    <2>2. CASE r[id] # None
      <3>1. PICK s \in Stream : s = r[id]
        BY <1>2, <2>2 DEF Keys
      <3>2. e = [s EXCEPT !.src = c]
        BY <1>5, <2>2, <3>1
      <3>3. e.src = c /\ e.channel = s.channel
        BY <3>2 DEF Stream
      <3>4. e # None
        BY <3>1, <3>2, SourceSet, StreamAssumption DEF Altered
      <3> QED BY <2>2, <3>1, <3>3, <3>4
    <2> QED BY <2>1, <2>2
  <1>8. \A k \in Browsers \cup Ids : k \in Keys
    BY DEF Keys
  <1>9. \A v \in Browsers : v # id /\ v \notin stops
    BY ClientsAssumption
  <1>10. (streams[id] # None /\ streams[id].channel # ch => id \in stops) => e.channel = ch
    BY <1>2, <1>4, <1>7, <1>8
  <1> QED BY <1>2, <1>4, <1>6, <1>7, <1>8, <1>9, <1>10

LEMMA CardStartedStep ==
    ASSUME IInv, OnlyUp, NEW b \in Browsers, CardStarted(b)
    PROVE  \E out, new : Step({b}, out, new, {})
  <1>1. PICK m : m = Head(inbox[b])
    OBVIOUS
  <1>2. Heads(b, "started") /\ (m.of \in Natives \/ ~m.current)
    BY <1>1 DEF CardStarted
  <1>3. ~Own(m)
    BY <1>2, ClientsAssumption DEF Own
  <1>4. /\ inbox[b] # <<>> /\ inbox[b][1] = m /\ m.type = "started" /\ m.id \in Ids
        /\ m.of \in Clients
        /\ \A id \in Ids : ~Is(m, "stopped", id)
        /\ \A id \in Ids, c \in Browsers : ~OwnHeading({b}, id, c)
        /\ \A id \in Ids, c \in Clients : CardHeading({b}, id, c) <=> id = m.id /\ c = m.of
    <2>1. \A c \in Browsers : c \in Clients
      BY DEF Clients
    <2>2. Announcing(b, m)
      BY <1>1, <1>2, HeadStarted
    <2> QED BY <1>3, <2>1, <2>2 DEF Announcing
  <1>5. TypeOK /\ Up' = Up /\ place' = place
    BY DEF CardStarted, sessions, Up, IInv
  <1>6. PICK ch \in SourceChannels(b, m) :
          IF ch = None
          THEN /\ inbox' = Rest(inbox, b)
               /\ missed' = IF m.of \in Natives THEN Miss({m.id}, "start") ELSE missed
               /\ UNCHANGED <<registry, live, audience, retry>>
          ELSE LET old == streams[m.id]
                   moved == old # None /\ old.channel # ch
                   stops == IF moved THEN {m.id} ELSE {}
                   leaves == IF moved THEN old.viewers \X {m.id} ELSE {} IN
               /\ streams' = [Retired(stops, leaves) EXCEPT
                     ![m.id] = IF @ = None THEN NewStream(m.of, ch) ELSE [@ EXCEPT !.src = m.of]]
               /\ Tell(stops, leaves)
               /\ Send(Cleanups(stops, leaves), Rest(Outdated(stops, leaves), b), retry)
    BY <1>1 DEF CardStarted
  <1>7. CASE ch = None
    <2>1. /\ inbox' = Rest(inbox, b)
          /\ missed' = missed \/ missed' = Miss({m.id}, "start")
          /\ UNCHANGED <<streams, live, retry>>
      BY <1>6, <1>7 DEF registry
    <2>2. Flow({b}, Nobody, Nobody, {}) /\ OutTrue(Nobody, {})
      BY <1>4, <1>5, <2>1, RestFlow
    <2>3. RefsFrom({b}) /\ LinksKept
      BY <2>1, SameRefs DEF RefsFrom, RefsKept
    <2>4. MissedKept
      BY <1>5, <2>1, SameMissed, MoreMissed
    <2> QED BY <1>1, <1>4, <1>5, <2>1, <2>2, <2>3, <2>4, HeardStep
  <1>8. CASE ch # None
    <2>1. PICK stops \in SUBSET {m.id} : \E leaves :
            /\ streams' = Carded(stops, leaves, m.id, m.of, ch)
            /\ Send(Cleanups(stops, leaves), Rest(Outdated(stops, leaves), b), retry)
      BY <1>6, <1>8 DEF Carded
    <2>2. PICK leaves :
            /\ streams' = Carded(stops, leaves, m.id, m.of, ch)
            /\ Send(Cleanups(stops, leaves), Rest(Outdated(stops, leaves), b), retry)
      BY <2>1
    <2>3. ch \in Channels
      BY <1>4, <1>5, <1>8, SourceChannelsShape
    <2>4. /\ streams'[m.id] # None /\ streams'[m.id].src = m.of
          /\ \A v \in Browsers : streams'[v] # None <=> streams[v] # None
          /\ \A v \in Browsers : streams'[v] # None => streams'[v].link = streams[v].link
          /\ \A i \in Ids \ {m.id} : /\ streams'[i] # None <=> streams[i] # None
                                     /\ streams'[i] # None => streams'[i].src = streams[i].src
      <3>1. m.id \in Ids /\ m.of \in Clients /\ stops \subseteq {m.id} /\ stops \in SUBSET Ids
        BY <1>4, <2>1
      <3> QED BY <1>5, <2>2, <2>3, <3>1, CardShape
    <2>5. \A v \in Browsers, id \in Ids : Linked(v, id)' <=> Linked(v, id)
      BY <2>4 DEF Linked
    <2>6. RefsFrom({b})
      BY <1>4, <2>4, <2>5 DEF RefsFrom, Card
    <2>7. PICK out : out = Late(stops, leaves)
      OBVIOUS
    <2>8. Made(Rest(Outdated(stops, leaves), b), {b}, out) /\ OutTrue(out, {})
      BY <1>4, <1>5, <2>7, MadeLate, MadeRest, LateTrue
    <2>9. PICK cmds \in SUBSET Cleanup : cmds = Cleanups(stops, leaves)
      BY CleanupsShape
    <2>10. PICK done, ended : /\ Sent(cmds, retry, done, ended)
                              /\ Flow({b}, out, ToUp(Stops(ended)), {})
      BY <1>5, <2>2, <2>8, <2>9, SendParts
    <2>11. \A c \in cmds : c.by \in Up
      BY <2>9 DEF Cleanups
    <2>12. \A v \in Browsers, id \in Ids : Waits(v, id) => Commanded(retry, v, id)
      BY LateWaits
    <2>13. \A v \in {b} : inbox[v] # <<>> /\ inbox[v][1].type # "stopped"
      BY <1>4
    <2> QED BY <1>4, <1>5, <2>5, <2>6, <2>8, <2>10, <2>11, <2>12, <2>13, SendStep
  <1> QED BY <1>7, <1>8

-----------------------------------------------------------------------------
(* Streams that are given out, and streams that end. *)

LEMMA GiveStep ==
    ASSUME IInv, OnlyUp, NEW id \in Ids, NEW c \in Up \cup Natives, Fresh(id),
           live' = [live EXCEPT ![id] = c], missed' = [missed EXCEPT ![id] = {}],
           inbox' = ToAll(inbox, <<Msg("started", id, c)>>),
           Up' = Up, place' = place, retry' = retry, RefsKept, LinksKept
    PROVE  \E new : Step({}, Nobody, new, {})
  <1>1. c \in Clients /\ TypeOK /\ c # None
    BY NoneAssumption DEF Up, Clients, IInv
  <1>2. PICK m \in Message : m = Msg("started", id, c)
    BY <1>1, MsgMessage
  <1>3. PICK more : more = <<m>>
    OBVIOUS
  <1>4. more \in Seq(Message) /\ ToSet(more) = {m}
    BY <1>3 DEF ToSet
  <1>5. PICK new : new = ToUp({m})
    OBVIOUS
  <1>6. Flow({}, Nobody, new, {})
    BY <1>1, <1>2, <1>3, <1>4, <1>5, MadeNow, ToAllFlow
  <1>7. \A i \in Ids : live'[i] = IF i = id THEN c ELSE live[i]
    BY <1>1 DEF TypeOK
  <1>8. \A v \in Browsers : new[v] = IF v \in Up THEN {m} ELSE {}
    BY <1>5 DEF ToUp
  <1>9. m.type = "started" /\ m.id = id /\ m.of = c /\ m.current
    BY <1>2 DEF Msg
  <1>10. /\ live[id] = None /\ \A v \in Browsers : ~Linked(v, id)
         /\ \A d \in retry : d.id # id
    BY <1>1, FreshShape
  <1>11. Actors({}, {}) /\ OutTrue(Nobody, {})
    BY NobodyShape DEF Actors, OutTrue, OnlyUp
  <1>12. NewTrue(new)
    BY <1>7, <1>8, <1>9 DEF NewTrue
  <1>13. LiveTrue(new, {})
    <2>1. c \in Browsers => c \in Up
      BY ClientsAssumption
    <2>2. \A v \in Up : Msg("started", id, c) \in new[v]
      BY <1>2, <1>8 DEF Up
    <2> QED BY <1>7, <2>1, <2>2 DEF LiveTrue
  <1>14. \A i \in Ids : i # id => missed'[i] = missed[i]
    BY <1>1 DEF TypeOK
  <1>15. RefsFrom({}) /\ EndsTrue({}, {})
    BY <1>14 DEF RefsFrom, RefsKept, EndsTrue
  <1>16. HeldFrom({}, new)
    <2> SUFFICES ASSUME NEW b \in Browsers, NEW i \in Ids, live'[i] = b
                 PROVE  /\ live[i] = b \/ Msg("started", i, b) \in new[b]
                        /\ "abandoned" \in missed[i] /\ live[i] = b => "abandoned" \in missed'[i]
                        /\ Linked(b, i) => Linked(b, i)'
                        /\ Waits(b, i) => Waits(b, i)'
      BY DEF HeldFrom
    <2>1. Waits(b, i) => Waits(b, i)'
      BY DEF Waits
    <2>2. CASE i = id
      <3>1. b = c /\ b \in Up
        BY <1>7, <2>2, ClientsAssumption
      <3>2. Msg("started", i, b) \in new[b]
        BY <1>2, <1>8, <2>2, <3>1
      <3>3. live[i] # b
        BY <1>10, <2>2, NoneAssumption
      <3> QED BY <1>10, <2>1, <2>2, <3>2, <3>3
    <2>3. CASE i # id
      <3>1. live[i] = b /\ missed'[i] = missed[i]
        BY <1>7, <1>14, <2>3
      <3> QED BY <2>1, <3>1 DEF LinksKept
    <2> QED BY <2>2, <2>3
  <1> QED BY <1>6, <1>11, <1>12, <1>13, <1>15, <1>16 DEF Step, MoveTold

LEMMA NewShareRefs ==
    ASSUME TypeOK, NEW b \in Browsers, streams[b] = None, NEW ch,
           streams' = [streams EXCEPT ![b] = NewStream(b, ch)]
    PROVE  RefsKept /\ LinksKept
  <1>1. PICK r : r = NewStream(b, ch)
    OBVIOUS
  <1>2. r.link = None
    BY <1>1 DEF NewStream
  <1>3. \A k \in Keys : streams'[k] = IF k = b THEN r ELSE streams[k]
    BY <1>1 DEF TypeOK
  <1>4. \A k \in Browsers \cup Ids : k \in Keys
    BY DEF Keys
  <1>5. \A id \in Ids : id # None /\ id # b
    BY NoneAssumption, ClientsAssumption
  <1> QED BY <1>2, <1>3, <1>4, <1>5 DEF RefsKept, LinksKept, Linked, Card

LEMMA StartStep ==
    ASSUME IInv, OnlyUp, NEW b \in Browsers, Start(b)
    PROVE  \E new : Step({}, Nobody, new, {})
  <1>1. /\ TypeOK /\ b \in Up /\ streams[b] = None
        /\ streams' = [streams EXCEPT ![b] = NewStream(b, channel[b])]
        /\ UNCHANGED <<session, retry, place>>
    BY DEF Start, sessions, IInv
  <1>2. RefsKept /\ LinksKept
    BY <1>1, NewShareRefs
  <1>3. Up' = Up
    BY <1>1 DEF Up
  <1>4. CASE \E id \in Ids :
               /\ Fresh(id) /\ live' = [live EXCEPT ![id] = b]
               /\ missed' = [missed EXCEPT ![id] = {}]
               /\ inbox' = ToAll(inbox, <<Msg("started", id, b)>>)
    BY <1>1, <1>2, <1>3, <1>4, GiveStep
  <1>5. CASE UNCHANGED <<live, missed, inbox>>
    BY <1>1, <1>2, <1>3, <1>5, NobodyFlow, SameMissed, MoreWaits, CalmStep
  <1> QED BY <1>4, <1>5 DEF Start

LEMMA PublishStep ==
    ASSUME IInv, OnlyUp, NEW n \in Natives, NEW id \in Ids, Publish(n, id)
    PROVE  \E new : Step({}, Nobody, new, {})
  <1>1. /\ Fresh(id) /\ live' = [live EXCEPT ![id] = n] /\ missed' = [missed EXCEPT ![id] = {}]
        /\ inbox' = ToAll(inbox, <<Msg("started", id, n)>>)
        /\ UNCHANGED <<session, streams, retry, place>>
    BY DEF Publish, sessions, registry
  <1>2. Up' = Up
    BY <1>1 DEF Up
  <1> QED BY <1>1, <1>2, SameRefs, GiveStep

\* Streams end and everybody connected is told.
LEMMA EndsStep ==
    ASSUME IInv, OnlyUp, NEW ids \in SUBSET Ids, \A id \in ids : live[id] # None,
           live' = [id \in Ids |-> IF id \in ids THEN None ELSE live[id]],
           NEW new, Flow({}, Nobody, new, {}), NewTrue(new), MoveTold(new),
           \A id \in ids : \A v \in Up : Msg("stopped", id, None) \in new[v],
           Up = {} => \A id \in ids : "end" \in missed'[id],
           MissedKept, streams' = streams, retry' = retry, Up' = Up
    PROVE  Step({}, Nobody, new, {})
  <1>1. Actors({}, {}) /\ OutTrue(Nobody, {})
    BY NobodyShape DEF Actors, OutTrue, OnlyUp
  <1>2. LiveTrue(new, {})
    BY DEF LiveTrue, Ended
  <1>3. RefsFrom({}) /\ EndsTrue({}, {})
    BY SameRefs DEF RefsFrom, RefsKept, EndsTrue, MissedKept
  <1>4. HeldFrom({}, new)
    <2> SUFFICES ASSUME NEW b \in Browsers, NEW id \in Ids, live'[id] = b
                 PROVE  /\ live[id] = b
                        /\ "abandoned" \in missed[id] => "abandoned" \in missed'[id]
                        /\ Linked(b, id) => Linked(b, id)'
                        /\ Waits(b, id) => Waits(b, id)'
      BY DEF HeldFrom
    <2>1. live[id] = b
      BY NoneAssumption
    <2> QED BY <2>1 DEF MissedKept, Linked, Waits
  <1> QED BY <1>1, <1>2, <1>3, <1>4 DEF Step

LEMMA EndStreamStep ==
    ASSUME IInv, OnlyUp, NEW id \in Ids, EndStream(id)
    PROVE  \E new : Step({}, Nobody, new, {})
  <1>1. /\ TypeOK /\ live[id] # None
        /\ live' = [live EXCEPT ![id] = None]
        /\ inbox' = ToAll(inbox, <<Msg("stopped", id, None)>>)
        /\ missed' = IF Up = {} THEN Miss({id}, "end") ELSE missed
        /\ UNCHANGED <<session, streams, retry, place>>
    BY DEF EndStream, sessions, registry, IInv
  <1>2. Up' = Up
    BY <1>1 DEF Up
  <1>3. live' = [i \in Ids |-> IF i \in {id} THEN None ELSE live[i]]
    BY <1>1 DEF TypeOK
  <1>4. PICK new : new = ToUp(Stops({id}))
    OBVIOUS
  <1>5. Flow({}, Nobody, new, {})
    BY <1>1, <1>4, ToAllStops
  <1>6. NewTrue(new) /\ \A i \in {id} : \A v \in Up : Msg("stopped", i, None) \in new[v]
    <2>1. \A i \in {id} : live'[i] = None
      BY <1>3
    <2> QED BY <1>4, <2>1, StopsTrue
  <1>7. MissedKept /\ (Up = {} => "end" \in missed'[id])
    <2>1. CASE Up = {}
      <3>1. missed' = Miss({id}, "end")
        BY <1>1, <2>1
      <3> QED BY <1>1, <3>1, MoreMissed, MissAdds
    <2>2. CASE Up # {}
      BY <1>1, <2>2, SameMissed
    <2> QED BY <2>1, <2>2
  <1>8. {id} \in SUBSET Ids /\ \A i \in {id} : live[i] # None
    BY <1>1
  <1>9. Up = {} => \A i \in {id} : "end" \in missed'[i]
    BY <1>7
  <1>10. MoveTold(new)
    BY <1>1 DEF MoveTold
  <1> QED BY <1>1, <1>2, <1>3, <1>5, <1>6, <1>7, <1>8, <1>9, <1>10, EndsStep

\* Everybody connected is told of a move, and of the streams that end with it.
LEMMA NativeMoveFlow ==
    ASSUME TypeOK, NEW n \in Natives, NEW ch \in Channels \cup {None}, NativeMove(n, ch),
           NEW own, own = {id \in Ids : live[id] = n},
           NEW ids, ids = IF ch = None THEN own ELSE {},
           NEW m \in Message, m = Msg("at", ch, n)
    PROVE  Flow({}, Nobody, ToUp(Stops(ids) \cup {m}), {})
  <1>1. ids \in SUBSET Ids
    OBVIOUS
  <1>2. \E more \in Seq(Message) : /\ inbox' = ToAll(inbox, more)
                                   /\ ToSet(more) = Stops(ids) \cup {m}
    <2>1. CASE ch # None
      <3>1. inbox' = ToAll(inbox, <<m>>)
        BY <2>1 DEF NativeMove
      <3>2. <<m>> \in Seq(Message) /\ ToSet(<<m>>) = {m}
        BY DEF ToSet
      <3>3. Stops(ids) = {}
        BY <2>1 DEF Stops
      <3> QED BY <3>1, <3>2, <3>3
    <2>2. CASE ch = None
      <3>1. PICK inb \in Ends(inbox, ids) : inbox' = ToAll(inb, <<m>>)
        BY <2>2 DEF NativeMove
      <3>2. PICK order \in SetToSeqs(ids) : inb = ToAll(inbox, Notices("stopped", order, None))
        BY <3>1 DEF Ends
      <3>3. PICK stops \in Seq(Message) : stops = Notices("stopped", order, None)
        BY <1>1, NoticesShape
      <3>4. ToSet(stops) = Stops(ids)
        BY <1>1, <3>3, NoticesAll DEF Stops
      <3>5. PICK more : more = stops \o <<m>>
        OBVIOUS
      <3>6. more \in Seq(Message)
        BY <3>5
      <3>7. \A q \in Seq(Message) : (q \o stops) \o <<m>> = q \o more
        BY <3>5
      <3>8. inbox' = ToAll(inbox, more)
        BY <3>1, <3>2, <3>3, <3>7, InboxShape DEF ToAll
      <3>9. ToSet(more) = ToSet(stops) \cup {m}
        <4>1. /\ Len(more) = Len(stops) + 1 /\ Len(stops) \in Nat
              /\ \A k \in 1..Len(stops) : more[k] = stops[k]
              /\ more[Len(stops) + 1] = m
          BY <3>5
        <4>2. DOMAIN more = 1..Len(more) /\ DOMAIN stops = 1..Len(stops)
          BY <3>6
        <4> QED BY <4>1, <4>2 DEF ToSet
      <3> QED BY <3>4, <3>6, <3>8, <3>9
    <2> QED BY <2>1, <2>2
  <1>3. PICK more \in Seq(Message) : /\ inbox' = ToAll(inbox, more)
                                     /\ ToSet(more) = Stops(ids) \cup {m}
    BY <1>2
  <1> QED BY <1>3, MadeNow, ToAllFlow

LEMMA NativeMoveStep ==
    ASSUME IInv, OnlyUp, NEW n \in Natives, NEW ch \in Channels \cup {None}, NativeMove(n, ch)
    PROVE  \E new : Step({}, Nobody, new, {})
  <1>1. PICK own : own = {id \in Ids : live[id] = n}
    OBVIOUS
  <1>2. PICK ids \in SUBSET own : ids = IF ch = None THEN own ELSE {}
    OBVIOUS
  <1>3. /\ TypeOK /\ UNCHANGED <<session, streams, retry>>
        /\ \A id \in Ids : missed[id] \subseteq missed'[id]
        /\ Up = {} => \A id \in own : "end" \in missed'[id]
    BY <1>1 DEF NativeMove, sessions, registry, IInv
  <1>4. live' = [id \in Ids |-> IF id \in ids THEN None ELSE live[id]]
    <2>1. live' = [id \in Ids |-> IF id \in own /\ ch = None THEN None ELSE live[id]]
      BY <1>1 DEF NativeMove
    <2> QED BY <1>2, <2>1
  <1>5. PICK m \in Message : m = Msg("at", ch, n)
    BY AtMessage
  <1>6. ids \in SUBSET Ids /\ \A id \in ids : live[id] = n /\ live'[id] = None
    BY <1>1, <1>2, <1>4
  <1>9. PICK new : new = ToUp(Stops(ids) \cup {m})
    OBVIOUS
  <1>10. Flow({}, Nobody, new, {})
    BY <1>1, <1>2, <1>3, <1>5, <1>9, NativeMoveFlow
  <1>11. \A v \in Browsers : new[v] = IF v \in Up THEN Stops(ids) \cup {m} ELSE {}
    BY <1>9 DEF ToUp
  <1>15. place' = [place EXCEPT ![n] = ch] /\ place'[n] = ch
         /\ \A id \in Ids : live'[id] = n => "start" \in missed'[id]
    <2>1. place' = [place EXCEPT ![n] = ch] /\ place'[n] = ch
      BY <1>3 DEF NativeMove, TypeOK
    <2>2. \A id \in own : "start" \in missed'[id]
      BY <1>1 DEF NativeMove
    <2>3. \A id \in Ids : live'[id] = n => id \in own
      BY <1>1, <1>4, NoneAssumption
    <2> QED BY <2>1, <2>2, <2>3
  <1>16. MoveTold(new)
    <2>1. \A i \in Natives : i # n => place'[i] = place[i]
      BY <1>3, <1>15 DEF TypeOK
    <2>2. \A v \in Up : Msg("at", place'[n], n) \in new[v]
      BY <1>5, <1>11, <1>15 DEF Up
    <2> QED BY <2>1, <2>2 DEF MoveTold
  <1>12. /\ NewTrue(new)
         /\ \A id \in ids : \A v \in Up : Msg("stopped", id, None) \in new[v]
    <2>1. \A v \in Up : v \in Browsers
      BY DEF Up
    <2>2. ASSUME NEW v \in Browsers, NEW x \in new[v]
          PROVE  /\ v \in Up
                 /\ x.type # "started"
                 /\ x.type = "stopped" => live'[x.id] = None
                 /\ x.type = "at" => /\ place'[x.of] = x.id
                                     /\ \A id \in Ids : live'[id] = x.of => "start" \in missed'[id]
      <3>1. v \in Up /\ x \in Stops(ids) \cup {m}
        BY <1>11, <2>2
      <3>2. CASE x = m
        BY <1>5, <1>15, <3>1, <3>2 DEF Msg
      <3>3. CASE x \in Stops(ids)
        BY <1>6, <3>1, <3>3 DEF Stops, Msg
      <3> QED BY <3>1, <3>2, <3>3
    <2>3. \A id \in ids : Msg("stopped", id, None) \in Stops(ids)
      BY DEF Stops
    <2> QED BY <1>11, <2>1, <2>2, <2>3 DEF NewTrue
  <1>13. MissedKept /\ Up' = Up
    BY <1>3 DEF MissedKept, Up
  <1>14. /\ \A id \in ids : live[id] # None
         /\ Up = {} => \A id \in ids : "end" \in missed'[id]
    BY <1>2, <1>3, <1>6, NoneAssumption
  <1> QED BY <1>3, <1>4, <1>6, <1>10, <1>12, <1>13, <1>14, <1>16, EndsStep

-----------------------------------------------------------------------------
(* A session is lost. *)

\* What goes out of date with it.
Lost(b, stops, leaves) ==
    [v \in Browsers |->
        Late(stops, leaves)[v] \cup {m \in Message : m.type = "started" /\ m.of = b}]

Former(b, stops, leaves) ==
    [v \in Browsers |-> Outdate(Outdated(stops, leaves)[v],
                                LAMBDA m : m.type = "started" /\ m.of = b)]

LEMMA MadeFormer ==
    ASSUME TypeOK, NEW b \in Browsers, NEW stops, NEW leaves
    PROVE  Made(Former(b, stops, leaves), {}, Lost(b, stops, leaves))
  <1>1. PICK inb \in Inboxes : inb = Outdated(stops, leaves)
    BY OutdatedShape
  <1>2. PICK after : after = Former(b, stops, leaves)
    OBVIOUS
  <1>3. after = [v \in Browsers |-> Outdate(inb[v], LAMBDA m : m.type = "started" /\ m.of = b)]
    BY <1>1, <1>2 DEF Former
  <1>4. \A v \in Browsers :
           after[v] = [n \in DOMAIN inb[v] |-> IF inb[v][n].type = "started" /\ inb[v][n].of = b
                                               THEN Old(inb[v][n]) ELSE inb[v][n]]
    BY <1>3 DEF Outdate, Old
  <1>5. after \in Inboxes
    <2>1. after = [v \in Browsers |-> after[v]]
      BY <1>3
    <2>2. \A v \in Browsers : after[v] = [n \in DOMAIN inb[v] |-> after[v][n]]
      BY <1>4
    <2>3. ASSUME NEW v \in Browsers, NEW n \in DOMAIN inb[v]
          PROVE  after[v][n] \in {inb[v][n], [inb[v][n] EXCEPT !.current = FALSE]}
      BY <1>4 DEF Old
    <2> QED BY <2>1, <2>2, <2>3, OutdateShape
  <1>6. ASSUME NEW v \in Browsers
        PROVE  Passed(inbox[v], after[v], 0, Lost(b, stops, leaves)[v], {})
    <2>1. PICK q \in Seq(Message) : q = inbox[v]
      BY InboxShape
    <2>2. PICK r \in Seq(Message) : r = inb[v]
      BY DEF Inboxes
    <2>3. PICK s \in Seq(Message) : s = after[v]
      BY <1>5 DEF Inboxes
    <2>4. PICK early : early = Late(stops, leaves)[v]
      OBVIOUS
    <2>5. PICK out : out = Lost(b, stops, leaves)[v]
      OBVIOUS
    <2>6. Passed(q, r, 0, early, {})
      BY <1>1, <2>1, <2>2, <2>4, MadeLate DEF Made
    <2>7. /\ Len(q) \in Nat /\ Len(r) \in Nat /\ Len(q) <= Len(r)
          /\ \A k \in 1..Len(r) : ~(k > Len(q))
          /\ \A k \in 1..Len(q) : r[k] = IF q[k] \in early THEN Old(q[k]) ELSE q[k]
      BY <2>6 DEF Passed
    <2>8. Len(r) = Len(q)
      BY <2>7
    <2>9. s = [n \in DOMAIN r |-> IF r[n].type = "started" /\ r[n].of = b THEN Old(r[n]) ELSE r[n]]
      BY <1>4, <2>2, <2>3
    <2>10. Len(s) = Len(q) /\ DOMAIN r = 1..Len(q)
      BY <2>8, <2>9
    <2>11. ASSUME NEW k \in 1..Len(q)
           PROVE  s[k] = IF q[k] \in out THEN Old(q[k]) ELSE q[k]
      <3>1. q[k] \in Message /\ r[k] = IF q[k] \in early THEN Old(q[k]) ELSE q[k]
        BY <2>7
      <3>2. q[k] \in out <=> q[k] \in early \/ (q[k].type = "started" /\ q[k].of = b)
        BY <2>4, <2>5, <3>1 DEF Lost
      <3>3. s[k] = IF r[k].type = "started" /\ r[k].of = b THEN Old(r[k]) ELSE r[k]
        BY <2>9, <2>10
      <3>4. q[k] \in early => q[k].type # "started"
        BY <2>4 DEF Late
      <3>5. r[k].type = q[k].type /\ r[k].of = q[k].of
        BY <3>1, OldShape
      <3>6. CASE q[k] \in early
        BY <3>1, <3>2, <3>3, <3>4, <3>5, <3>6
      <3>7. CASE q[k] \notin early
        BY <3>1, <3>2, <3>3, <3>7
      <3> QED BY <3>6, <3>7
    <2>12. Passed(q, s, 0, out, {})
      BY <2>7, <2>10, <2>11 DEF Passed
    <2> QED BY <2>1, <2>3, <2>5, <2>12
  <1> QED BY <1>2, <1>5, <1>6 DEF Made

\* The queues after it.
LEMMA DetachFlow ==
    ASSUME TypeOK, NEW b \in Browsers, NEW stops, NEW leaves, NEW ended \in SUBSET Ids,
           inbox' \in {[inb EXCEPT ![b] = <<>>] : inb \in Ends(Former(b, stops, leaves), ended)}
    PROVE  Flow({}, Lost(b, stops, leaves), ToUp(Stops(ended)), {b})
  <1>1. PICK inb \in Ends(Former(b, stops, leaves), ended) : inbox' = [inb EXCEPT ![b] = <<>>]
    OBVIOUS
  <1>2. PICK out, new : out = Lost(b, stops, leaves) /\ new = ToUp(Stops(ended))
    OBVIOUS
  <1>3. PICK order \in SetToSeqs(ended) :
          inb = ToAll(Former(b, stops, leaves), Notices("stopped", order, None))
    BY <1>1 DEF Ends
  <1>4. PICK more \in Seq(Message) : more = Notices("stopped", order, None)
    BY NoticesShape
  <1>5. ToSet(more) = Stops(ended)
    BY <1>4, NoticesAll DEF Stops
  <1>6. PICK former : former = Former(b, stops, leaves)
    OBVIOUS
  <1>7. Made(former, {}, out)
    BY <1>2, <1>6, MadeFormer
  <1>8. inb = ToAll(former, more)
    BY <1>3, <1>4, <1>6
  <1>9. ASSUME NEW v \in Browsers, v # b
        PROVE  Passed(inbox[v], inbox'[v], 0, out[v], new[v])
    <2>1. /\ inbox[v] \in Seq(Message) /\ former[v] \in Seq(Message)
          /\ Passed(inbox[v], former[v], 0, out[v], {})
      BY <1>7, InboxShape DEF Made, Inboxes
    <2>2. inbox'[v] = inb[v]
      BY <1>1, <1>8, <1>9 DEF ToAll
    <2>3. CASE v \in Up
      <3>1. inb[v] = former[v] \o more /\ new[v] = ToSet(more)
        BY <1>2, <1>5, <1>8, <2>3 DEF ToAll, ToUp
      <3> QED BY <2>1, <2>2, <3>1, PassedMore
    <2>4. CASE v \notin Up
      <3>1. inb[v] = former[v] /\ new[v] = {}
        BY <1>2, <1>8, <2>4 DEF ToAll, ToUp
      <3> QED BY <2>1, <2>2, <3>1
    <2> QED BY <2>3, <2>4
  <1>10. inbox'[b] = <<>>
    BY <1>1, <1>8 DEF ToAll
  <1>11. Flow({}, out, new, {b})
    BY <1>9, <1>10 DEF Flow
  <1> QED BY <1>2, <1>11

\* What is missed with it.
LEMMA DetachMissed ==
    ASSUME NEW b \in Browsers, NEW to \in {"down", "absent"}, Detach(b, to)
    PROVE  /\ \A id \in Ids : missed[id] \subseteq missed'[id]
           /\ \A id \in Ids : \A m \in ToSet(inbox[b]) :
                 m.type = "stopped" /\ m.id = id => "end" \in missed'[id]
  <1>1. PICK cut, short :
            missed' = [id \in Ids |-> missed[id]
                         \cup {"end" : m \in {x \in cut : x.id = id}
                                 \cup {x \in {y \in ToSet(inbox[b]) : y.type = "at"} :
                                          streams[id] # None /\ streams[id].src = x.of}}
                         \cup {"start" : m \in {x \in short : x.id = id /\ x.of \in Natives}}]
            /\ cut = {m \in ToSet(inbox[b]) : m.type = "stopped"}
      BY DEF Detach
  <1> QED BY <1>1

LEMMA DetachStep ==
    ASSUME IInv, Published, NEW b \in Browsers, NEW to \in {"down", "absent"}, Detach(b, to)
    PROVE  \E out, new : Step({}, out, new, {b})
  <1>1. PICK stops : stops = {k \in Keys : streams[k] # None
                                /\ (k = b \/ \A v \in Browsers \ {b} : session[v] = "absent")}
    OBVIOUS
  <1>2. PICK leaves : leaves = {b} \X Viewed(b)
    OBVIOUS
  <1>3. PICK ended \in SUBSET Ids : ended = {id \in Ids : live[id] = b}
    OBVIOUS
  <1>4. /\ TypeOK /\ OnlyUp /\ OneClaim /\ ChannelIsolation
        /\ streams' = Retired(stops, leaves)
        /\ live' = [id \in Ids |-> IF id \in ended THEN None ELSE live[id]]
        /\ retry' = {c \in retry : c.by # b}
        /\ session' = [session EXCEPT ![b] = to]
        /\ place' = place
    BY <1>1, <1>2, <1>3 DEF Detach, Retire, IInv, Agreement, Published
  <1>6. /\ \A id \in Ids : missed[id] \subseteq missed'[id]
        /\ \A id \in Ids : \A m \in ToSet(inbox[b]) :
              m.type = "stopped" /\ m.id = id => "end" \in missed'[id]
    BY DetachMissed
  <1>7. Up' = Up \ {b}
    BY <1>4 DEF Up, TypeOK
  <1>8. PICK out, new : out = Lost(b, stops, leaves) /\ new = ToUp(Stops(ended))
    OBVIOUS
  <1>5. inbox' \in {[inb EXCEPT ![b] = <<>>] : inb \in Ends(Former(b, stops, leaves), ended)}
    BY <1>1, <1>2, <1>3 DEF Detach, Former
  <1>9. Flow({}, out, new, {b})
    BY <1>4, <1>5, <1>8, DetachFlow
  <1>10. /\ \A id \in ended : live[id] = b /\ live'[id] = None
         /\ \A id \in Ids : id \notin ended => live'[id] = live[id] /\ live[id] # b
    BY <1>3, <1>4
  <1>11. /\ RefsKept
         /\ \A v \in Browsers, id \in Ids : Linked(v, id) => Linked(v, id)' \/ v \in stops
         /\ \A v \in Browsers, id \in Ids : Linked(v, id)' => v \notin stops
         /\ \A id \in Ids, c \in Clients : Card(id, c) => Card(id, c)' \/ id \in stops
    BY <1>4, RetiredRefs
  <1>12. streams'[b] = None
    <2>1. b \in Keys
      BY DEF Keys
    <2>2. streams[b] # None => b \in stops
      BY <1>1, <2>1
    <2> QED BY <1>4, <2>1, <2>2, RetiredKeeps
  <1>13. Actors({}, {b})
    <2>1. \A id \in Ids : live'[id] # b
      BY <1>10, NoneAssumption
    <2> QED BY <1>4, <1>7, <1>12, <2>1 DEF Actors, OnlyUp
  <1>14. OutTrue(out, {b})
    <2>2. \A v \in Browsers : \A m \in out[v] : m.type \in {"started", "joinRefused", "removed"}
      BY <1>8 DEF Lost, Late
    <2> SUFFICES ASSUME NEW v \in Browsers, NEW n \in 1..Len(inbox[v]),
                        inbox[v][n].type = "started"
                 PROVE  inbox[v][n] \in out[v] <=> inbox[v][n].of = b
      BY <2>2 DEF OutTrue
    <2>1. PICK m \in Message : m = inbox[v][n]
      BY <1>4, InboxShape
    <2> QED BY <1>8, <2>1 DEF Lost, Late
  <1>15. /\ NewTrue(new)
         /\ \A id \in ended : \A v \in Up : Msg("stopped", id, None) \in new[v]
    BY <1>3, <1>8, <1>10, StopsTrue
  <1>16. ASSUME NEW id \in ended
         PROVE  NoRef(id)'
    <2>1. id \in Ids /\ OwnClaim(id, b)
      BY <1>10 DEF OwnClaim
    <2>2. ASSUME NEW v \in Browsers
          PROVE  ~Linked(v, id)'
      <3>1. Linked(v, id)' => OwnClaim(id, v)
        BY <1>11, <2>1 DEF OwnClaim, RefsKept
      <3>2. OwnClaim(id, v) => v = b
        BY <1>4, <2>1 DEF OneClaim
      <3>3. ~Linked(b, id)'
        BY <1>12 DEF Linked
      <3> QED BY <3>1, <3>2, <3>3
    <2>3. streams'[id] = None
      <3>1. \A c \in Clients : ~Card(id, c)
        BY <1>4, <2>1 DEF OneClaim, CardClaim
      <3>2. streams[id] = None
        <4>1. id \in Keys
          BY <2>1 DEF Keys
        <4>2. streams[id] # None => streams[id].src \in Clients
          BY <1>4, <4>1, EntryShape, StreamShape
        <4> QED BY <3>1, <4>2 DEF Card
      <3> QED BY <1>4, <2>1, <3>2, RetiredKeeps DEF Keys
    <2> QED BY <2>2, <2>3 DEF NoRef
  <1>17. LiveTrue(new, {b})
    <2>1. \A id \in ended : Ended(id)
      BY <1>10, NoneAssumption DEF Ended
    <2>2. \A v \in Up \ {b} : v \in Up
      OBVIOUS
    <2> QED BY <1>10, <1>15, <1>16, <2>1, <2>2 DEF LiveTrue
  <1>18. RefsFrom({})
    BY <1>11 DEF RefsFrom, RefsKept
  <1>19. EndsTrue({}, {b})
    <2>1. ASSUME NEW id \in Ids, Has(inbox[b], "stopped", id)
          PROVE  "end" \in missed'[id]
      <3>1. PICK n \in 1..Len(inbox[b]) : Is(inbox[b][n], "stopped", id)
        BY <2>1 DEF Has
      <3>2. inbox[b][n] \in ToSet(inbox[b])
        BY <1>4, InboxShape DEF ToSet
      <3> QED BY <1>6, <3>1, <3>2 DEF Is
    <2> QED BY <1>6, <2>1 DEF EndsTrue
  <1>20. HeldFrom({}, new)
    <2> SUFFICES ASSUME NEW v \in Browsers, NEW id \in Ids, live'[id] = v
                 PROVE  /\ live[id] = v
                        /\ "abandoned" \in missed[id] => "abandoned" \in missed'[id]
                        /\ Linked(v, id) => Linked(v, id)'
                        /\ Waits(v, id) => Waits(v, id)'
      BY DEF HeldFrom
    <2>1. live[id] = v /\ v # b
      BY <1>10, NoneAssumption
    <2>2. Linked(v, id) => v \notin stops
      <3>1. Linked(v, id) => v \in Up
        BY <1>4 DEF Linked, ChannelIsolation
      <3>2. v \in Up => session[v] # "absent"
        BY DEF Up
      <3> QED BY <1>1, <2>1, <3>1, <3>2
    <2>3. Waits(v, id) => Waits(v, id)'
      BY <1>4, <2>1 DEF Waits
    <2> QED BY <1>6, <1>11, <2>1, <2>2, <2>3
  <1> QED BY <1>4, <1>9, <1>13, <1>14, <1>15, <1>17, <1>18, <1>19, <1>20 DEF Step, MoveTold

-----------------------------------------------------------------------------
(* Publications are accounted for. *)

LEMMA PublishedInit == Init => Published
  <1> SUFFICES ASSUME Init PROVE Published
    OBVIOUS
  <1>1. /\ \A v \in Browsers : inbox[v] = <<>> /\ Len(inbox[v]) = 0
        /\ \A id \in Ids : live[id] = None
        /\ retry = {}
        /\ \A k \in Browsers \cup Ids : streams[k] = None
    BY DEF Init, Keys
  <1>2. \A c \in Clients : c # None
    BY NoneAssumption DEF Clients
  <1>3. \A b \in Browsers : b \in Clients
    BY DEF Clients
  <1>4. OneClaim
    <2>1. \A id \in Ids, c \in Clients : ~OwnClaim(id, c) \/ c \notin Browsers
      BY <1>1, <1>2 DEF OwnClaim, Linked
    <2>2. \A id \in Ids, c \in Clients : ~CardClaim(id, c)
      BY <1>1, <1>2 DEF CardClaim, Card
    <2> QED BY <1>3, <2>1, <2>2 DEF OneClaim
  <1>5. OnlyUp /\ StoppedTrue /\ StartedTrue
    BY <1>1, <1>2, <1>3 DEF OnlyUp, StoppedTrue, StartedTrue, Has
  <1>6. RefTrue /\ Held
    BY <1>1, <1>2, <1>3 DEF RefTrue, Held, Linked, Card
  <1> QED BY <1>4, <1>5, <1>6 DEF Published

LEMMA PublishedNext ==
    ASSUME IInv, IInv', Published, [Next]_vars
    PROVE  Published'
  <1>1. OnlyUp
    BY DEF Published
  <1>2. ASSUME NEW b \in Browsers,
               \/ Arrive(b) \/ Connect(b) \/ Detach(b, "down") \/ Detach(b, "absent")
               \/ Start(b) \/ Stop(b)
        PROVE  Published'
    <2>1. CASE Arrive(b) \/ Connect(b)
      BY <1>1, <2>1, ArriveStep, ConnectStep, PublishedStep
    <2>2. CASE Detach(b, "down") \/ Detach(b, "absent")
      BY <2>2, DetachStep, PublishedStep
    <2>3. CASE Start(b) \/ Stop(b)
      BY <1>1, <2>3, StartStep, StopStep, PublishedStep
    <2> QED BY <1>2, <2>1, <2>2, <2>3
  <1>3. ASSUME NEW b \in Browsers, Handle(b)
        PROVE  Published'
    <2>1. CASE OwnStarted(b) \/ CardStarted(b)
      BY <1>1, <2>1, OwnStartedStep, CardStartedStep, PublishedStep
    <2>2. CASE StoppedNotice(b) \/ AtNotice(b)
      BY <1>1, <2>2, StoppedNoticeStep, AtNoticeStep, PublishedStep
    <2>3. CASE JoinAskedNotice(b) \/ ClientLeftNotice(b) \/ JoinRefusedAnswer(b) \/ RemovedAnswer(b)
      BY <1>1, <2>3, AudienceNoticeStep, ClientLeftStep, JoinRefusedStep, PublishedStep
    <2> QED BY <1>3, <2>1, <2>2, <2>3 DEF Handle
  <1>4. ASSUME NEW b \in Browsers,
               \/ \E ch \in Channels : BrowserMove(b, ch)
               \/ \E k \in Keys : Join(b, k) \/ Leave(b, k)
               \/ \E n \in Natives : Evict(b, n)
        PROVE  Published'
    <2>1. CASE \E ch \in Channels : BrowserMove(b, ch)
      BY <1>1, <2>1, BrowserMoveStep, PublishedStep
    <2>2. CASE \E k \in Keys : Join(b, k) \/ Leave(b, k)
      BY <1>1, <2>2, JoinStep, LeaveStep, PublishedStep
    <2>3. CASE \E n \in Natives : Evict(b, n)
      BY <1>1, <2>3, EvictStep, PublishedStep
    <2> QED BY <1>4, <2>1, <2>2, <2>3
  <1>5. ASSUME NEW n \in Natives,
               \/ \E id \in Ids : Publish(n, id) \/ Watch(n, id) \/ Unwatch(n, id)
               \/ \E ch \in Channels \cup {None} : NativeMove(n, ch)
        PROVE  Published'
    BY <1>1, <1>5, PublishStep, WatchStep, UnwatchStep, NativeMoveStep, PublishedStep
  <1>6. ASSUME \/ \E c \in retry : Resend(c)
               \/ \E id \in Ids : EndStream(id)
               \/ ScanBreak \/ \E c \in Clients : ScanAsk(c)
        PROVE  Published'
    BY <1>1, <1>6, ResendStep, EndStreamStep, ScanBreakStep, ScanAskStep, PublishedStep
  <1>7. CASE UNCHANGED vars
    <2>1. UNCHANGED <<session, streams, inbox, retry, place, live, missed>> /\ TypeOK
      BY <1>7 DEF vars, IInv
    <2>2. Up' = Up
      BY <2>1 DEF Up
    <2>3. Step({}, Nobody, Nobody, {})
      BY <1>1, <2>1, <2>2, NobodyFlow, SameRefs, SameMissed, MoreWaits, CalmStep
    <2> QED BY <2>3, PublishedStep
  <1> QED BY <1>2, <1>3, <1>4, <1>5, <1>6, <1>7 DEF Next

LEMMA AccountedFor ==
    ASSUME IInv, Published
    PROVE  PublicationsAccounted
  <1> SUFFICES ASSUME Quiet, NEW id \in Ids, NEW b \in Browsers
               PROVE  /\ live[id] = b /\ "abandoned" \notin missed[id] => Linked(b, id)
                      /\ Linked(b, id) /\ "end" \notin missed[id] => live[id] = b
    BY DEF PublicationsAccounted, Linked
  <1>1. retry = {} /\ \A v \in Browsers : inbox[v] = <<>> /\ Len(inbox[v]) = 0
    BY DEF Quiet
  <1>2. ~Waits(b, id) /\ ~Announced(b, id) /\ ~Ending(id)
    BY <1>1 DEF Waits, Announced, Ending, Has
  <1>3. b \in Clients
    BY DEF Clients
  <1> QED BY <1>2, <1>3 DEF Published, Held, RefTrue

LEMMA PublishedAlways == Spec => []Published
  BY Invariance, PublishedInit, PublishedNext, PTL DEF Spec

(* Once everything is handled, the publications of the gateway on TeamSpeak are
   exactly those linked to a share, in any order of starts, stops, losses of a
   session, refused commands and late notices: at any time a publication is
   linked, about to be announced to its owner, or its stop is to be sent again
   (notifystreamstarted, stopScreenStream, sendProtocolCommand). Left out are a
   publication whose stop was given up, and a link whose end was lost with its
   session. *)
THEOREM PublicationsSettle == Spec => []PublicationsAccounted
  BY Invariance, PublishedAlways, AccountedFor, PTL

-----------------------------------------------------------------------------
(* Where the native users are, as the sessions know it or are about to. *)

AtOf(m, n) == m.type = "at" /\ m.of = n

\* p is where n is, for who knows d and has q to handle.
Settles(q, n, p, d) ==
    \/ d = p /\ \A k \in 1..Len(q) : AtOf(q[k], n) => q[k].id = p
    \/ \E k \in 1..Len(q) :
          /\ AtOf(q[k], n)
          /\ \A j \in 1..Len(q) : j >= k /\ AtOf(q[j], n) => q[j].id = p

\* Who knows d and has q to handle will retire the cards of n in channel ch.
DoomedBy(q, d, n, ch) ==
    \E k \in 1..Len(q) :
       /\ AtOf(q[k], n) /\ q[k].id # ch
       /\ d # None \/ \E j \in 1..Len(q) : j < k /\ AtOf(q[j], n) /\ q[j].id # None

\* What is known of n after s messages of q.
Learnt(q, s, n, d) == IF s = 1 /\ AtOf(q[1], n) THEN q[1].id ELSE d

LEMMA SettlesPassed ==
    ASSUME NEW q \in Seq(Message), NEW r \in Seq(Message), NEW s \in {0, 1},
           NEW out, NEW new, Passed(q, r, s, out, new),
           NEW n, NEW p, NEW d, Settles(q, n, p, d), \A m \in new : AtOf(m, n) => m.id = p
    PROVE  Settles(r, n, p, Learnt(q, s, n, d))
  <1>1. s <= Len(q) /\ Len(q) \in Nat /\ Len(r) \in Nat
    BY DEF Passed
  <1>2. \A k \in 1..Len(r) : k <= Len(q) - s =>
           k + s \in 1..Len(q) /\ r[k].id = q[k + s].id /\ (AtOf(r[k], n) <=> AtOf(q[k + s], n))
    BY PassedShape DEF AtOf
  <1>3. \A k \in 1..Len(r) : k > Len(q) - s => (AtOf(r[k], n) => r[k].id = p)
    BY PassedShape
  <1>4. CASE d = p /\ \A k \in 1..Len(q) : AtOf(q[k], n) => q[k].id = p
    <2>1. Learnt(q, s, n, d) = p
      BY <1>1, <1>4 DEF Learnt
    <2>2. \A k \in 1..Len(r) : AtOf(r[k], n) => r[k].id = p
      BY <1>1, <1>2, <1>3, <1>4
    <2> QED BY <2>1, <2>2 DEF Settles
  <1>5. ASSUME NEW k \in 1..Len(q), AtOf(q[k], n),
               \A j \in 1..Len(q) : j >= k /\ AtOf(q[j], n) => q[j].id = p
        PROVE  Settles(r, n, p, Learnt(q, s, n, d))
    <2>1. \A i \in 1..Len(r) : i + s >= k /\ AtOf(r[i], n) => r[i].id = p
      BY <1>1, <1>2, <1>3, <1>5
    <2>2. CASE k > s
      <3>1. PICK i \in 1..Len(r) : i + s = k /\ r[i].type = q[k].type /\ r[i].of = q[k].of
        BY <2>2, PassedAt
      <3>2. AtOf(r[i], n)
        BY <1>5, <3>1 DEF AtOf
      <3>3. \A j \in 1..Len(r) : j >= i /\ AtOf(r[j], n) => r[j].id = p
        BY <2>1, <3>1
      <3> QED BY <3>2, <3>3 DEF Settles
    <2>3. CASE k <= s
      <3>1. s = 1 /\ k = 1
        BY <2>3
      <3>2. Learnt(q, s, n, d) = p
        BY <1>5, <3>1 DEF Learnt
      <3>3. \A j \in 1..Len(r) : AtOf(r[j], n) => r[j].id = p
        BY <2>1, <3>1
      <3> QED BY <3>2, <3>3 DEF Settles
    <2> QED BY <1>1, <2>2, <2>3
  <1> QED BY <1>4, <1>5 DEF Settles

\* The last to be told settles it.
LEMMA SettlesNew ==
    ASSUME NEW q \in Seq(Message), NEW r \in Seq(Message), NEW s \in {0, 1},
           NEW out, NEW new, Passed(q, r, s, out, new),
           NEW n, NEW p, NEW m \in new, AtOf(m, n), \A x \in new : AtOf(x, n) => x.id = p
    PROVE  \A d : Settles(r, n, p, d)
  <1>1. PICK k \in 1..Len(r) : k > Len(q) - s /\ r[k] = m
    BY PassedShape
  <1>2. ASSUME NEW j \in 1..Len(r), j >= k, AtOf(r[j], n)
        PROVE  r[j].id = p
    <2>1. j > Len(q) - s
      BY <1>1, <1>2
    <2> QED BY <1>2, <2>1, PassedShape
  <1> QED BY <1>1, <1>2 DEF Settles

LEMMA DoomedPassed ==
    ASSUME NEW q \in Seq(Message), NEW r \in Seq(Message), NEW s \in {0, 1},
           NEW out, NEW new, Passed(q, r, s, out, new),
           NEW n, NEW d, NEW ch, ch # None, DoomedBy(q, d, n, ch),
           s = 1 /\ AtOf(q[1], n) /\ d # None => q[1].id = ch
    PROVE  DoomedBy(r, Learnt(q, s, n, d), n, ch)
  <1>1. s <= Len(q) /\ Len(q) \in Nat /\ Len(r) \in Nat
    BY DEF Passed
  <1>2. ASSUME NEW k \in 1..Len(q), k > s, AtOf(q[k], n)
        PROVE  \E i \in 1..Len(r) : i + s = k /\ AtOf(r[i], n) /\ r[i].id = q[k].id
    BY <1>2, PassedAt DEF AtOf
  <1>3. PICK k \in 1..Len(q) :
          /\ AtOf(q[k], n) /\ q[k].id # ch
          /\ d # None \/ \E j \in 1..Len(q) : j < k /\ AtOf(q[j], n) /\ q[j].id # None
    BY DEF DoomedBy
  <1>4. k > s
    <2> SUFFICES ASSUME k <= s PROVE FALSE
      BY <1>1
    <2>1. s = 1 /\ k = 1
      OBVIOUS
    <2> QED BY <1>3, <2>1
  <1>5. PICK i \in 1..Len(r) : i + s = k /\ AtOf(r[i], n) /\ r[i].id # ch
    BY <1>2, <1>3, <1>4
  <1>6. CASE Learnt(q, s, n, d) # None
    BY <1>5, <1>6 DEF DoomedBy
  <1>7. CASE Learnt(q, s, n, d) = None
    <2>1. d = None
      BY <1>7 DEF Learnt
    <2>2. PICK j \in 1..Len(q) : j < k /\ AtOf(q[j], n) /\ q[j].id # None
      BY <1>3, <2>1
    <2>3. j > s
      <3> SUFFICES ASSUME j <= s PROVE FALSE
        BY <1>1
      <3>1. s = 1 /\ j = 1
        OBVIOUS
      <3> QED BY <1>7, <2>2, <3>1 DEF Learnt
    <2>4. PICK h \in 1..Len(r) : h + s = j /\ AtOf(r[h], n) /\ r[h].id # None
      BY <1>2, <2>2, <2>3
    <2>5. h < i
      BY <1>5, <2>2, <2>4
    <2> QED BY <1>5, <2>4, <2>5 DEF DoomedBy
  <1> QED BY <1>6, <1>7

\* A move dooms the cards in the channel it is from.
LEMMA DoomedNew ==
    ASSUME NEW q \in Seq(Message), NEW r \in Seq(Message),
           NEW out, NEW new, Passed(q, r, 0, out, new),
           NEW n, NEW d, NEW ch, ch # None, Settles(q, n, ch, d),
           NEW m \in new, AtOf(m, n), m.id # ch
    PROVE  DoomedBy(r, d, n, ch)
  <1>1. Len(q) \in Nat /\ Len(r) \in Nat
    OBVIOUS
  <1>2. PICK i \in 1..Len(r) : i > Len(q) - 0 /\ r[i] = m
    BY PassedShape
  <1>3. CASE d = ch
    BY <1>2, <1>3 DEF DoomedBy
  <1>4. CASE d # ch
    <2>1. PICK k \in 1..Len(q) : AtOf(q[k], n) /\ q[k].id = ch
      BY <1>4 DEF Settles
    <2>2. PICK j \in 1..Len(r) : /\ j + 0 = k
                                 /\ r[j].type = q[k].type /\ r[j].id = q[k].id /\ r[j].of = q[k].of
      BY PassedAt
    <2>3. AtOf(r[j], n) /\ r[j].id = ch
      BY <2>1, <2>2 DEF AtOf
    <2>4. j < i
      BY <1>1, <1>2, <2>2
    <2> QED BY <1>2, <2>3, <2>4 DEF DoomedBy
  <1> QED BY <1>3, <1>4

LEMMA SettledDooms ==
    ASSUME NEW q \in Seq(Message), NEW n, NEW p, NEW d, Settles(q, n, p, d), d # p, d # None
    PROVE  DoomedBy(q, d, n, d)
  <1>1. PICK k \in 1..Len(q) : AtOf(q[k], n) /\ q[k].id = p
    BY DEF Settles
  <1> QED BY <1>1 DEF DoomedBy

-----------------------------------------------------------------------------
(* The inductive invariant: cards. *)

PlaceTold == \A v \in Up, n \in Natives : Settles(inbox[v], n, place[n], directory[v][n])

Doomed(id, n) ==
    \E v \in Up : DoomedBy(inbox[v], directory[v][n], n, streams[id].channel)

CardPlaced ==
    \A id \in Ids, n \in Natives :
       Card(id, n) /\ "end" \notin missed[id] =>
          streams[id].channel = place[n] \/ Doomed(id, n)

\* A move hides a stream unless it is announced again.
MoveFollowed ==
    \A v \in Browsers : \A k \in 1..Len(inbox[v]), id \in Ids :
       /\ inbox[v][k].type = "at" /\ live[id] = inbox[v][k].of
       /\ "start" \notin missed[id]
       => Behind(inbox[v], k, "started", id)

LivePlaced ==
    \A id \in Ids : live[id] \in Natives => live[id] \in Publishers /\ place[live[id]] # None

\* A native stream has a card, or is about to be announced or asked for.
Sought(n) == n \in scan.todo \/ scan.next # None

Coming(id) == \E v \in Browsers : Has(inbox[v], "started", id)

Found ==
    \A id \in Ids : live[id] \in Natives /\ "start" \notin missed[id] =>
       streams[id] # None \/ Up = {} \/ Sought(live[id]) \/ Coming(id)

Shown == PlaceTold /\ CardPlaced /\ MoveFollowed /\ LivePlaced /\ Found

-----------------------------------------------------------------------------
(* What a step does to cards, to what is known of the native users and to
   discovery; sessions as in Step. *)

DirectoryFrom(heads, lost) ==
    \A v \in Up' :
       /\ v \notin lost
       /\ \A n \in Natives :
             directory'[v][n] =
                IF v \in Up
                THEN Learnt(inbox[v], IF v \in heads THEN 1 ELSE 0, n, directory[v][n])
                ELSE place'[n]

\* Only a step that does nothing else moves a native user.
MovesAlone(heads, lost) ==
    \A n \in Natives : place'[n] # place[n] =>
       /\ heads = {} /\ lost = {} /\ streams' = streams /\ Up' = Up
       /\ Up = {} => \A id \in Ids : Card(id, n) => "end" \in missed'[id]

CardsFrom ==
    \A id \in Ids, n \in Natives : Card(id, n)' =>
       \/ Card(id, n) /\ streams'[id].channel = streams[id].channel
       \/ \E w \in Up' : directory'[w][n] = streams'[id].channel

\* Who learns of a move retires the cards in other channels.
MoveHeard(heads) ==
    \A v \in heads, n \in Natives, id \in Ids :
       AtOf(inbox[v][1], n) /\ directory[v][n] # None /\ Card(id, n)' =>
          inbox[v][1].id = streams'[id].channel

CutTrue(lost) ==
    \A v \in lost : \A k \in 1..Len(inbox[v]), id \in Ids, n \in Natives :
       /\ AtOf(inbox[v][k], n) /\ Card(id, n) => "end" \in missed'[id]
       /\ Is(inbox[v][k], "started", id) /\ inbox[v][k].of = n => "start" \in missed'[id]

StartKept ==
    \A id \in Ids : "start" \in missed[id] =>
       \/ "start" \in missed'[id] \/ Fresh(id)
       \/ (\A v \in Browsers : inbox[v] = <<>>) /\ Coming(id)'

\* A card is retired by the end or a move of its source, or with the last session.
CardKept(heads) ==
    \A id \in Ids : live[id] \in Natives /\ live'[id] = live[id] /\ streams[id] # None =>
       \/ streams'[id] # None \/ Up' = {}
       \/ \E v \in heads : AtOf(inbox[v][1], streams[id].src)

LiveFrom ==
    \A id \in Ids : live'[id] \in Natives =>
       \/ live'[id] \in Publishers /\ place'[live'[id]] # None
       \/ live[id] = live'[id] /\ place'[live[id]] = place[live[id]]

StartHeard(heads) ==
    \A v \in heads, id \in Ids, n \in Natives :
       Is(inbox[v][1], "started", id) /\ inbox[v][1].of = n =>
          streams'[id] # None \/ "start" \in missed'[id]

SoughtOn ==
    \A id \in Ids, n \in Natives :
       live'[id] = n /\ "start" \notin missed'[id] /\ (Up = {} \/ Sought(n)) =>
          Up' = {} \/ Sought(n)' \/ Coming(id)'

Turn(heads, lost) ==
    /\ DirectoryFrom(heads, lost) /\ MovesAlone(heads, lost)
    /\ CardsFrom /\ MoveHeard(heads) /\ CutTrue(lost) /\ StartKept /\ CardKept(heads)
    /\ LiveFrom /\ StartHeard(heads) /\ SoughtOn

-----------------------------------------------------------------------------
(* Every step keeps it. *)

LEMMA PlaceToldStep ==
    ASSUME IInv, IInv', OnlyUp, PlaceTold, NEW heads, NEW out, NEW new, NEW lost,
           Step(heads, out, new, lost), Turn(heads, lost)
    PROVE  PlaceTold'
  <1>1. /\ TypeOK /\ TypeOK' /\ Flow(heads, out, new, lost) /\ NewTrue(new) /\ MoveTold(new)
        /\ DirectoryFrom(heads, lost) /\ MovesAlone(heads, lost)
    BY DEF IInv, Step, Turn
  <1> SUFFICES ASSUME NEW v \in Up', NEW n \in Natives
               PROVE  Settles(inbox'[v], n, place'[n], directory'[v][n])
    BY DEF PlaceTold
  <1>2. v \in Browsers /\ v \notin lost
    BY <1>1 DEF Up, DirectoryFrom
  <1>3. PICK s \in {0, 1} : /\ Passed(inbox[v], inbox'[v], s, out[v], new[v])
                            /\ s = IF v \in heads THEN 1 ELSE 0
    BY <1>1, <1>2 DEF Flow
  <1>4. PICK q \in Seq(Message) : q = inbox[v]
    BY <1>1, <1>2 DEF TypeOK
  <1>5. PICK r \in Seq(Message) : r = inbox'[v]
    BY <1>1, <1>2 DEF TypeOK
  <1>6. \A m \in new[v] : AtOf(m, n) => m.id = place'[n]
    BY <1>1, <1>2 DEF NewTrue, AtOf
  <1>7. CASE v \in Up
    <2>1. Settles(q, n, place[n], directory[v][n])
      BY <1>4, <1>7 DEF PlaceTold
    <2>2. directory'[v][n] = Learnt(q, s, n, directory[v][n])
      BY <1>1, <1>3, <1>4, <1>7 DEF DirectoryFrom
    <2>3. CASE place'[n] = place[n]
      BY <1>3, <1>4, <1>5, <1>6, <2>1, <2>2, <2>3, SettlesPassed
    <2>4. CASE place'[n] # place[n]
      <3>1. PICK m \in new[v] : AtOf(m, n)
        BY <1>1, <1>7, <2>4 DEF MoveTold, Msg, AtOf
      <3> QED BY <1>3, <1>4, <1>5, <1>6, <3>1, SettlesNew
    <2> QED BY <2>3, <2>4
  <1>8. CASE v \notin Up
    <2>1. directory'[v][n] = place'[n]
      BY <1>1, <1>8 DEF DirectoryFrom
    <2>2. q = <<>> /\ new[v] = {}
      BY <1>1, <1>2, <1>4, <1>8 DEF OnlyUp, NewTrue
    <2>3. Len(q) = 0 /\ Len(r) \in Nat /\ s <= Len(q)
      BY <1>3, <1>4, <2>2 DEF Passed
    <2>4. \A k \in 1..Len(r) : FALSE
      <3> SUFFICES ASSUME NEW k \in 1..Len(r) PROVE FALSE
        OBVIOUS
      <3>1. k > Len(q) - s
        BY <2>3
      <3>2. Passed(q, r, s, out[v], new[v])
        BY <1>3, <1>4, <1>5
      <3>3. r[k] \in new[v]
        BY <3>1, <3>2 DEF Passed
      <3> QED BY <2>2, <3>3
    <2> QED BY <1>5, <2>1, <2>4 DEF Settles
  <1> QED BY <1>7, <1>8

\* A card that is to be retired stays so while it is there.
LEMMA DoomedStays ==
    ASSUME IInv, IInv', NEW heads, NEW out, NEW new, NEW lost,
           Step(heads, out, new, lost), Turn(heads, lost),
           NEW id \in Ids, NEW n \in Natives, Card(id, n), Card(id, n)', "end" \notin missed'[id],
           streams'[id].channel = streams[id].channel, Doomed(id, n)
    PROVE  Doomed(id, n)'
  <1>1. /\ TypeOK /\ TypeOK' /\ Flow(heads, out, new, lost) /\ Actors(heads, lost)
        /\ DirectoryFrom(heads, lost) /\ MoveHeard(heads) /\ CutTrue(lost)
    BY DEF IInv, Step, Turn
  <1>2. PICK ch \in Channels : ch = streams[id].channel
    <2>1. id \in Keys /\ streams[id] # None
      BY DEF Keys, Card
    <2> QED BY <1>1, <2>1 DEF TypeOK, Stream
  <1>3. ch # None
    BY NoneAssumption
  <1>4. PICK v \in Up : DoomedBy(inbox[v], directory[v][n], n, ch)
    BY <1>2 DEF Doomed
  <1>5. PICK k \in 1..Len(inbox[v]) : AtOf(inbox[v][k], n)
    BY <1>4 DEF DoomedBy
  <1>6. v \in Browsers /\ v \notin lost /\ v \in Up'
    BY <1>1, <1>5 DEF Up, CutTrue, Actors
  <1>7. PICK s \in {0, 1} : /\ Passed(inbox[v], inbox'[v], s, out[v], new[v])
                            /\ s = IF v \in heads THEN 1 ELSE 0
    BY <1>1, <1>6 DEF Flow
  <1>8. s = 1 /\ AtOf(inbox[v][1], n) /\ directory[v][n] # None => inbox[v][1].id = ch
    BY <1>1, <1>2, <1>7 DEF MoveHeard
  <1>9. inbox[v] \in Seq(Message) /\ inbox'[v] \in Seq(Message)
    BY <1>1, <1>6 DEF TypeOK
  <1>10. DoomedBy(inbox'[v], Learnt(inbox[v], s, n, directory[v][n]), n, ch)
    BY <1>3, <1>4, <1>7, <1>8, <1>9, DoomedPassed
  <1>11. directory'[v][n] = Learnt(inbox[v], s, n, directory[v][n])
    BY <1>1, <1>6, <1>7 DEF DirectoryFrom
  <1> QED BY <1>2, <1>6, <1>10, <1>11 DEF Doomed

LEMMA CardPlacedStep ==
    ASSUME IInv, IInv', PlaceTold, PlaceTold', CardPlaced, NEW heads, NEW out, NEW new, NEW lost,
           Step(heads, out, new, lost), Turn(heads, lost)
    PROVE  CardPlaced'
  <1>1. /\ TypeOK /\ TypeOK' /\ Flow(heads, out, new, lost) /\ Actors(heads, lost)
        /\ NewTrue(new) /\ MoveTold(new) /\ RefsFrom(heads) /\ EndsTrue(heads, lost)
        /\ DirectoryFrom(heads, lost) /\ MovesAlone(heads, lost) /\ CardsFrom
        /\ MoveHeard(heads) /\ CutTrue(lost)
    BY DEF IInv, Step, Turn
  <1> SUFFICES ASSUME NEW id \in Ids, NEW n \in Natives, Card(id, n)', "end" \notin missed'[id],
                      streams'[id].channel # place'[n]
               PROVE  Doomed(id, n)'
    BY DEF CardPlaced
  <1>2. PICK ch \in Channels : ch = streams'[id].channel
    <2>1. id \in Keys /\ streams'[id] # None
      BY DEF Keys, Card
    <2> QED BY <1>1, <2>1 DEF TypeOK, Stream
  <1>3. ch # None
    BY NoneAssumption
  <1>4. n \in Clients
    BY DEF Clients
  <1>5. ~Fresh(id)
    <2> SUFFICES ASSUME Fresh(id) PROVE FALSE
      OBVIOUS
    <2>1. /\ ~Card(id, n)
          /\ \A v \in Browsers : \A k \in 1..Len(inbox[v]) : inbox[v][k].id # id
      BY <1>1, FreshShape DEF Card
    <2>2. PICK v \in heads : Is(inbox[v][1], "started", id)
      BY <1>1, <1>4, <2>1 DEF RefsFrom, CardHeading
    <2>3. v \in Browsers /\ 1 \in 1..Len(inbox[v])
      BY <1>1, InboxShape DEF Actors
    <2> QED BY <2>1, <2>2, <2>3 DEF Is
  <1>6. "end" \notin missed[id]
    BY <1>1, <1>5 DEF EndsTrue
  <1>7. CASE place'[n] # place[n]
    <2>1. /\ heads = {} /\ lost = {} /\ streams' = streams /\ Up' = Up
          /\ Card(id, n) /\ Up # {}
      BY <1>1, <1>7 DEF MovesAlone, Card
    <2>2. \A v \in Up : /\ v \in Browsers /\ directory'[v][n] = directory[v][n]
                        /\ inbox[v] \in Seq(Message) /\ inbox'[v] \in Seq(Message)
                        /\ Passed(inbox[v], inbox'[v], 0, out[v], new[v])
      BY <1>1, <2>1 DEF Up, DirectoryFrom, Learnt, Flow, TypeOK
    <2>3. CASE ch = place[n]
      <3>1. PICK v \in Up : TRUE
        BY <2>1
      <3>2. Settles(inbox[v], n, ch, directory[v][n])
        BY <2>3 DEF PlaceTold
      <3>3. PICK m \in new[v] : AtOf(m, n) /\ m.id # ch
        BY <1>1, <1>2, <1>7, <2>3 DEF MoveTold, AtOf, Msg
      <3>4. DoomedBy(inbox'[v], directory[v][n], n, ch)
        BY <1>3, <2>2, <3>2, <3>3, DoomedNew
      <3> QED BY <1>2, <2>1, <2>2, <3>4 DEF Doomed
    <2>4. CASE ch # place[n]
      BY <1>2, <1>6, <2>1, <2>4, DoomedStays DEF CardPlaced
    <2> QED BY <2>3, <2>4
  <1>8. CASE place'[n] = place[n]
    <2>1. CASE Card(id, n) /\ streams'[id].channel = streams[id].channel
      BY <1>2, <1>6, <1>8, <2>1, DoomedStays DEF CardPlaced
    <2>2. CASE \E w \in Up' : directory'[w][n] = streams'[id].channel
      <3>1. PICK w \in Up' : directory'[w][n] = ch
        BY <1>2, <2>2
      <3>2. Settles(inbox'[w], n, place'[n], ch)
        BY <3>1 DEF PlaceTold
      <3>3. inbox'[w] \in Seq(Message)
        BY <1>1 DEF TypeOK, Up
      <3>4. DoomedBy(inbox'[w], ch, n, ch)
        BY <1>2, <1>3, <3>2, <3>3, SettledDooms
      <3> QED BY <1>2, <3>1, <3>4 DEF Doomed
    <2> QED BY <1>1, <2>1, <2>2 DEF CardsFrom
  <1> QED BY <1>7, <1>8

LEMMA MoveFollowedStep ==
    ASSUME IInv, IInv', OnlyUp, MoveFollowed, NEW heads, NEW out, NEW new, NEW lost,
           Step(heads, out, new, lost), Turn(heads, lost)
    PROVE  MoveFollowed'
  <1>1. /\ TypeOK /\ TypeOK' /\ Flow(heads, out, new, lost) /\ NewTrue(new)
        /\ LiveTrue(new, lost) /\ StartKept
    BY DEF IInv, Step, Turn
  <1> SUFFICES ASSUME NEW v \in Browsers, NEW k \in 1..Len(inbox'[v]), NEW id \in Ids,
                      inbox'[v][k].type = "at", live'[id] = inbox'[v][k].of,
                      "start" \notin missed'[id]
               PROVE  Behind(inbox'[v], k, "started", id)
    BY DEF MoveFollowed
  <1>2. live'[id] \in Natives /\ live'[id] # None
    <2>1. inbox'[v][k] \in Message
      BY <1>1, Traced
    <2> QED BY <2>1, NoneAssumption, MessageShape
  <1>3. inbox'[v][k] \notin new[v]
    BY <1>1 DEF NewTrue
  <1>4. PICK j \in 1..Len(inbox[v]) : Comes(inbox[v], j, inbox'[v], k, out[v], new[v])
    BY <1>1, <1>3, Traced
  <1>5. inbox[v][j].type = "at" /\ inbox[v][j].of = live'[id]
    BY <1>4 DEF Comes
  <1>6. inbox[v] # <<>>
    BY <1>1, InboxShape
  <1>7. CASE live'[id] = live[id]
    <2>1. ~Fresh(id)
      BY <1>1, <1>2, <1>7, FreshShape
    <2>2. "start" \notin missed[id]
      BY <1>1, <1>6, <2>1 DEF StartKept
    <2>3. Behind(inbox[v], j, "started", id)
      BY <1>5, <1>7, <2>2 DEF MoveFollowed
    <2> QED BY <1>4, <2>3 DEF Comes
  <1>8. CASE \A w \in Up \ lost : Msg("started", id, live'[id]) \in new[w]
    <2>1. v \in Up \ lost
      BY <1>1, <1>6, Traced DEF OnlyUp
    <2>2. PICK m \in new[v] : m.type = "started" /\ m.id = id
      BY <1>8, <2>1 DEF Msg
    <2> QED BY <1>4, <2>2 DEF Comes
  <1> QED BY <1>1, <1>2, <1>7, <1>8 DEF LiveTrue, Ended

LEMMA FoundStep ==
    ASSUME IInv, IInv', Published, MoveFollowed, Found, NEW heads, NEW out, NEW new, NEW lost,
           Step(heads, out, new, lost), Turn(heads, lost)
    PROVE  Found'
  <1>1. /\ TypeOK /\ TypeOK' /\ Flow(heads, out, new, lost) /\ Actors(heads, lost)
        /\ LiveTrue(new, lost) /\ StartKept /\ SoughtOn /\ CardKept(heads) /\ CutTrue(lost)
        /\ StartHeard(heads) /\ OneClaim /\ StartedTrue /\ StoppedTrue
    BY DEF IInv, Step, Turn, Published
  <1> SUFFICES ASSUME NEW id \in Ids, NEW c \in Natives, live'[id] = c,
                      "start" \notin missed'[id], streams'[id] = None, Up' # {}, ~Sought(c)'
               PROVE  Coming(id)'
    BY DEF Found
  <1>2. c # None /\ c \in Clients
    BY NoneAssumption DEF Clients
  <1>3. CASE Up = {} \/ Sought(c)
    BY <1>1, <1>3 DEF SoughtOn
  <1>4. CASE Up # {} /\ lost = {} /\ \A v \in Up \ lost : Msg("started", id, live'[id]) \in new[v]
    <2>1. PICK v \in Up : Msg("started", id, live'[id]) \in new[v]
      BY <1>4
    <2>2. PICK m \in new[v] : Is(m, "started", id)
      BY <2>1 DEF Msg, Is
    <2>3. v \in Browsers /\ v \notin lost
      BY <1>4 DEF Up
    <2>4. Has(inbox'[v], "started", id)
      BY <1>1, <2>2, <2>3, Stays
    <2> QED BY <2>3, <2>4 DEF Coming
  <1>5. CASE live'[id] = live[id] /\ Up # {} /\ ~Sought(c)
    <2>1. ~Fresh(id)
      BY <1>1, <1>2, <1>5, FreshShape
    <2>2. CASE "start" \in missed[id]
      BY <1>1, <2>1, <2>2 DEF StartKept
    <2>3. CASE "start" \notin missed[id] /\ streams[id] # None
      <3>1. PICK v \in heads : AtOf(inbox[v][1], streams[id].src)
        BY <1>1, <1>5, <2>3 DEF CardKept
      <3>2. streams[id].src = live[id]
        <4>1. streams[id].src \in Clients
          BY <1>1, <2>3, EntryShape, StreamShape DEF Keys
        <4>2. CardClaim(id, streams[id].src) /\ CardClaim(id, live[id])
          BY <1>5, <2>3 DEF CardClaim, Card
        <4> QED BY <1>1, <1>2, <1>5, <4>1, <4>2 DEF OneClaim
      <3>3. v \in Browsers /\ v \notin lost /\ 1 \in 1..Len(inbox[v])
        BY <1>1, InboxShape DEF Actors
      <3>4. Behind(inbox[v], 1, "started", id)
        BY <2>3, <3>1, <3>2, <3>3 DEF MoveFollowed, AtOf
      <3>5. Has(inbox'[v], "started", id)
        BY <1>1, <3>3, <3>4, Stays
      <3> QED BY <3>3, <3>5 DEF Coming
    <2>4. ASSUME "start" \notin missed[id], NEW v \in Browsers, Has(inbox[v], "started", id)
          PROVE  Coming(id)'
      <3>1. \A k \in 1..Len(inbox[v]) :
               Is(inbox[v][k], "started", id) => inbox[v][k].of = live[id]
        <4> SUFFICES ASSUME NEW k \in 1..Len(inbox[v]), Is(inbox[v][k], "started", id),
                            inbox[v][k].of # live[id]
                     PROVE  FALSE
          OBVIOUS
        <4>1. Behind(inbox[v], k, "stopped", id)
          BY <1>1 DEF StartedTrue, Is
        <4>2. Has(inbox[v], "stopped", id)
          BY <4>1 DEF Behind, Has
        <4> QED BY <1>1, <1>2, <1>5, <4>2 DEF StoppedTrue
      <3>2. v \notin lost
        BY <1>1, <1>5, <2>4, <3>1 DEF CutTrue, Has
      <3>3. CASE Has(inbox'[v], "started", id)
        BY <3>3 DEF Coming
      <3>4. CASE v \in heads /\ Is(inbox[v][1], "started", id)
        <4>1. 1 \in 1..Len(inbox[v])
          BY <1>1, <3>4, InboxShape DEF Actors
        <4>2. inbox[v][1].of = live[id]
          BY <3>1, <3>4, <4>1
        <4> QED BY <1>1, <1>5, <3>4, <4>2 DEF StartHeard
      <3> QED BY <1>1, <2>4, <3>2, <3>3, <3>4, Stays
    <2> QED BY <1>5, <2>2, <2>3, <2>4 DEF Found, Coming
  <1> QED BY <1>1, <1>2, <1>3, <1>4, <1>5 DEF LiveTrue, Ended

LEMMA ShownStep ==
    ASSUME IInv, IInv', Published, Shown, NEW heads, NEW out, NEW new, NEW lost,
           Step(heads, out, new, lost), Turn(heads, lost)
    PROVE  Shown'
  <1>1. PlaceTold' /\ MoveFollowed' /\ Found'
    BY PlaceToldStep, MoveFollowedStep, FoundStep DEF Shown, Published
  <1>2. CardPlaced'
    BY <1>1, CardPlacedStep DEF Shown
  <1>3. LivePlaced'
    BY DEF LivePlaced, Shown, Turn, LiveFrom
  <1> QED BY <1>1, <1>2, <1>3 DEF Shown

-----------------------------------------------------------------------------
(* Steps that move nobody and ask for nothing. *)

StartsKept == \A id \in Ids : "start" \in missed[id] => "start" \in missed'[id] \/ Fresh(id)

NativesLast == \A id \in Ids : live'[id] \in Natives => live[id] = live'[id]

LEMMA SameTurn ==
    ASSUME IInv, NEW heads \in SUBSET Browsers, Up' = Up, UNCHANGED <<directory, place, scan>>,
           \A v \in heads : inbox[v] # <<>> /\ inbox[v][1].type # "at",
           CardsFrom, CardKept(heads), StartHeard(heads), LiveFrom, StartsKept
    PROVE  Turn(heads, {})
  <1>1. \A v \in heads, n \in Natives : ~AtOf(inbox[v][1], n)
    BY DEF AtOf
  <1>2. DirectoryFrom(heads, {}) /\ MovesAlone(heads, {}) /\ MoveHeard(heads) /\ CutTrue({})
    BY <1>1 DEF DirectoryFrom, Learnt, MovesAlone, MoveHeard, CutTrue
  <1>3. StartKept
    BY DEF StartKept, StartsKept
  <1>4. SoughtOn
    BY DEF SoughtOn, Sought
  <1> QED BY <1>2, <1>3, <1>4 DEF Turn

LEMMA CalmTurn ==
    ASSUME IInv, NEW heads \in SUBSET Browsers, Up' = Up, UNCHANGED <<directory, place, scan>>,
           \A v \in heads : /\ inbox[v] # <<>> /\ inbox[v][1].type # "at"
                            /\ inbox[v][1].type = "started" => inbox[v][1].of \in Browsers,
           CardsSame, LiveFrom, StartsKept
    PROVE  Turn(heads, {})
  <1>1. CardsFrom /\ CardKept(heads)
    BY DEF CardsFrom, CardKept, CardsSame, Card
  <1>2. StartHeard(heads)
    BY ClientsAssumption DEF StartHeard, Is
  <1> QED BY <1>1, <1>2, SameTurn

LEMMA NativesFrom ==
    ASSUME place' = place, NativesLast
    PROVE  LiveFrom
  BY DEF LiveFrom, NativesLast

LEMMA SameStarts ==
    /\ missed' = missed => StartsKept
    /\ (\A id \in Ids : missed[id] \subseteq missed'[id]) => StartsKept
  BY DEF StartsKept

LEMMA MissStarts ==
    ASSUME TypeOK, NEW ids, NEW what, missed' = Miss(ids, what)
    PROVE  StartsKept
  BY MissAdds, SameStarts

LEMMA SameNatives == live' = live => NativesLast
  BY DEF NativesLast

LEMMA IdleTurn ==
    ASSUME IInv, Up' = Up, UNCHANGED <<directory, place, scan>>, CardsSame, NativesLast, StartsKept
    PROVE  Turn({}, {})
  BY NativesFrom, CalmTurn

LEMMA ArriveTurn ==
    ASSUME IInv, NEW b \in Browsers, Arrive(b)
    PROVE  Turn({}, {})
  <1>1. /\ session[b] = "absent" /\ session' = [session EXCEPT ![b] = "down"]
        /\ UNCHANGED <<directory, streams, scan, place, live, missed>> /\ TypeOK
    BY DEF Arrive, registry, IInv
  <1>2. Up' = Up
    BY <1>1 DEF Up, TypeOK
  <1> QED BY <1>1, <1>2, SameRefs, SameNatives, SameStarts, IdleTurn

\* A stream is given out.
LEMMA GivenStarts ==
    ASSUME TypeOK, NEW id \in Ids, Fresh(id), missed' = [missed EXCEPT ![id] = {}]
    PROVE  StartsKept
  BY DEF TypeOK, StartsKept

LEMMA GivenNatives ==
    ASSUME TypeOK, NEW id \in Ids, NEW c, c \notin Natives, live' = [live EXCEPT ![id] = c]
    PROVE  NativesLast
  BY DEF TypeOK, NativesLast

LEMMA StartTurn ==
    ASSUME IInv, NEW b \in Browsers, Start(b)
    PROVE  Turn({}, {})
  <1>1. /\ TypeOK /\ UNCHANGED <<session, directory, scan, place>>
        /\ streams' = [streams EXCEPT ![b] = NewStream(b, channel[b])]
        /\ \/ \E id \in Ids : /\ Fresh(id) /\ live' = [live EXCEPT ![id] = b]
                              /\ missed' = [missed EXCEPT ![id] = {}]
           \/ UNCHANGED <<live, missed>>
    BY DEF Start, sessions, IInv
  <1>2. CardsSame
    <2>1. PICK r : r = NewStream(b, channel[b])
      OBVIOUS
    <2>2. \A k \in Keys : k # b => streams'[k] = streams[k]
      BY <1>1, <2>1 DEF TypeOK
    <2>3. \A id \in Ids : id \in Keys /\ id # b
      BY ClientsAssumption DEF Keys
    <2> QED BY <2>2, <2>3 DEF CardsSame
  <1>3. NativesLast /\ StartsKept
    <2>1. b \notin Natives
      BY ClientsAssumption
    <2> QED BY <1>1, <2>1, GivenStarts, GivenNatives, SameNatives, SameStarts
  <1>4. Up' = Up
    BY <1>1 DEF Up
  <1> QED BY <1>1, <1>2, <1>3, <1>4, IdleTurn

\* Streams are retired and commands sent.
LEMMA SendTurn ==
    ASSUME IInv, NEW stops, NEW leaves, stops \cap Ids = {}, streams' = Retired(stops, leaves),
           Up' = Up, UNCHANGED <<directory, place, scan>>,
           NEW heads \in SUBSET Browsers,
           \A v \in heads : inbox[v] # <<>> /\ inbox[v][1].type \notin {"at", "started"},
           NEW cmds, NEW inb, NEW waiting, Send(cmds, inb, waiting)
    PROVE  Turn(heads, {})
  <1>1. TypeOK /\ CardsSame
    BY RetiredRefs DEF IInv
  <1>2. NativesLast /\ \E ids : missed' = Miss(ids, "flooded")
    BY NoneAssumption DEF Send, NativesLast
  <1> QED BY <1>1, <1>2, MissStarts, NativesFrom, CalmTurn

LEMMA StopTurn ==
    ASSUME IInv, NEW b \in Browsers, Stop(b)
    PROVE  Turn({}, {})
  <1>1. PICK stops, leaves : stops = {b} /\ leaves = {}
    OBVIOUS
  <1>2. /\ streams' = Retired(stops, leaves)
        /\ Send(Cleanups(stops, leaves), Outdated(stops, leaves), LateCleanups(stops))
        /\ UNCHANGED <<session, directory, place, scan>>
    BY <1>1 DEF Stop, Retire, sessions
  <1>3. stops \cap Ids = {} /\ Up' = Up
    BY <1>1, <1>2, ClientsAssumption DEF Up
  <1> QED BY <1>2, <1>3, SendTurn

LEMMA LeaveTurn ==
    ASSUME IInv, NEW b \in Browsers, NEW k \in Keys, Leave(b, k)
    PROVE  Turn({}, {})
  <1>1. PICK stops, leaves : stops = {} /\ leaves = {<<b, k>>}
    OBVIOUS
  <1>2. /\ streams' = Retired(stops, leaves)
        /\ Send(Cleanups(stops, leaves), Outdated(stops, leaves), retry)
        /\ UNCHANGED <<session, directory, place, scan>>
    BY <1>1 DEF Leave, Retire, sessions
  <1>3. stops \cap Ids = {} /\ Up' = Up
    BY <1>1, <1>2 DEF Up
  <1> QED BY <1>2, <1>3, SendTurn

LEMMA BrowserMoveTurn ==
    ASSUME IInv, NEW b \in Browsers, NEW ch \in Channels, BrowserMove(b, ch)
    PROVE  Turn({}, {})
  <1>1. PICK stops, leaves : /\ stops = {k \in {b} : streams[k] # None}
                             /\ leaves = {b} \X {k \in Viewed(b) : streams[k].channel # ch}
    OBVIOUS
  <1>2. /\ streams' = Retired(stops, leaves)
        /\ Send(Cleanups(stops, leaves), Outdated(stops, leaves), LateCleanups(stops))
        /\ UNCHANGED <<session, directory, place, scan>>
    BY <1>1 DEF BrowserMove, Retire
  <1>3. stops \cap Ids = {} /\ Up' = Up
    BY <1>1, <1>2, ClientsAssumption DEF Up
  <1> QED BY <1>2, <1>3, SendTurn

LEMMA JoinRefusedTurn ==
    ASSUME IInv, NEW b \in Browsers, JoinRefusedAnswer(b)
    PROVE  Turn({b}, {})
  <1>1. /\ inbox[b] # <<>> /\ Head(inbox[b]).type = "joinRefused" /\ TypeOK
        /\ UNCHANGED <<session, directory, place, scan>>
    BY DEF JoinRefusedAnswer, Heads, sessions, IInv
  <1>2. PICK stops, leaves :
          /\ stops = {}
          /\ leaves = IF Head(inbox[b]).current THEN {<<b, Head(inbox[b]).id>>} ELSE {}
    OBVIOUS
  <1>3. /\ streams' = Retired(stops, leaves)
        /\ Send(Cleanups(stops, leaves), Rest(Outdated(stops, leaves), b), retry)
    BY <1>2 DEF JoinRefusedAnswer, Retire
  <1>4. inbox[b][1].type = "joinRefused"
    BY <1>1, HeadFirst
  <1>5. stops \cap Ids = {} /\ Up' = Up
    BY <1>1, <1>2 DEF Up
  <1> QED BY <1>1, <1>3, <1>4, <1>5, SendTurn

LEMMA JoinTurn ==
    ASSUME IInv, NEW b \in Browsers, NEW k \in Keys, Join(b, k)
    PROVE  Turn({}, {})
  <1>1. /\ TypeOK /\ streams[k] # None
        /\ streams' = [streams EXCEPT ![k].viewers = streams[k].viewers \cup {b}]
        /\ UNCHANGED <<session, directory, scan, place, live, missed>> /\ b \in Up
    BY DEF Join, sessions, IInv
  <1>2. CardsSame
    <2>1. streams[k].viewers \cup {b} \in SUBSET Browsers
      BY <1>1, EntryShape, StreamShape
    <2> QED BY <1>1, <2>1, ViewersRefs
  <1>3. Up' = Up
    BY <1>1 DEF Up
  <1> QED BY <1>1, <1>2, <1>3, SameNatives, SameStarts, IdleTurn

LEMMA EvictTurn ==
    ASSUME IInv, NEW b \in Browsers, NEW n \in Natives, Evict(b, n)
    PROVE  Turn({}, {})
  <1>1. /\ TypeOK /\ UNCHANGED <<session, directory, streams, scan, place, live>>
        /\ missed' = missed \/ \E ids : missed' = Miss(ids, "flooded")
    BY DEF Evict, sessions, registry, IInv
  <1>2. Up' = Up
    BY <1>1 DEF Up
  <1> QED BY <1>1, <1>2, SameRefs, SameNatives, SameStarts, MissStarts, IdleTurn

LEMMA ResendTurn ==
    ASSUME IInv, NEW c \in retry, Resend(c)
    PROVE  Turn({}, {})
  <1>1. /\ TypeOK /\ c \in Cleanup /\ UNCHANGED <<session, directory, streams, scan, place>>
        /\ live' = live \/ live' = [live EXCEPT ![c.id] = None]
        /\ missed' = missed \/ missed' = Miss({c.id}, "abandoned")
    BY DEF Resend, sessions, registry, IInv, TypeOK
  <1>2. NativesLast
    BY <1>1, SameNatives, GivenNatives, NoneAssumption DEF Cleanup
  <1>3. Up' = Up
    BY <1>1 DEF Up
  <1> QED BY <1>1, <1>2, <1>3, SameRefs, SameStarts, MissStarts, IdleTurn

LEMMA WatchTurn ==
    ASSUME IInv, NEW n \in Natives, NEW id \in Ids, Watch(n, id) \/ Unwatch(n, id)
    PROVE  Turn({}, {})
  <1>1. UNCHANGED <<session, directory, streams, scan, place, live, missed>>
    BY DEF Watch, Unwatch, sessions, registry
  <1>2. Up' = Up
    BY <1>1 DEF Up
  <1> QED BY <1>1, <1>2, SameRefs, SameNatives, SameStarts, IdleTurn

LEMMA EndStreamTurn ==
    ASSUME IInv, NEW id \in Ids, EndStream(id)
    PROVE  Turn({}, {})
  <1>1. /\ TypeOK /\ UNCHANGED <<session, directory, streams, scan, place>>
        /\ live' = [live EXCEPT ![id] = None]
        /\ missed' = missed \/ missed' = Miss({id}, "end")
    BY DEF EndStream, sessions, registry, IInv
  <1>2. NativesLast
    BY <1>1, GivenNatives, NoneAssumption
  <1>3. Up' = Up
    BY <1>1 DEF Up
  <1> QED BY <1>1, <1>2, <1>3, SameRefs, SameStarts, MissStarts, IdleTurn

LEMMA PublishTurn ==
    ASSUME IInv, NEW n \in Natives, NEW id \in Ids, Publish(n, id)
    PROVE  Turn({}, {})
  <1>1. /\ TypeOK /\ UNCHANGED <<session, directory, streams, scan, place>>
        /\ live' = [live EXCEPT ![id] = n] /\ missed' = [missed EXCEPT ![id] = {}]
        /\ Fresh(id) /\ n \in Publishers /\ place[n] # None
    BY DEF Publish, sessions, registry, IInv
  <1>2. LiveFrom
    BY <1>1 DEF LiveFrom, TypeOK
  <1>3. Up' = Up
    BY <1>1 DEF Up
  <1> QED BY <1>1, <1>2, <1>3, SameRefs, GivenStarts, CalmTurn

LEMMA OwnStartedTurn ==
    ASSUME IInv, NEW b \in Browsers, OwnStarted(b)
    PROVE  Turn({b}, {})
  <1>1. PICK m : m = Head(inbox[b])
    OBVIOUS
  <1>2. Heads(b, "started") /\ m.of \in Browsers
    BY <1>1 DEF OwnStarted
  <1>3. inbox[b] # <<>> /\ inbox[b][1] = m /\ m.type = "started" /\ m.id \in Ids
    BY <1>1, <1>2, HeadStarted DEF Announcing
  <1>4. TypeOK /\ UNCHANGED <<directory, place, scan>> /\ Up' = Up
    BY DEF OwnStarted, sessions, Up, IInv
  <1>5. CASE streams[m.of] # None /\ streams[m.of].link \in {None, m.id}
    <2>1. streams' = [streams EXCEPT ![m.of].link = m.id] /\ UNCHANGED <<live, missed>>
      BY <1>1, <1>5 DEF OwnStarted
    <2>2. CardsSame
      BY <1>2, <1>3, <1>4, <1>5, <2>1, LinkRefs
    <2> QED BY <1>2, <1>3, <1>4, <2>1, <2>2, SameNatives, SameStarts, NativesFrom, CalmTurn
  <1>6. CASE ~(streams[m.of] # None /\ streams[m.of].link \in {None, m.id})
    <2>1. streams' = streams /\ \E cmds, inb, waiting : Send(cmds, inb, waiting)
      BY <1>1, <1>6 DEF OwnStarted
    <2>2. NativesLast /\ \E ids : missed' = Miss(ids, "flooded")
      BY <2>1, NoneAssumption DEF Send, NativesLast
    <2> QED BY <1>2, <1>3, <1>4, <2>1, <2>2, SameRefs, MissStarts, NativesFrom, CalmTurn
  <1> QED BY <1>5, <1>6

LEMMA AudienceNoticeTurn ==
    ASSUME IInv, NEW b \in Browsers, JoinAskedNotice(b) \/ RemovedAnswer(b)
    PROVE  Turn({b}, {})
  <1>1. PICK m : m = Head(inbox[b])
    OBVIOUS
  <1>2. /\ TypeOK /\ inbox[b] # <<>> /\ m.type \in {"joinAsked", "removed"}
        /\ UNCHANGED <<session, directory, place, scan, live>>
    BY <1>1 DEF JoinAskedNotice, RemovedAnswer, Heads, sessions, IInv
  <1>3. m \in Message /\ inbox[b][1] = m
    BY <1>1, <1>2, HeadShape, HeadFirst
  <1>4. m.of \in Natives
    BY <1>2, <1>3, MessageShape
  <1>5. StartsKept
    <2>1. missed' = missed \/ \E ids : missed' = Miss(ids, "crossed")
      BY DEF JoinAskedNotice, RemovedAnswer
    <2> QED BY <1>2, <2>1, SameStarts, MissStarts
  <1>6. CardsSame
    <2>1. CASE streams' = streams
      BY <2>1, SameRefs
    <2>2. CASE streams' # streams
      <3>1. b \in Keys /\ streams[b] # None
        BY <2>2 DEF JoinAskedNotice, RemovedAnswer, Keys
      <3>2. PICK set \in SUBSET Natives : streams' = [streams EXCEPT ![b].natives = set]
        <4>1. streams[b].natives \in SUBSET Natives
          BY <1>2, <3>1, EntryShape, StreamShape
        <4>2. \/ streams' = [streams EXCEPT ![b].natives = streams[b].natives \cup {m.of}]
              \/ streams' = [streams EXCEPT ![b].natives = streams[b].natives \ {m.of}]
          BY <1>1, <2>2 DEF JoinAskedNotice, RemovedAnswer
        <4>3. streams[b].natives \cup {m.of} \in SUBSET Natives
              /\ streams[b].natives \ {m.of} \in SUBSET Natives
          BY <1>4, <4>1
        <4> QED BY <4>2, <4>3
      <3> QED BY <1>2, <3>1, <3>2, OneNatives
    <2> QED BY <2>1, <2>2
  <1>7. Up' = Up
    BY <1>2 DEF Up
  <1> QED BY <1>2, <1>3, <1>5, <1>6, <1>7, SameNatives, NativesFrom, CalmTurn

LEMMA ClientLeftTurn ==
    ASSUME IInv, NEW b \in Browsers, ClientLeftNotice(b)
    PROVE  Turn({b}, {})
  <1>1. PICK m : m = Head(inbox[b])
    OBVIOUS
  <1>2. /\ TypeOK /\ inbox[b] # <<>> /\ m.type = "clientLeft"
        /\ UNCHANGED <<session, directory, place, scan, live, missed>>
        /\ streams' = [k \in Keys |-> IF k \in Browsers /\ Linked(k, m.id)
                                      THEN [streams[k] EXCEPT !.natives = @ \ {m.of}]
                                      ELSE streams[k]]
    BY <1>1 DEF ClientLeftNotice, Heads, sessions, IInv, Linked
  <1>3. inbox[b][1] = m
    BY <1>1, <1>2, HeadFirst
  <1>4. CardsSame
    <2>1. \A k \in Ids : k \in Keys /\ k \notin Browsers
      BY ClientsAssumption DEF Keys
    <2>2. \A k \in Ids : streams'[k] = streams[k]
      BY <1>2, <2>1
    <2> QED BY <2>2 DEF CardsSame
  <1>5. Up' = Up
    BY <1>2 DEF Up
  <1> QED BY <1>2, <1>3, <1>4, <1>5, SameNatives, SameStarts, NativesFrom, CalmTurn

LEMMA StoppedNoticeTurn ==
    ASSUME IInv, Published, NEW b \in Browsers, StoppedNotice(b)
    PROVE  Turn({b}, {})
  <1>1. PICK m \in Message : m = Head(inbox[b])
    BY HeadShape DEF StoppedNotice, Heads, IInv
  <1>2. /\ inbox[b] # <<>> /\ m.type = "stopped" /\ TypeOK
        /\ UNCHANGED <<session, directory, place, scan, live, missed>>
        /\ StoppedTrue
    BY <1>1 DEF StoppedNotice, Heads, sessions, IInv, Published
  <1>3. PICK id \in Ids : id = m.id
    BY <1>2, MessageShape
  <1>4. PICK cards : cards = {k \in {id} : streams[k] # None}
    OBVIOUS
  <1>5. streams' = IF cards # {} THEN Retired(cards, {})
                   ELSE [k \in Keys |-> IF k \in Browsers /\ Linked(k, id)
                         THEN [streams[k] EXCEPT !.link = None, !.natives = {}] ELSE streams[k]]
    BY <1>1, <1>3, <1>4 DEF StoppedNotice, Linked
  <1>6. Is(inbox[b][1], "stopped", id) /\ 1 \in 1..Len(inbox[b])
    BY <1>1, <1>2, <1>3, HeadFirst DEF Is
  <1>7. live[id] = None
    <2>1. Has(inbox[b], "stopped", id)
      BY <1>6 DEF Has
    <2> QED BY <1>2, <2>1 DEF StoppedTrue
  <1>8. \A k \in Ids : /\ streams'[k] # None => /\ streams[k] # None
                                                /\ streams'[k].src = streams[k].src
                                                /\ streams'[k].channel = streams[k].channel
                       /\ k # id /\ streams[k] # None => streams'[k] # None
    <2>1. \A k \in Ids : k \in Keys /\ k \notin Browsers
      BY ClientsAssumption DEF Keys
    <2>2. CASE cards # {}
      BY <1>2, <1>4, <1>5, <2>1, <2>2, RetiredKeeps
    <2>3. CASE cards = {}
      BY <1>5, <2>1, <2>3
    <2> QED BY <2>2, <2>3
  <1>9. CardsFrom
    BY <1>8 DEF CardsFrom, Card
  <1>10. CardKept({b})
    BY <1>7, <1>8, NoneAssumption DEF CardKept
  <1>11. StartHeard({b})
    BY <1>6 DEF StartHeard, Is
  <1>12. Up' = Up
    BY <1>2 DEF Up
  <1>13. LiveFrom /\ StartsKept
    BY <1>2, SameNatives, SameStarts, NativesFrom
  <1> QED BY <1>2, <1>6, <1>9, <1>10, <1>11, <1>12, <1>13, SameTurn DEF Is

LEMMA CardStartedTurn ==
    ASSUME IInv, NEW b \in Browsers, b \in Up, CardStarted(b)
    PROVE  Turn({b}, {})
  <1>1. PICK m : m = Head(inbox[b])
    OBVIOUS
  <1>2. Heads(b, "started")
    BY DEF CardStarted
  <1>3. /\ inbox[b] # <<>> /\ inbox[b][1] = m /\ m.type = "started" /\ m.id \in Ids
        /\ m.of \in Clients
    BY <1>1, <1>2, HeadStarted DEF Announcing
  <1>4. TypeOK /\ Up' = Up /\ UNCHANGED <<directory, place, scan>>
    BY DEF CardStarted, sessions, Up, IInv
  <1>5. PICK ch \in SourceChannels(b, m) :
          IF ch = None
          THEN /\ inbox' = Rest(inbox, b)
               /\ missed' = IF m.of \in Natives THEN Miss({m.id}, "start") ELSE missed
               /\ UNCHANGED <<registry, live, audience, retry>>
          ELSE LET old == streams[m.id]
                   moved == old # None /\ old.channel # ch
                   stops == IF moved THEN {m.id} ELSE {}
                   leaves == IF moved THEN old.viewers \X {m.id} ELSE {} IN
               /\ streams' = [Retired(stops, leaves) EXCEPT
                     ![m.id] = IF @ = None THEN NewStream(m.of, ch) ELSE [@ EXCEPT !.src = m.of]]
               /\ Tell(stops, leaves)
               /\ Send(Cleanups(stops, leaves), Rest(Outdated(stops, leaves), b), retry)
    BY <1>1 DEF CardStarted
  <1>6. CASE ch = None
    <2>1. missed' = IF m.of \in Natives THEN Miss({m.id}, "start") ELSE missed
      BY <1>5, <1>6
    <2>2. UNCHANGED <<streams, live>>
      BY <1>5, <1>6 DEF registry
    <2>3. CardsFrom /\ CardKept({b})
      BY <2>2 DEF CardsFrom, CardKept, Card
    <2>4. StartHeard({b})
      <3>1. m.of \in Natives => "start" \in missed'[m.id]
        BY <1>3, <1>4, <2>1, MissAdds
      <3> QED BY <1>3, <3>1 DEF StartHeard, Is
    <2>5. LiveFrom /\ StartsKept
      <3>1. missed' = missed \/ \E ids : missed' = Miss(ids, "start")
        BY <2>1
      <3> QED BY <1>4, <2>2, <3>1, SameNatives, SameStarts, MissStarts, NativesFrom
    <2> QED BY <1>3, <1>4, <2>3, <2>4, <2>5, SameTurn
  <1>7. CASE ch # None
    <2>1. PICK stops \in SUBSET {m.id} :
            /\ streams[m.id] # None /\ streams[m.id].channel # ch => m.id \in stops
            /\ \E leaves : /\ streams' = Carded(stops, leaves, m.id, m.of, ch)
                           /\ Send(Cleanups(stops, leaves), Rest(Outdated(stops, leaves), b), retry)
      BY <1>5, <1>7 DEF Carded
    <2>2. PICK leaves :
            /\ streams' = Carded(stops, leaves, m.id, m.of, ch)
            /\ Send(Cleanups(stops, leaves), Rest(Outdated(stops, leaves), b), retry)
      BY <2>1
    <2>3. ch \in Channels
      BY <1>3, <1>4, <1>7, SourceChannelsShape
    <2>4. /\ streams'[m.id] # None /\ streams'[m.id].src = m.of /\ streams'[m.id].channel = ch
          /\ \A i \in Ids \ {m.id} : /\ streams'[i] # None <=> streams[i] # None
                                     /\ streams'[i] # None =>
                                           /\ streams'[i].src = streams[i].src
                                           /\ streams'[i].channel = streams[i].channel
      <3>1. m.id \in Ids /\ m.of \in Clients /\ stops \subseteq {m.id} /\ stops \in SUBSET Ids
        BY <1>3, <2>1
      <3> QED BY <1>4, <2>1, <2>2, <2>3, <3>1, CardShape
    <2>5. m.of \in Natives => \E w \in Up : directory[w][m.of] = ch
      <3> SUFFICES ASSUME m.of \in Natives PROVE \E w \in Up : directory[w][m.of] = ch
        OBVIOUS
      <3>1. m.of \notin Browsers
        BY ClientsAssumption
      <3> QED BY <1>7, <3>1 DEF SourceChannels
    <2>6. CardsFrom
      <3> SUFFICES ASSUME NEW id \in Ids, NEW n \in Natives, streams'[id] # None, streams'[id].src = n
                   PROVE  \/ Card(id, n) /\ streams'[id].channel = streams[id].channel
                          \/ \E w \in Up' : directory'[w][n] = streams'[id].channel
        BY DEF CardsFrom, Card
      <3>1. CASE id = m.id
        BY <1>4, <2>4, <2>5, <3>1
      <3>2. CASE id # m.id
        BY <2>4, <3>2 DEF Card
      <3> QED BY <3>1, <3>2
    <2>7. CardKept({b})
      BY <2>4 DEF CardKept
    <2>8. StartHeard({b})
      BY <1>3, <2>4 DEF StartHeard, Is
    <2>9. LiveFrom /\ StartsKept
      <3>1. NativesLast /\ \E ids : missed' = Miss(ids, "flooded")
        BY <2>2, NoneAssumption DEF Send, NativesLast
      <3> QED BY <1>4, <3>1, MissStarts, NativesFrom
    <2> QED BY <1>3, <1>4, <2>6, <2>7, <2>8, <2>9, SameTurn
  <1> QED BY <1>6, <1>7

LEMMA AtNoticeTurn ==
    ASSUME IInv, NEW b \in Browsers, AtNotice(b)
    PROVE  Turn({b}, {})
  <1>1. PICK m \in Message : m = Head(inbox[b])
    BY HeadShape DEF AtNotice, Heads, IInv
  <1>2. PICK stops : stops = {id \in Ids : /\ directory[b][m.of] # None
                                           /\ streams[id] # None /\ streams[id].src = m.of
                                           /\ streams[id].channel # m.id}
    OBVIOUS
  <1>3. /\ inbox[b] # <<>> /\ m.type = "at" /\ TypeOK /\ inbox[b][1] = m
        /\ streams' = Retired(stops, {}) /\ directory' = [directory EXCEPT ![b][m.of] = m.id]
        /\ missed' = Miss(stops, "moved") /\ UNCHANGED <<session, place, scan, live>>
    BY <1>1, <1>2, HeadFirst DEF AtNotice, Heads, Retire, IInv
  <1>4. m.of \in Natives
    BY <1>3 DEF Message
  <1>5. Up' = Up
    BY <1>3 DEF Up
  <1>6. \A id \in Ids : /\ streams'[id] # None <=> streams[id] # None /\ id \notin stops
                        /\ streams'[id] # None => /\ streams'[id].src = streams[id].src
                                                  /\ streams'[id].channel = streams[id].channel
    BY <1>3, RetiredKeeps DEF Keys
  <1>7. DirectoryFrom({b}, {})
    <2>1. \A v \in Browsers, n \in Natives :
             directory'[v][n] = IF v = b /\ n = m.of THEN m.id ELSE directory[v][n]
      BY <1>3, <1>4 DEF TypeOK
    <2> QED BY <1>3, <1>5, <2>1 DEF DirectoryFrom, Learnt, AtOf, Up
  <1>8. MovesAlone({b}, {}) /\ CutTrue({})
    BY <1>3 DEF MovesAlone, CutTrue
  <1>9. CardsFrom
    BY <1>6 DEF CardsFrom, Card
  <1>10. MoveHeard({b})
    BY <1>2, <1>3, <1>6 DEF MoveHeard, AtOf, Card
  <1>11. CardKept({b})
    BY <1>2, <1>3, <1>6 DEF CardKept, AtOf
  <1>12. LiveFrom /\ StartsKept
    BY <1>3, SameNatives, MissStarts, NativesFrom
  <1>13. StartKept
    BY <1>12 DEF StartKept, StartsKept
  <1>14. StartHeard({b})
    BY <1>3 DEF StartHeard, Is
  <1>15. SoughtOn
    BY <1>3, <1>5 DEF SoughtOn, Sought
  <1> QED BY <1>7, <1>8, <1>9, <1>10, <1>11, <1>12, <1>13, <1>14, <1>15 DEF Turn

LEMMA DetachTurn ==
    ASSUME IInv, NEW b \in Browsers, NEW to \in {"down", "absent"}, Detach(b, to)
    PROVE  Turn({}, {b})
  <1>1. PICK stops : stops = {k \in Keys : streams[k] # None
                                /\ (k = b \/ \A v \in Browsers \ {b} : session[v] = "absent")}
    OBVIOUS
  <1>2. PICK leaves : leaves = {b} \X Viewed(b)
    OBVIOUS
  <1>3. /\ TypeOK /\ streams' = Retired(stops, leaves)
        /\ live' = [id \in Ids |-> IF id \in {i \in Ids : live[i] = b} THEN None ELSE live[id]]
        /\ session' = [session EXCEPT ![b] = to]
        /\ directory' = [directory EXCEPT ![b] = [n \in Natives |-> None]]
        /\ place' = place
    BY <1>1, <1>2 DEF Detach, Retire, IInv
  <1>4. scan'.todo = scan.todo /\ (scan.next # None => scan'.next # None)
    <2>1. scan \in ScanRecord
      BY <1>3, Types
    <2>2. \/ scan' = scan
          \/ scan' = [scan EXCEPT !.by = IF scan.by = b THEN Gone ELSE scan.by,
                                  !.next = IF scan.next = b THEN Gone ELSE scan.next]
      BY DEF Detach
    <2> QED BY <2>1, <2>2, NoneAssumption DEF ScanRecord
  <1>5. /\ \A id \in Ids : missed[id] \subseteq missed'[id]
        /\ \A id \in Ids : \A m \in ToSet(inbox[b]) :
              /\ m.type = "at" /\ streams[id] # None /\ streams[id].src = m.of =>
                    "end" \in missed'[id]
              /\ m.type = "started" /\ m.id = id /\ m.of \in Natives => "start" \in missed'[id]
    <2>1. PICK cut, moves, short :
            /\ missed' = [id \in Ids |-> missed[id]
                          \cup {"end" : m \in {x \in cut : x.id = id}
                                  \cup {x \in moves : streams[id] # None /\ streams[id].src = x.of}}
                          \cup {"start" : m \in {x \in short : x.id = id /\ x.of \in Natives}}]
            /\ moves = {m \in ToSet(inbox[b]) : m.type = "at"}
            /\ short = {m \in ToSet(inbox[b]) : m.type = "started"}
      BY DEF Detach
    <2>2. ASSUME NEW id \in Ids, NEW m \in ToSet(inbox[b]), m.type = "at",
                 streams[id] # None, streams[id].src = m.of
          PROVE  "end" \in missed'[id]
      BY <2>1, <2>2
    <2>3. ASSUME NEW id \in Ids, NEW m \in ToSet(inbox[b]), m.type = "started",
                 m.id = id, m.of \in Natives
          PROVE  "start" \in missed'[id]
      BY <2>1, <2>3
    <2>4. \A id \in Ids : missed[id] \subseteq missed'[id]
      BY <2>1
    <2> QED BY <2>2, <2>3, <2>4
  <1>6. Up' = Up \ {b}
    BY <1>3 DEF Up, TypeOK
  <1>7. \A id \in Ids : /\ streams'[id] # None <=> streams[id] # None /\ id \notin stops
                        /\ streams'[id] # None => /\ streams'[id].src = streams[id].src
                                                  /\ streams'[id].channel = streams[id].channel
    BY <1>3, RetiredKeeps DEF Keys
  <1>8. DirectoryFrom({}, {b})
    <2>1. \A v \in Up' : v \in Up /\ v # b /\ directory'[v] = directory[v]
      BY <1>3, <1>6 DEF TypeOK, Up
    <2> QED BY <2>1 DEF DirectoryFrom, Learnt
  <1>9. MovesAlone({}, {b}) /\ MoveHeard({}) /\ StartHeard({})
    BY <1>3 DEF MovesAlone, MoveHeard, StartHeard
  <1>10. CardsFrom
    BY <1>7 DEF CardsFrom, Card
  <1>11. CutTrue({b})
    <2>1. \A k \in 1..Len(inbox[b]) : inbox[b][k] \in ToSet(inbox[b])
      BY <1>3, InboxShape DEF ToSet
    <2> QED BY <1>5, <2>1 DEF CutTrue, AtOf, Card, Is
  <1>12. StartKept
    BY <1>5 DEF StartKept
  <1>13. CardKept({})
    <2>1. ASSUME NEW id \in Ids, id \in stops
          PROVE  Up' = {}
      <3>1. id # b
        BY ClientsAssumption
      <3>2. \A v \in Browsers \ {b} : session[v] = "absent"
        BY <1>1, <2>1, <3>1
      <3> QED BY <1>6, <3>2 DEF Up
    <2> QED BY <1>7, <2>1 DEF CardKept
  <1>14. LiveFrom
    <2>1. \A id \in Ids : live'[id] = None \/ live'[id] = live[id]
      BY <1>3
    <2>2. None \notin Natives
      BY NoneAssumption
    <2> QED BY <1>3, <2>1, <2>2, NativesFrom DEF NativesLast
  <1>15. SoughtOn
    BY <1>4, <1>6 DEF SoughtOn, Sought
  <1> QED BY <1>8, <1>9, <1>10, <1>11, <1>12, <1>13, <1>14, <1>15 DEF Turn

\* A pass asks for whom its session knows.
LEMMA PassesSeek ==
    ASSUME NEW entry, entry # None, NEW s \in Passes(entry), NEW n \in Publishers
    PROVE  \/ Up' = {}
           \/ \E v \in Up' : /\ entry \in Up' => v = entry
                             /\ directory'[v][n] # None => n \in s.todo
  <1> DEFINE known(b) == {c \in Queried : IF c \in Natives THEN directory'[b][c] # None
                                          ELSE c \in Up'}
             able == IF entry \in Up' THEN {entry} ELSE Up'
  <1>1. IF able = {} THEN s = Idle
        ELSE \E b \in able : s = IF known(b) = {} THEN Idle
                                 ELSE [Idle EXCEPT !.by = b, !.todo = known(b)]
    BY DEF Passes, Up
  <1>2. n \in Natives /\ n \in Queried
    BY ClientsAssumption
  <1>3. CASE able = {}
    BY <1>3
  <1>4. CASE able # {}
    <2>1. PICK v \in able : s = IF known(v) = {} THEN Idle
                                ELSE [Idle EXCEPT !.by = v, !.todo = known(v)]
      BY <1>1, <1>4
    <2>2. v \in Up' /\ (entry \in Up' => v = entry)
      OBVIOUS
    <2>3. ASSUME directory'[v][n] # None
          PROVE  n \in s.todo
      <3>1. n \in known(v)
        BY <1>2, <2>3
      <3>2. PICK todo : todo = known(v)
        OBVIOUS
      <3>3. s = [Idle EXCEPT !.by = v, !.todo = todo]
        BY <2>1, <3>1, <3>2
      <3>4. s.todo = todo
        BY <3>3 DEF Idle
      <3> QED BY <3>1, <3>2, <3>4
    <2> QED BY <2>2, <2>3
  <1> QED BY <1>3, <1>4

\* Whoever the pass does not ask for is about to be announced.
LEMMA PassFinds ==
    ASSUME IInv, Shown, Up' = Up, directory' = directory,
           NEW entry, entry # None, scan' \in Passes(entry),
           NEW id \in Ids, live[id] \in Natives, "start" \notin missed[id]
    PROVE  Up = {} \/ live[id] \in scan'.todo \/ Coming(id)
  <1>1. live[id] \in Publishers /\ place[live[id]] # None
    BY DEF Shown, LivePlaced
  <1> SUFFICES ASSUME NEW v \in Up, directory[v][live[id]] = None
               PROVE  Coming(id)
    BY <1>1, PassesSeek
  <1>2. v \in Browsers /\ Settles(inbox[v], live[id], place[live[id]], directory[v][live[id]])
    BY DEF Shown, PlaceTold, Up
  <1>3. PICK k \in 1..Len(inbox[v]) : AtOf(inbox[v][k], live[id])
    BY <1>1, <1>2 DEF Settles
  <1>4. Behind(inbox[v], k, "started", id)
    BY <1>2, <1>3 DEF Shown, MoveFollowed, AtOf
  <1> QED BY <1>2, <1>4 DEF Behind, Coming, Has

LEMMA ConnectTurn ==
    ASSUME IInv, Shown, NEW b \in Browsers, Connect(b)
    PROVE  Turn({}, {})
  <1>1. /\ TypeOK /\ session[b] = "down" /\ session' = [session EXCEPT ![b] = "up"]
        /\ directory' = [directory EXCEPT ![b] = place]
        /\ scan' \in IF scan = Idle THEN Passes(b) ELSE {[scan EXCEPT !.next = b]}
        /\ UNCHANGED <<streams, place, live, missed>>
    BY DEF Connect, registry, IInv
  <1>2. Up' = Up \cup {b} /\ b \notin Up
    BY <1>1 DEF Up, TypeOK
  <1>3. directory'[b] = place /\ \A v \in Up : directory'[v] = directory[v]
    BY <1>1, <1>2 DEF Up, TypeOK
  <1>4. DirectoryFrom({}, {})
    BY <1>1, <1>2, <1>3 DEF DirectoryFrom, Learnt
  <1>5. MovesAlone({}, {}) /\ MoveHeard({}) /\ StartHeard({}) /\ CutTrue({}) /\ StartKept
    BY <1>1 DEF MovesAlone, MoveHeard, StartHeard, CutTrue, StartKept
  <1>6. CardsFrom /\ CardKept({})
    BY <1>1 DEF CardsFrom, CardKept, Card
  <1>7. LiveFrom
    BY <1>1, SameNatives, NativesFrom
  <1>8. SoughtOn
    <2> SUFFICES ASSUME NEW id \in Ids, NEW n \in Natives, live[id] = n
                 PROVE  Sought(n)'
      BY <1>1 DEF SoughtOn
    <2>1. n \in Publishers /\ place[n] # None
      BY DEF Shown, LivePlaced
    <2>2. b # None
      BY NoneAssumption
    <2>3. CASE scan = Idle
      <3>1. scan' \in Passes(b)
        BY <1>1, <2>3
      <3>2. n \in scan'.todo
        BY <1>2, <1>3, <2>1, <2>2, <3>1, PassesSeek
      <3> QED BY <3>2 DEF Sought
    <2>4. CASE scan # Idle
      <3>1. scan' = [scan EXCEPT !.next = b] /\ scan \in ScanRecord
        BY <1>1, <2>4, Types
      <3>2. scan'.next = b
        BY <3>1 DEF ScanRecord
      <3> QED BY <2>2, <3>2 DEF Sought
    <2> QED BY <2>3, <2>4
  <1> QED BY <1>4, <1>5, <1>6, <1>7, <1>8 DEF Turn

LEMMA NativeMoveTurn ==
    ASSUME IInv, NEW n \in Natives, NEW ch \in Channels \cup {None}, NativeMove(n, ch)
    PROVE  Turn({}, {})
  <1>1. PICK own : own = {id \in Ids : live[id] = n}
    OBVIOUS
  <1>2. PICK stale : stale = {id \in Ids : streams[id] # None /\ streams[id].src = n}
    OBVIOUS
  <1>3. /\ TypeOK /\ n \in Publishers /\ place' = [place EXCEPT ![n] = ch]
        /\ live' = [id \in Ids |-> IF id \in own /\ ch = None THEN None ELSE live[id]]
        /\ missed' = [id \in Ids |-> missed[id]
              \cup (IF id \in own THEN {"start"} ELSE {})
              \cup {"end" : i \in IF Up = {} THEN (own \cup stale) \cap {id} ELSE {}}]
        /\ UNCHANGED <<session, directory, streams, scan>>
    BY <1>1, <1>2 DEF NativeMove, sessions, registry, IInv
  <1>4. Up' = Up
    BY <1>3 DEF Up
  <1>5. \A i \in Natives : place'[i] = IF i = n THEN ch ELSE place[i]
    BY <1>3 DEF TypeOK
  <1>6. \A id \in Ids : missed[id] \subseteq missed'[id]
    BY <1>3
  <1>7. MovesAlone({}, {})
    <2>1. Up = {} => \A id \in stale : "end" \in missed'[id]
      BY <1>2, <1>3
    <2> QED BY <1>2, <1>3, <1>4, <1>5, <2>1 DEF MovesAlone, Card
  <1>8. LiveFrom
    <2> SUFFICES ASSUME NEW id \in Ids, live'[id] \in Natives
                 PROVE  \/ live'[id] \in Publishers /\ place'[live'[id]] # None
                        \/ live[id] = live'[id] /\ place'[live[id]] = place[live[id]]
      BY DEF LiveFrom
    <2>1. live'[id] = live[id] /\ ~(id \in own /\ ch = None)
      BY <1>3, NoneAssumption
    <2> QED BY <1>1, <1>3, <1>5, <2>1
  <1>9. DirectoryFrom({}, {})
    BY <1>3, <1>4 DEF DirectoryFrom, Learnt
  <1>10. MoveHeard({}) /\ StartHeard({}) /\ CutTrue({}) /\ StartKept
    BY <1>6 DEF MoveHeard, StartHeard, CutTrue, StartKept
  <1>11. CardsFrom /\ CardKept({})
    BY <1>3 DEF CardsFrom, CardKept, Card
  <1>12. SoughtOn
    BY <1>3, <1>4 DEF SoughtOn, Sought
  <1> QED BY <1>7, <1>8, <1>9, <1>10, <1>11, <1>12 DEF Turn

\* A step of discovery.
LEMMA ScanTurn ==
    ASSUME IInv, Up' = Up, UNCHANGED <<directory, streams, place, live>>, StartKept, SoughtOn
    PROVE  Turn({}, {})
  <1>1. DirectoryFrom({}, {}) /\ MovesAlone({}, {})
    BY DEF DirectoryFrom, Learnt, MovesAlone
  <1>2. MoveHeard({}) /\ StartHeard({}) /\ CutTrue({})
    BY DEF MoveHeard, StartHeard, CutTrue
  <1>3. CardsFrom /\ CardKept({})
    BY DEF CardsFrom, CardKept, Card
  <1>4. LiveFrom
    BY SameNatives, NativesFrom
  <1> QED BY <1>1, <1>2, <1>3, <1>4 DEF Turn

LEMMA ScanBreakTurn ==
    ASSUME IInv, Shown, ScanBreak
    PROVE  Turn({}, {})
  <1>1. PICK ids : ids = {id \in Ids : live[id] \in scan.todo \cap Natives}
    OBVIOUS
  <1>2. /\ TypeOK /\ UNCHANGED <<session, directory, streams, inbox, place, live>>
        /\ missed' = IF scan.next = None \/ Up = {} THEN Miss(ids, "start") ELSE missed
        /\ scan' \in Passes(scan.next)
    BY <1>1 DEF ScanBreak, BrokenPass, sessions, registry, IInv
  <1>3. Up' = Up
    BY <1>2 DEF Up
  <1>4. \A id \in Ids : missed[id] \subseteq missed'[id]
    BY <1>2, MissAdds
  <1>5. StartKept
    BY <1>4 DEF StartKept
  <1>6. SoughtOn
    <2> SUFFICES ASSUME NEW id \in Ids, NEW n \in Natives, live[id] = n,
                        "start" \notin missed'[id], Up # {}, Sought(n)
                 PROVE  Sought(n)' \/ Coming(id)'
      BY <1>2, <1>3 DEF SoughtOn
    <2>1. CASE scan.next = None
      <3>1. n \in scan.todo /\ missed' = Miss(ids, "start")
        BY <1>2, <2>1 DEF Sought
      <3>2. id \in ids
        BY <1>1, <3>1
      <3> QED BY <1>2, <3>1, <3>2, MissAdds
    <2>2. CASE scan.next # None
      <3>1. n \in scan'.todo \/ Coming(id)
        BY <1>2, <1>3, <1>4, <2>2, PassFinds
      <3>2. Coming(id) => Coming(id)'
        BY <1>2 DEF Coming
      <3> QED BY <3>1, <3>2 DEF Sought
    <2> QED BY <2>1, <2>2
  <1> QED BY <1>2, <1>3, <1>5, <1>6, ScanTurn

LEMMA ScanAskTurn ==
    ASSUME IInv, Shown, NEW c \in Clients, ScanAsk(c)
    PROVE  Turn({}, {})
  <1>1. PICK own \in SUBSET Ids : own = {id \in Ids : live[id] = c}
    OBVIOUS
  <1>2. /\ TypeOK /\ scan.by \in Up /\ scan.by \in Browsers /\ c \in scan.todo
        /\ UNCHANGED <<session, directory, streams, place, live>>
        /\ scan' \in IF scan.todo = {c} THEN Passes(scan.next) ELSE {[scan EXCEPT !.todo = @ \ {c}]}
    BY DEF ScanAsk, sessions, registry, IInv, Up
  <1>3. Up' = Up
    BY <1>2 DEF Up
  <1>4. PICK b \in Browsers : b = scan.by
    BY <1>2
  \* The answer describes each stream of the client, or they are missed.
  <1>5. \/ /\ \A id \in own : Coming(id)'
           /\ \A id \in Ids : missed[id] \ {"start"} \subseteq missed'[id]
           /\ \A id \in Ids : "start" \in missed[id] \ missed'[id] =>
                 id \in own /\ \A v \in Browsers : inbox[v] = <<>>
           /\ \A id \in Ids : Coming(id) => Coming(id)'
        \/ /\ inbox' = inbox /\ \A id \in Ids : missed[id] \subseteq missed'[id]
           /\ c \in Natives => \A id \in own : "start" \in missed'[id]
    <2>1. CASE \E order \in SetToSeqs(own) :
                 inbox' = [inbox EXCEPT ![scan.by] = @ \o Notices("started", order, c)]
               /\ missed' = IF \A v \in Browsers : inbox[v] = <<>>
                            THEN [id \in Ids |-> missed[id] \ {"start" : i \in own \cap {id}}]
                            ELSE missed
      <3>1. PICK order \in SetToSeqs(own) :
                 inbox' = [inbox EXCEPT ![b] = inbox[b] \o Notices("started", order, c)]
        BY <1>4, <2>1
      <3>2. PICK more \in Seq(Message) : more = Notices("started", order, c)
        BY NoticesShape
      <3>3. ToSet(more) = {Msg("started", id, c) : id \in own}
        BY <3>2, NoticesAll
      <3>4. inbox' = [inbox EXCEPT ![b] = inbox[b] \o more]
        BY <3>1, <3>2
      <3>5. inbox'[b] = inbox[b] \o more /\ \A v \in Browsers : v # b => inbox'[v] = inbox[v]
        BY <1>2, <3>4 DEF TypeOK
      <3>6. ASSUME NEW q \in Seq(Message), NEW id,
                   Has(q, "started", id) \/ Msg("started", id, c) \in ToSet(more)
            PROVE  Has(q \o more, "started", id)
        <4>1. CASE Has(q, "started", id)
          <5>1. PICK k \in 1..Len(q) : Is(q[k], "started", id)
            BY <4>1 DEF Has
          <5>2. k \in 1..Len(q \o more) /\ (q \o more)[k] = q[k]
            OBVIOUS
          <5> QED BY <5>1, <5>2 DEF Has
        <4>2. CASE Msg("started", id, c) \in ToSet(more)
          <5>1. PICK k \in 1..Len(more) : more[k] = Msg("started", id, c)
            BY <4>2 DEF ToSet
          <5>2. Len(q) + k \in 1..Len(q \o more) /\ (q \o more)[Len(q) + k] = more[k]
            OBVIOUS
          <5>3. Is(more[k], "started", id)
            BY <5>1 DEF Is, Msg
          <5> QED BY <5>2, <5>3 DEF Has
        <4> QED BY <3>6, <4>1, <4>2
      <3>7. inbox[b] \in Seq(Message)
        BY <1>2, InboxShape
      <3>8. \A id \in own : Coming(id)'
        BY <3>3, <3>5, <3>6, <3>7 DEF Coming
      <3>9. \A id \in Ids : Coming(id) => Coming(id)'
        <4> SUFFICES ASSUME NEW id \in Ids, NEW v \in Browsers, Has(inbox[v], "started", id)
                     PROVE  Has(inbox'[v], "started", id)
          BY DEF Coming
        <4> QED BY <3>5, <3>6, <3>7
      <3>10. /\ \A id \in Ids : missed[id] \ {"start"} \subseteq missed'[id]
             /\ \A id \in Ids : "start" \in missed[id] \ missed'[id] =>
                   id \in own /\ \A v \in Browsers : inbox[v] = <<>>
        <4>1. CASE missed' = missed
          BY <4>1
        <4>2. CASE /\ \A v \in Browsers : inbox[v] = <<>>
                   /\ missed' = [id \in Ids |-> missed[id] \ {"start" : i \in own \cap {id}}]
          BY <4>2
        <4> QED BY <2>1, <4>1, <4>2
      <3> QED BY <3>8, <3>9, <3>10
    <2>2. CASE inbox' = inbox /\ missed' = IF c \in Natives THEN Miss(own, "start") ELSE missed
      BY <1>2, <2>2, MissAdds
    <2> QED BY <1>1, <2>1, <2>2 DEF ScanAsk
  <1>6. StartKept
    BY <1>5 DEF StartKept
  <1>7. SoughtOn
    <2> SUFFICES ASSUME NEW id \in Ids, NEW n \in Natives, live[id] = n,
                        "start" \notin missed'[id], Sought(n)
                 PROVE  Sought(n)' \/ Coming(id)'
      BY <1>2, <1>3 DEF SoughtOn
    <2>1. CASE n = c
      BY <1>1, <1>5, <2>1
    <2>2. CASE n # c
      <3>1. "start" \notin missed[id] /\ (Coming(id) => Coming(id)')
        <4>1. inbox' = inbox => (Coming(id) => Coming(id)')
          BY DEF Coming
        <4> QED BY <1>1, <1>5, <2>2, <4>1
      <3>2. CASE scan.todo = {c}
        <4>1. scan.next # None /\ scan' \in Passes(scan.next)
          BY <1>2, <2>2, <3>2 DEF Sought
        <4>2. n \in scan'.todo \/ Coming(id)
          BY <1>2, <1>3, <3>1, <4>1, PassFinds
        <4> QED BY <3>1, <4>2 DEF Sought
      <3>3. CASE scan.todo # {c}
        <4>1. scan' = [scan EXCEPT !.todo = scan.todo \ {c}] /\ scan \in ScanRecord
          BY <1>2, <3>3, Types
        <4>2. scan'.todo = scan.todo \ {c} /\ scan'.next = scan.next
          BY <4>1 DEF ScanRecord
        <4> QED BY <2>2, <4>2 DEF Sought
      <3> QED BY <3>2, <3>3
    <2> QED BY <2>1, <2>2
  <1> QED BY <1>2, <1>3, <1>6, <1>7, ScanTurn

-----------------------------------------------------------------------------
(* The cards are the streams of the native users. *)

LEMMA ShownInit == Init => Shown
  <1> SUFFICES ASSUME Init PROVE Shown
    OBVIOUS
  <1>1. /\ Up = {} /\ \A v \in Browsers : inbox[v] = <<>> /\ Len(inbox[v]) = 0
        /\ \A id \in Ids : live[id] = None /\ streams[id] = None
    BY DEF Init, Keys, Up
  <1>2. None \notin Natives
    BY NoneAssumption
  <1> QED BY <1>1, <1>2 DEF Shown, PlaceTold, CardPlaced, Card, MoveFollowed, LivePlaced, Found

LEMMA ShownNext ==
    ASSUME IInv, IInv', Published, Shown, [Next]_vars
    PROVE  Shown'
  <1>1. OnlyUp
    BY DEF Published
  <1>2. ASSUME NEW b \in Browsers,
               \/ Arrive(b) \/ Connect(b) \/ Detach(b, "down") \/ Detach(b, "absent")
               \/ Start(b) \/ Stop(b)
        PROVE  Shown'
    <2>1. CASE Arrive(b) \/ Connect(b)
      BY <1>1, <2>1, ArriveStep, ArriveTurn, ConnectStep, ConnectTurn, ShownStep
    <2>2. CASE Detach(b, "down") \/ Detach(b, "absent")
      BY <2>2, DetachStep, DetachTurn, ShownStep
    <2>3. CASE Start(b) \/ Stop(b)
      BY <1>1, <2>3, StartStep, StartTurn, StopStep, StopTurn, ShownStep
    <2> QED BY <1>2, <2>1, <2>2, <2>3
  <1>3. ASSUME NEW b \in Browsers, Handle(b)
        PROVE  Shown'
    <2>1. CASE OwnStarted(b)
      BY <1>1, <2>1, OwnStartedStep, OwnStartedTurn, ShownStep
    <2>2. CASE CardStarted(b)
      <3>1. b \in Up
        BY <1>1, <2>2 DEF CardStarted, Heads, OnlyUp
      <3> QED BY <1>1, <2>2, <3>1, CardStartedStep, CardStartedTurn, ShownStep
    <2>3. CASE StoppedNotice(b) \/ AtNotice(b)
      BY <1>1, <2>3, StoppedNoticeStep, StoppedNoticeTurn, AtNoticeStep, AtNoticeTurn, ShownStep
    <2>4. CASE JoinAskedNotice(b) \/ ClientLeftNotice(b) \/ RemovedAnswer(b)
      BY <1>1, <2>4, AudienceNoticeStep, AudienceNoticeTurn, ClientLeftStep, ClientLeftTurn,
         ShownStep
    <2>5. CASE JoinRefusedAnswer(b)
      BY <1>1, <2>5, JoinRefusedStep, JoinRefusedTurn, ShownStep
    <2> QED BY <1>3, <2>1, <2>2, <2>3, <2>4, <2>5 DEF Handle
  <1>4. ASSUME NEW b \in Browsers,
               \/ \E ch \in Channels : BrowserMove(b, ch)
               \/ \E k \in Keys : Join(b, k) \/ Leave(b, k)
               \/ \E n \in Natives : Evict(b, n)
        PROVE  Shown'
    <2>1. CASE \E ch \in Channels : BrowserMove(b, ch)
      BY <1>1, <2>1, BrowserMoveStep, BrowserMoveTurn, ShownStep
    <2>2. CASE \E k \in Keys : Join(b, k) \/ Leave(b, k)
      BY <1>1, <2>2, JoinStep, JoinTurn, LeaveStep, LeaveTurn, ShownStep
    <2>3. CASE \E n \in Natives : Evict(b, n)
      BY <1>1, <2>3, EvictStep, EvictTurn, ShownStep
    <2> QED BY <1>4, <2>1, <2>2, <2>3
  <1>5. ASSUME NEW n \in Natives,
               \/ \E id \in Ids : Publish(n, id) \/ Watch(n, id) \/ Unwatch(n, id)
               \/ \E ch \in Channels \cup {None} : NativeMove(n, ch)
        PROVE  Shown'
    <2>1. CASE \E id \in Ids : Publish(n, id)
      BY <1>1, <2>1, PublishStep, PublishTurn, ShownStep
    <2>2. CASE \E id \in Ids : Watch(n, id) \/ Unwatch(n, id)
      BY <1>1, <2>2, WatchStep, UnwatchStep, WatchTurn, ShownStep
    <2>3. CASE \E ch \in Channels \cup {None} : NativeMove(n, ch)
      BY <1>1, <2>3, NativeMoveStep, NativeMoveTurn, ShownStep
    <2> QED BY <1>5, <2>1, <2>2, <2>3
  <1>6. ASSUME \/ \E c \in retry : Resend(c)
               \/ \E id \in Ids : EndStream(id)
        PROVE  Shown'
    BY <1>1, <1>6, ResendStep, ResendTurn, EndStreamStep, EndStreamTurn, ShownStep
  <1>7. ASSUME ScanBreak \/ \E c \in Clients : ScanAsk(c)
        PROVE  Shown'
    BY <1>1, <1>7, ScanBreakStep, ScanBreakTurn, ScanAskStep, ScanAskTurn, ShownStep
  <1>8. CASE UNCHANGED vars
    <2>1. UNCHANGED <<session, directory, streams, scan, inbox, retry, place, live, missed>>
          /\ TypeOK
      BY <1>8 DEF vars, IInv
    <2>2. Up' = Up
      BY <2>1 DEF Up
    <2>3. Step({}, Nobody, Nobody, {})
      BY <1>1, <2>1, <2>2, NobodyFlow, SameRefs, SameMissed, MoreWaits, CalmStep
    <2>4. Turn({}, {})
      BY <2>1, <2>2, SameRefs, SameNatives, SameStarts, IdleTurn
    <2> QED BY <2>3, <2>4, ShownStep
  <1> QED BY <1>2, <1>3, <1>4, <1>5, <1>6, <1>7, <1>8 DEF Next

LEMMA ShownAgrees ==
    ASSUME IInv, Published, Shown
    PROVE  CardsAgree
  <1> SUFFICES ASSUME Quiet, NEW id \in Ids
               PROVE  /\ streams[id] # None /\ "end" \notin missed[id] =>
                            /\ live[id] = streams[id].src
                            /\ live[id] \in Natives => place[live[id]] = streams[id].channel
                      /\ Up # {} /\ live[id] \in Natives /\ "start" \notin missed[id] =>
                            streams[id] # None
    BY DEF CardsAgree
  <1>1. scan = Idle /\ \A v \in Browsers : inbox[v] = <<>> /\ Len(inbox[v]) = 0
    BY DEF Quiet
  <1>2. ~Coming(id) /\ ~Ending(id) /\ \A n \in Natives : ~Doomed(id, n)
    BY <1>1 DEF Coming, Ending, Has, Doomed, DoomedBy, Up
  <1>3. \A n \in Natives : ~Sought(n)
    BY <1>1 DEF Sought, Idle
  <1>4. ASSUME streams[id] # None, "end" \notin missed[id]
        PROVE  /\ live[id] = streams[id].src
               /\ live[id] \in Natives => place[live[id]] = streams[id].channel
    <2>1. streams[id].src \in Clients
      BY <1>4, EntryShape, StreamShape DEF IInv, Keys
    <2>2. live[id] = streams[id].src
      BY <1>2, <1>4, <2>1 DEF Published, RefTrue, Card
    <2> QED BY <1>2, <1>4, <2>2 DEF Shown, CardPlaced, Card
  <1>5. Up # {} /\ live[id] \in Natives /\ "start" \notin missed[id] => streams[id] # None
    BY <1>2, <1>3 DEF Shown, Found
  <1> QED BY <1>4, <1>5

LEMMA ShownAlways == Spec => []Shown
  BY Invariance, PublishedAlways, ShownInit, ShownNext, PTL DEF Spec

(* Once everything is handled, the cards are the live native streams, each in the
   channel of its source: a card in another channel is doomed by a move that a
   connected session is still to handle, and a stream without a card is about
   to be announced or asked for (onClientMove, discoverExistingStreams). Left out
   are an end or move that no connected session could tell, and a stream whose
   announcement and query were both lost with a session. *)
THEOREM CardsSettle == Spec => []CardsAgree
  BY Invariance, PublishedAlways, ShownAlways, ShownAgrees, PTL

-----------------------------------------------------------------------------
(* Messages about one viewer of a stream. *)

Names(m, types, id, n) == m.type \in types /\ m.id = id /\ m.of = n

\* Such a message is in q behind position k.
After(q, k, types, id, n) == \E j \in 1..Len(q) : j > k /\ Names(q[j], types, id, n)

Says(ms, types, id, n) == \E m \in ms : Names(m, types, id, n)

LEMMA AfterPassed ==
    ASSUME NEW q \in Seq(Message), NEW r \in Seq(Message), NEW s \in {0, 1},
           NEW out, NEW new, Passed(q, r, s, out, new),
           NEW types, NEW id, NEW n, NEW k \in Nat
    PROVE  /\ After(q, k + s, types, id, n) => After(r, k, types, id, n)
           /\ After(r, k, types, id, n) => After(q, k + s, types, id, n) \/ Says(new, types, id, n)
           /\ k <= Len(q) - s /\ Says(new, types, id, n) => After(r, k, types, id, n)
  <1>1. ASSUME NEW j \in 1..Len(q), j > k + s, Names(q[j], types, id, n)
        PROVE  After(r, k, types, id, n)
    <2>1. j > s
      BY <1>1
    <2>2. PICK i \in 1..Len(r) : /\ i + s = j
                                 /\ r[i].type = q[j].type /\ r[i].id = q[j].id /\ r[i].of = q[j].of
      BY <2>1, PassedAt
    <2>3. i > k
      BY <1>1, <2>2
    <2> QED BY <1>1, <2>2, <2>3 DEF After, Names
  <1>2. ASSUME NEW j \in 1..Len(r), j > k, Names(r[j], types, id, n)
        PROVE  After(q, k + s, types, id, n) \/ Says(new, types, id, n)
    <2>1. CASE j > Len(q) - s
      BY <1>2, <2>1, PassedShape DEF Says
    <2>2. CASE j <= Len(q) - s
      <3>1. /\ j + s \in 1..Len(q)
            /\ r[j].type = q[j + s].type /\ r[j].id = q[j + s].id /\ r[j].of = q[j + s].of
        BY <2>2, PassedShape
      <3>2. j + s > k + s
        BY <1>2
      <3> QED BY <1>2, <3>1, <3>2 DEF After, Names
    <2>3. Len(q) \in Nat
      OBVIOUS
    <2> QED BY <2>1, <2>2, <2>3
  <1>3. ASSUME k <= Len(q) - s, NEW m \in new, Names(m, types, id, n)
        PROVE  After(r, k, types, id, n)
    <2>1. PICK j \in 1..Len(r) : j > Len(q) - s /\ r[j] = m
      BY PassedShape
    <2>2. j > k
      BY <1>3, <2>1
    <2> QED BY <1>3, <2>1, <2>2 DEF After
  <1> QED BY <1>1, <1>2, <1>3 DEF After, Says

\* What a session is sent depends on its queues only.
LEMMA NewUnique ==
    ASSUME NEW heads, NEW lost, NEW out, NEW new, Flow(heads, out, new, lost),
           NEW other, NEW more, Flow(heads, other, more, lost), NEW v \in Browsers, v \notin lost
    PROVE  \A m \in new[v] : m \in more[v]
  <1>1. PICK s : s = IF v \in heads THEN 1 ELSE 0
    OBVIOUS
  <1>2. /\ Passed(inbox[v], inbox'[v], s, out[v], new[v])
        /\ Passed(inbox[v], inbox'[v], s, other[v], more[v])
    BY <1>1 DEF Flow
  <1> QED BY <1>2 DEF Passed

-----------------------------------------------------------------------------
(* The inductive invariant: who is in the audience of a stream, and whom the
   gateway counts. *)

Counts(b, id, n) == Linked(b, id) /\ n \in streams[b].natives
Watches(v, id) == streams[id] # None /\ v \in streams[id].viewers

\* The gateway may be wrong about the audience of such a stream.
Marks == {"moved", "flooded", "crossed", "abandoned"}
Marked(id) == \E x \in Marks : x \in missed[id]

\* The answer that ends the membership is to be handled.
Refusing(q, id) == \E k \in 1..Len(q) : Is(q[k], "joinRefused", id) /\ q[k].current

\* The announcement of id to its owner b is in q before position k.
Before(q, k, id, b) ==
    \E j \in 1..Len(q) : j < k /\ Is(q[j], "started", id) /\ q[j].of = b /\ Own(q[j])

Audible == \A id \in Ids : live[id] = None => audience[id] = {}

Flooded == \A c \in retry : "flooded" \in missed[c.id]

Bare == \A b \in Browsers : streams[b] # None /\ streams[b].link = None => streams[b].natives = {}

Addressed ==
    \A v \in Browsers, id \in Ids : \A k \in 1..Len(inbox[v]) :
       Is(inbox[v][k], "clientLeft", id) /\ live[id] \in Browsers =>
          live[id] = v \/ "flooded" \in missed[id]

AskedTrue ==
    \A b \in Browsers, id \in Ids, n \in Natives : \A k \in 1..Len(inbox[b]) :
       live[id] = b /\ Names(inbox[b][k], {"joinAsked"}, id, n) =>
          \/ "flooded" \in missed[id] \/ n \in audience[id]
          \/ After(inbox[b], k, {"clientLeft"}, id, n)

NativesTrue ==
    \A b \in Browsers, id \in Ids, n \in Natives :
       live[id] = b /\ Counts(b, id, n) =>
          \/ "flooded" \in missed[id] \/ n \in audience[id]
          \/ After(inbox[b], 0, {"clientLeft"}, id, n)

\* A native viewer is counted, or the owner is still to handle the request.
Parts == {"clientLeft", "removed"}
Seen(b, id, n) ==
    \/ Counts(b, id, n) /\ ~After(inbox[b], 0, Parts, id, n)
    \/ \E k \in 1..Len(inbox[b]) :
          /\ Names(inbox[b][k], {"joinAsked"}, id, n) /\ ~After(inbox[b], k, Parts, id, n)
          /\ Linked(b, id) \/ Before(inbox[b], k, id, b)

NativesKnown ==
    \A b \in Browsers, id \in Ids, n \in Natives :
       live[id] = b /\ n \in audience[id] /\ ~Marked(id) => Seen(b, id, n)

ViewersTrue ==
    \A id \in Ids, n \in Natives, v \in Browsers :
       Card(id, n) /\ live[id] = n /\ Watches(v, id) /\ "end" \notin missed[id] =>
          \/ "flooded" \in missed[id] \/ v \in audience[id]
          \/ Refusing(inbox[v], id) \/ Doomed(id, n)

ViewersKnown ==
    \A id \in Ids, v \in Browsers : v \in audience[id] => Marked(id) \/ Watches(v, id)

Seated ==
    /\ Audible /\ Flooded /\ Bare /\ Addressed /\ AskedTrue /\ NativesTrue /\ NativesKnown
    /\ ViewersTrue /\ ViewersKnown

-----------------------------------------------------------------------------
(* What a step does to audiences and viewers; sessions and messages as in Step. *)

AudienceFrom(new) ==
    \A id \in Ids, c \in Clients : c \in audience'[id] =>
       /\ live'[id] = live[id]
       /\ \/ c \in audience[id]
          \/ c \in Browsers /\ live[id] # None /\ Watches(c, id)'
          \/ c \in Natives /\ live[id] \in Browsers /\ Says(new[live[id]], {"joinAsked"}, id, c)

AudienceKept(new) ==
    \A id \in Ids, n \in Natives, b \in Browsers :
       n \in audience[id] /\ live[id] = b /\ live'[id] = b =>
          n \in audience'[id] \/ "flooded" \in missed'[id] \/ Says(new[b], {"clientLeft"}, id, n)

SeatKept ==
    \A id \in Ids, n \in Natives, v \in Browsers :
       v \in audience[id] /\ live[id] = n /\ live'[id] = n /\ Watches(v, id)' =>
          v \in audience'[id] \/ "flooded" \in missed'[id] \/ place'[n] # place[n]

CountsFrom(heads) ==
    \A b \in Browsers, id \in Ids, n \in Natives : Counts(b, id, n)' =>
       Counts(b, id, n) \/ (b \in heads /\ Names(inbox[b][1], {"joinAsked"}, id, n))

LeftHeard(heads) ==
    \A b \in heads, id \in Ids, n \in Natives :
       Names(inbox[b][1], {"clientLeft"}, id, n) => ~Counts(b, id, n)'

CountsKept(heads) ==
    \A b \in Browsers, id \in Ids, n \in Natives :
       Counts(b, id, n) /\ live[id] = b /\ live'[id] = b =>
          \/ Counts(b, id, n)' \/ Marked(id)'
          \/ \E v \in heads : Names(inbox[v][1], {"clientLeft"}, id, n)
          \/ b \in heads /\ Names(inbox[b][1], {"removed"}, id, n)

AskedHeard(heads) ==
    \A b \in heads, id \in Ids, n \in Natives :
       Names(inbox[b][1], {"joinAsked"}, id, n) /\ Linked(b, id) => Counts(b, id, n)'

NewSeats(new, lost) ==
    \A v \in Browsers \ lost : \A m \in new[v] :
       /\ m.type = "joinAsked" => m.of \in audience'[m.id]
       /\ m.type = "clientLeft" /\ live'[m.id] \in Browsers =>
             live'[m.id] = v \/ "flooded" \in missed'[m.id]
       /\ m.type \in Parts => m.of \notin audience'[m.id]

WatchesFrom ==
    \A id \in Ids, n \in Natives, v \in Browsers : Watches(v, id)' /\ live'[id] = n =>
       \/ Watches(v, id) /\ streams'[id].channel = streams[id].channel
       \/ v \in audience'[id] \/ Refusing(inbox'[v], id)

WatchesOn ==
    \A id \in Ids, v \in Browsers :
       Watches(v, id) /\ v \in audience'[id] => Watches(v, id)' \/ Marked(id)'

RefusedKept ==
    \A id \in Ids, v \in Browsers :
       Watches(v, id) /\ Watches(v, id)' /\ Refusing(inbox[v], id) => Refusing(inbox'[v], id)

MarksKept ==
    \A id \in Ids, x \in Marks : x \in missed[id] => x \in missed'[id] \/ Fresh(id)

\* The audience, the native viewers counted, the viewers of cards, and the rest.
AudiencePart(new) == AudienceFrom(new) /\ AudienceKept(new) /\ SeatKept
CountsPart(heads) ==
    Bare' /\ CountsFrom(heads) /\ LeftHeard(heads) /\ CountsKept(heads) /\ AskedHeard(heads)
WatchesPart == WatchesFrom /\ WatchesOn /\ RefusedKept
MarksPart(new, lost) == NewSeats(new, lost) /\ Flooded' /\ MarksKept

Seats(heads, new, lost) ==
    AudiencePart(new) /\ CountsPart(heads) /\ WatchesPart /\ MarksPart(new, lost)

-----------------------------------------------------------------------------
(* Every step keeps it. *)

LEMMA MarkStays ==
    ASSUME MarksKept, NEW id \in Ids, ~Fresh(id)
    PROVE  /\ "flooded" \in missed[id] => "flooded" \in missed'[id]
           /\ Marked(id) => Marked(id)'
  BY DEF MarksKept, Marked, Marks

LEMMA LiveStays ==
    ASSUME NEW new, NEW lost, LiveTrue(new, lost), NEW id \in Ids, ~Fresh(id), live'[id] # None
    PROVE  live[id] = live'[id]
  BY DEF LiveTrue, Ended

\* An id in a queue is not fresh.
LEMMA QueuedKnown ==
    ASSUME TypeOK, NEW v \in Browsers, NEW n \in 1..Len(inbox[v]), NEW id \in Ids,
           inbox[v][n].id = id
    PROVE  ~Fresh(id)
  BY FreshShape

LEMMA HeadIs ==
    ASSUME TypeOK, NEW heads, NEW lost, Actors(heads, lost), NEW v \in heads
    PROVE  v \in Browsers /\ v \notin lost /\ 1 \in 1..Len(inbox[v])
  BY InboxShape DEF Actors

LEMMA AudibleStep ==
    ASSUME IInv, IInv', Audible, NEW new, AudienceFrom(new)
    PROVE  Audible'
  <1>1. ASSUME NEW id \in Ids, live'[id] = None, NEW c \in audience'[id]
        PROVE  FALSE
    <2>1. c \in Clients
      BY DEF IInv, TypeOK
    <2>2. live[id] = None /\ c \in audience[id]
      BY <1>1, <2>1, NoneAssumption DEF AudienceFrom
    <2> QED BY <2>2 DEF Audible
  <1> QED BY <1>1 DEF Audible

LEMMA AddressedStep ==
    ASSUME IInv, IInv', Addressed, NEW heads, NEW out, NEW new, NEW lost,
           Step(heads, out, new, lost), MarksPart(new, lost)
    PROVE  Addressed'
  <1>1. /\ TypeOK /\ TypeOK' /\ Flow(heads, out, new, lost) /\ LiveTrue(new, lost)
        /\ NewSeats(new, lost) /\ MarksKept
    BY DEF IInv, Step, MarksPart
  <1> SUFFICES ASSUME NEW v \in Browsers, NEW id \in Ids, NEW n \in 1..Len(inbox'[v]),
                      Is(inbox'[v][n], "clientLeft", id), live'[id] \in Browsers
               PROVE  live'[id] = v \/ "flooded" \in missed'[id]
    BY DEF Addressed
  <1>2. CASE inbox'[v][n] \in new[v]
    BY <1>1, <1>2, Traced DEF NewSeats, Is
  <1>3. ASSUME NEW k \in 1..Len(inbox[v]), Comes(inbox[v], k, inbox'[v], n, out[v], new[v])
        PROVE  live'[id] = v \/ "flooded" \in missed'[id]
    <2>1. Is(inbox[v][k], "clientLeft", id)
      BY <1>3 DEF Is, Comes
    <2>2. ~Fresh(id)
      BY <1>1, <2>1, QueuedKnown DEF Is
    <2>3. live[id] = live'[id]
      BY <1>1, <2>2, LiveStays, NoneAssumption
    <2>4. live[id] = v \/ "flooded" \in missed[id]
      BY <2>1, <2>3 DEF Addressed
    <2> QED BY <1>1, <2>2, <2>3, <2>4, MarkStays
  <1> QED BY <1>1, <1>2, <1>3, Traced

\* How the queue of the owner of a stream changes.
LEMMA OwnerQueue ==
    ASSUME TypeOK, TypeOK', NEW heads, NEW out, NEW new, NEW lost, Flow(heads, out, new, lost),
           Actors(heads, lost), NEW b \in Browsers, NEW id \in Ids, live'[id] = b
    PROVE  /\ b \notin lost /\ inbox[b] \in Seq(Message) /\ inbox'[b] \in Seq(Message)
           /\ \E s \in {0, 1} : /\ Passed(inbox[b], inbox'[b], s, out[b], new[b])
                                /\ s = 1 <=> b \in heads
  <1>1. b \notin lost
    BY DEF Actors
  <1> QED BY <1>1 DEF Flow, TypeOK

LEMMA AskedStep ==
    ASSUME IInv, IInv', AskedTrue, NEW heads, NEW out, NEW new, NEW lost,
           Step(heads, out, new, lost), AudienceKept(new), MarksPart(new, lost)
    PROVE  AskedTrue'
  <1>1. /\ TypeOK /\ TypeOK' /\ Flow(heads, out, new, lost) /\ LiveTrue(new, lost)
        /\ Actors(heads, lost) /\ NewSeats(new, lost) /\ MarksKept
    BY DEF IInv, Step, MarksPart
  <1> SUFFICES ASSUME NEW b \in Browsers, NEW id \in Ids, NEW n \in Natives,
                      NEW i \in 1..Len(inbox'[b]), live'[id] = b,
                      Names(inbox'[b][i], {"joinAsked"}, id, n)
               PROVE  \/ "flooded" \in missed'[id] \/ n \in audience'[id]
                      \/ After(inbox'[b], i, {"clientLeft"}, id, n)
    BY DEF AskedTrue
  <1>2. b \notin lost /\ inbox[b] \in Seq(Message) /\ inbox'[b] \in Seq(Message)
    BY <1>1, OwnerQueue
  <1>3. PICK s \in {0, 1} : /\ Passed(inbox[b], inbox'[b], s, out[b], new[b])
                            /\ s = 1 <=> b \in heads
    BY <1>1, OwnerQueue
  <1>4. CASE i > Len(inbox[b]) - s
    <2>1. inbox'[b][i] \in new[b]
      BY <1>2, <1>3, <1>4, PassedShape
    <2> QED BY <1>1, <1>2, <2>1 DEF NewSeats, Names
  <1>5. CASE i <= Len(inbox[b]) - s
    <2>1. PICK k \in 1..Len(inbox[b]) : k = i + s
      BY <1>2, <1>3, <1>5, PassedShape
    <2>2. /\ inbox'[b][i].type = inbox[b][k].type
          /\ inbox'[b][i].id = inbox[b][k].id
          /\ inbox'[b][i].of = inbox[b][k].of
      BY <1>2, <1>3, <1>5, <2>1, PassedShape
    <2>3. Names(inbox[b][k], {"joinAsked"}, id, n)
      BY <2>2 DEF Names
    <2>4. ~Fresh(id)
      BY <1>1, <2>3, QueuedKnown DEF Names
    <2>5. live[id] = b
      BY <1>1, <2>4, LiveStays, NoneAssumption
    <2>6. \/ "flooded" \in missed[id] \/ n \in audience[id]
          \/ After(inbox[b], k, {"clientLeft"}, id, n)
      BY <2>3, <2>5 DEF AskedTrue
    <2>7. After(inbox[b], i + s, {"clientLeft"}, id, n) => After(inbox'[b], i, {"clientLeft"}, id, n)
      <3>1. i \in Nat
        BY <1>2
      <3> QED BY <1>2, <1>3, <3>1, AfterPassed
    <2>8. Says(new[b], {"clientLeft"}, id, n) => After(inbox'[b], i, {"clientLeft"}, id, n)
      BY <1>2, <1>3, <1>5, AfterPassed
    <2> QED BY <1>1, <2>1, <2>4, <2>5, <2>6, <2>7, <2>8, MarkStays DEF AudienceKept
  <1>6. Len(inbox[b]) \in Nat
    BY <1>2
  <1> QED BY <1>4, <1>5, <1>6

LEMMA NativesStep ==
    ASSUME IInv, IInv', AskedTrue, NativesTrue, NEW heads, NEW out, NEW new, NEW lost,
           Step(heads, out, new, lost), AudienceKept(new), CountsPart(heads), MarksPart(new, lost)
    PROVE  NativesTrue'
  <1>1. /\ TypeOK /\ TypeOK' /\ Flow(heads, out, new, lost) /\ LiveTrue(new, lost)
        /\ Actors(heads, lost) /\ MarksKept /\ CountsFrom(heads) /\ LeftHeard(heads)
    BY DEF IInv, Step, MarksPart, CountsPart
  <1> SUFFICES ASSUME NEW b \in Browsers, NEW id \in Ids, NEW n \in Natives,
                      live'[id] = b, Counts(b, id, n)'
               PROVE  \/ "flooded" \in missed'[id] \/ n \in audience'[id]
                      \/ After(inbox'[b], 0, {"clientLeft"}, id, n)
    BY DEF NativesTrue
  <1>2. b \notin lost /\ inbox[b] \in Seq(Message) /\ inbox'[b] \in Seq(Message)
    BY <1>1, OwnerQueue
  <1>3. PICK s \in {0, 1} : /\ Passed(inbox[b], inbox'[b], s, out[b], new[b])
                            /\ s = 1 <=> b \in heads
    BY <1>1, OwnerQueue
  <1>4. ~Fresh(id)
    <2>1. CASE Counts(b, id, n)
      BY <1>1, <2>1, FreshShape DEF Counts
    <2>2. CASE b \in heads /\ Names(inbox[b][1], {"joinAsked"}, id, n)
      BY <1>1, <2>2, HeadIs, QueuedKnown DEF Names
    <2> QED BY <1>1, <2>1, <2>2 DEF CountsFrom
  <1>5. live[id] = b
    BY <1>1, <1>4, LiveStays, NoneAssumption
  <1>6. \/ "flooded" \in missed[id] \/ n \in audience[id]
        \/ After(inbox[b], s, {"clientLeft"}, id, n)
    <2>1. CASE Counts(b, id, n)
      <3>1. \/ "flooded" \in missed[id] \/ n \in audience[id]
            \/ After(inbox[b], 0, {"clientLeft"}, id, n)
        BY <1>5, <2>1 DEF NativesTrue
      <3>2. ASSUME NEW j \in 1..Len(inbox[b]), Names(inbox[b][j], {"clientLeft"}, id, n)
            PROVE  j > s
        <4>1. ~(s = 1 /\ j = 1)
          BY <1>1, <1>3, <3>2 DEF LeftHeard
        <4> QED BY <4>1
      <3> QED BY <3>1, <3>2 DEF After
    <2>2. CASE b \in heads /\ Names(inbox[b][1], {"joinAsked"}, id, n)
      <3>1. 1 \in 1..Len(inbox[b]) /\ s = 1
        BY <1>1, <1>3, <2>2, HeadIs
      <3> QED BY <1>5, <2>2, <3>1 DEF AskedTrue
    <2> QED BY <1>1, <2>1, <2>2 DEF CountsFrom
  <1>7. After(inbox[b], 0 + s, {"clientLeft"}, id, n) => After(inbox'[b], 0, {"clientLeft"}, id, n)
    BY <1>2, <1>3, AfterPassed
  <1>8. Says(new[b], {"clientLeft"}, id, n) => After(inbox'[b], 0, {"clientLeft"}, id, n)
    <2>1. 0 <= Len(inbox[b]) - s
      BY <1>2, <1>3 DEF Passed
    <2> QED BY <1>2, <1>3, <2>1, AfterPassed
  <1>9. 0 + s = s
    OBVIOUS
  <1> QED BY <1>1, <1>4, <1>5, <1>6, <1>7, <1>8, <1>9, MarkStays DEF AudienceKept

\* What announces a stream to its owner links it, or is still to be handled.
LEMMA LinksOn ==
    ASSUME IInv, IInv', NEW heads, NEW out, NEW new, NEW lost, Step(heads, out, new, lost),
           NEW b \in Browsers, NEW id \in Ids, live'[id] = b,
           NEW s \in {0, 1}, Passed(inbox[b], inbox'[b], s, out[b], new[b]), s = 1 <=> b \in heads,
           NEW k \in 1..Len(inbox[b]), NEW i \in 1..Len(inbox'[b]), k = i + s,
           Linked(b, id) \/ Before(inbox[b], k, id, b)
    PROVE  Linked(b, id)' \/ Waits(b, id)' \/ Before(inbox'[b], i, id, b)
  <1>1. /\ TypeOK /\ TypeOK' /\ Actors(heads, lost) /\ OutTrue(out, lost) /\ HeldFrom(heads, new)
    BY DEF IInv, Step
  <1>2. /\ Linked(b, id) => Linked(b, id)' \/ Waits(b, id)'
        /\ b \in heads /\ OwnHeading({b}, id, b) => Linked(b, id)' \/ Waits(b, id)'
        /\ b \notin lost
    BY <1>1 DEF HeldFrom, Actors
  <1>3. inbox[b] \in Seq(Message) /\ inbox'[b] \in Seq(Message)
    BY <1>1 DEF TypeOK
  <1>4. ASSUME NEW j \in 1..Len(inbox[b]), j < k,
               Is(inbox[b][j], "started", id), inbox[b][j].of = b, Own(inbox[b][j])
        PROVE  Linked(b, id)' \/ Waits(b, id)' \/ Before(inbox'[b], i, id, b)
    <2>1. inbox[b][j] \notin out[b]
      BY <1>1, <1>2, <1>4 DEF OutTrue, Is
    <2>2. CASE j > s
      <3>1. PICK h \in 1..Len(inbox'[b]) : h + s = j /\ inbox'[b][h] = inbox[b][j]
        BY <1>3, <2>1, <2>2, PassedAt
      <3>2. h < i
        BY <1>4, <3>1
      <3> QED BY <1>4, <3>1, <3>2 DEF Before
    <2>3. CASE ~(j > s)
      <3>1. j = 1 /\ s = 1
        BY <2>3
      <3> QED BY <1>2, <1>4, <3>1 DEF OwnHeading
    <2> QED BY <2>2, <2>3
  <1> QED BY <1>2, <1>4 DEF Before

LEMMA SeenStays ==
    ASSUME IInv, IInv', Addressed, NEW heads, NEW out, NEW new, NEW lost,
           Step(heads, out, new, lost), CountsPart(heads), MarksPart(new, lost),
           NEW b \in Browsers, NEW id \in Ids, NEW n \in Natives,
           live[id] = b, live'[id] = b, n \in audience'[id], ~Marked(id)', Seen(b, id, n)
    PROVE  Seen(b, id, n)'
  <1>1. /\ TypeOK /\ TypeOK' /\ Flow(heads, out, new, lost) /\ LiveTrue(new, lost)
        /\ Actors(heads, lost) /\ MarksKept /\ Flooded' /\ NewSeats(new, lost)
        /\ CountsKept(heads) /\ AskedHeard(heads)
    BY DEF IInv, Step, MarksPart, CountsPart
  <1>2. b \notin lost /\ inbox[b] \in Seq(Message) /\ inbox'[b] \in Seq(Message)
    BY <1>1, OwnerQueue
  <1>3. PICK s \in {0, 1} : /\ Passed(inbox[b], inbox'[b], s, out[b], new[b])
                            /\ s = 1 <=> b \in heads
    BY <1>1, OwnerQueue
  <1>4. ~Says(new[b], Parts, id, n)
    BY <1>1, <1>2 DEF NewSeats, Says, Names
  <1>5. ~Waits(b, id)'
    BY <1>1 DEF Flooded, Waits, Marked, Marks
  <1>6. ~Fresh(id)
    BY <1>1, NoneAssumption, FreshShape DEF Clients
  <1>7. "flooded" \notin missed[id]
    BY <1>1, <1>6, MarkStays DEF Marked, Marks
  <1>8. ASSUME Counts(b, id, n), ~After(inbox[b], 0, Parts, id, n)
        PROVE  Seen(b, id, n)'
    <2>1. \A j \in 1..Len(inbox[b]) : ~Names(inbox[b][j], Parts, id, n)
      BY <1>8 DEF After
    <2>2. ASSUME NEW v \in heads, Names(inbox[v][1], {"clientLeft"}, id, n)
          PROVE  FALSE
      <3>1. v \in Browsers /\ 1 \in 1..Len(inbox[v])
        BY <1>1, HeadIs
      <3>2. Is(inbox[v][1], "clientLeft", id)
        BY <2>2 DEF Names, Is
      <3>3. v = b
        BY <1>7, <3>1, <3>2 DEF Addressed
      <3> QED BY <2>1, <2>2, <3>1, <3>3 DEF Names, Parts
    <2>3. ~(b \in heads /\ Names(inbox[b][1], {"removed"}, id, n))
      BY <1>1, <2>1, HeadIs DEF Names, Parts
    <2>4. Counts(b, id, n)'
      BY <1>1, <1>8, <2>2, <2>3 DEF CountsKept
    <2>5. ~After(inbox[b], 0 + s, Parts, id, n)
      BY <2>1 DEF After
    <2>6. ~After(inbox'[b], 0, Parts, id, n)
      BY <1>2, <1>3, <1>4, <2>5, AfterPassed
    <2> QED BY <2>4, <2>6 DEF Seen
  <1>9. ASSUME NEW k \in 1..Len(inbox[b]),
               Names(inbox[b][k], {"joinAsked"}, id, n), ~After(inbox[b], k, Parts, id, n),
               Linked(b, id) \/ Before(inbox[b], k, id, b)
        PROVE  Seen(b, id, n)'
    <2>1. CASE k > s
      <3>1. PICK i \in 1..Len(inbox'[b]) : i + s = k
        <4>1. Passed(inbox[b], inbox'[b], s, out[b], new[b]) /\ s \in {0, 1}
          BY <1>3
        <4>2. k \in 1..Len(inbox[b]) /\ k > s
          BY <1>9, <2>1
        <4> QED BY <1>2, <4>1, <4>2, PassedAt
      <3>2. Names(inbox'[b][i], {"joinAsked"}, id, n)
        <4>1. i <= Len(inbox[b]) - s
          BY <1>2, <3>1
        <4>2. /\ inbox'[b][i].type = inbox[b][i + s].type
              /\ inbox'[b][i].id = inbox[b][i + s].id
              /\ inbox'[b][i].of = inbox[b][i + s].of
          BY <1>2, <1>3, <4>1, PassedShape
        <4> QED BY <1>9, <3>1, <4>2 DEF Names
      <3>3. Linked(b, id)' \/ Before(inbox'[b], i, id, b)
        <4>1. k = i + s
          BY <3>1
        <4>2. Linked(b, id) \/ Before(inbox[b], k, id, b)
          BY <1>9
        <4>3. Linked(b, id)' \/ Waits(b, id)' \/ Before(inbox'[b], i, id, b)
          BY <1>3, <4>1, <4>2, LinksOn
        <4> QED BY <1>5, <4>3
      <3>4. i \in Nat
        BY <1>2
      <3>5. ~After(inbox[b], i + s, Parts, id, n)
        BY <1>9, <3>1
      <3>6. ~After(inbox'[b], i, Parts, id, n)
        BY <1>2, <1>3, <1>4, <3>4, <3>5, AfterPassed
      <3> QED BY <3>2, <3>3, <3>6 DEF Seen
    <2>2. CASE ~(k > s)
      <3>1. k = 1 /\ s = 1
        BY <2>2
      <3>2. ~Before(inbox[b], k, id, b)
        BY <3>1 DEF Before
      <3>3. Counts(b, id, n)'
        BY <1>1, <1>3, <1>9, <3>1, <3>2 DEF AskedHeard
      <3>4. ~After(inbox[b], 0 + s, Parts, id, n)
        BY <1>9, <3>1
      <3>5. ~After(inbox'[b], 0, Parts, id, n)
        BY <1>2, <1>3, <1>4, <3>4, AfterPassed
      <3> QED BY <3>3, <3>5 DEF Seen
    <2> QED BY <2>1, <2>2
  <1> QED BY <1>8, <1>9 DEF Seen

\* Who asks to watch is seen.
LEMMA AskedSeen ==
    ASSUME IInv, IInv', Held, Flooded, NEW heads, NEW out, NEW new, NEW lost,
           Step(heads, out, new, lost), MarksPart(new, lost),
           NEW b \in Browsers, NEW id \in Ids, NEW n \in Natives,
           live[id] = b, live'[id] = b, n \in audience'[id], ~Marked(id)',
           Says(new[b], {"joinAsked"}, id, n)
    PROVE  Seen(b, id, n)'
  <1>1. /\ TypeOK /\ TypeOK' /\ Flow(heads, out, new, lost) /\ HeldFrom(heads, new)
        /\ Actors(heads, lost) /\ OutTrue(out, lost) /\ MarksKept /\ Flooded' /\ NewSeats(new, lost)
    BY DEF IInv, Step, MarksPart
  <1>2. b \notin lost /\ inbox[b] \in Seq(Message) /\ inbox'[b] \in Seq(Message)
    BY <1>1, OwnerQueue
  <1>3. PICK s \in {0, 1} : /\ Passed(inbox[b], inbox'[b], s, out[b], new[b])
                            /\ s = 1 <=> b \in heads
    BY <1>1, OwnerQueue
  <1>4. PICK m \in new[b] : Names(m, {"joinAsked"}, id, n)
    BY DEF Says
  <1>5. PICK i \in 1..Len(inbox'[b]) : i > Len(inbox[b]) - s /\ inbox'[b][i] = m
    BY <1>2, <1>3, PassedShape
  <1>6. ~Fresh(id)
    BY <1>1, NoneAssumption, FreshShape DEF Clients
  <1>7. ~Marked(id) /\ ~Waits(b, id) /\ ~Waits(b, id)'
    <2>1. ~Marked(id)
      BY <1>1, <1>6, MarkStays
    <2>2. ~Waits(b, id)
      BY <2>1 DEF Flooded, Waits, Marked, Marks
    <2>3. ~Waits(b, id)'
      BY <1>1 DEF Flooded, Waits, Marked, Marks
    <2> QED BY <2>1, <2>2, <2>3
  <1>8. Linked(b, id) \/ Announced(b, id)
    BY <1>7 DEF Held, Marked, Marks
  <1>9. Linked(b, id)' \/ Before(inbox'[b], i, id, b)
    <2>1. CASE Linked(b, id)
      BY <1>1, <1>7, <2>1 DEF HeldFrom
    <2>2. ASSUME NEW j \in 1..Len(inbox[b]),
                 Is(inbox[b][j], "started", id), inbox[b][j].of = b, Own(inbox[b][j])
          PROVE  Linked(b, id)' \/ Before(inbox'[b], i, id, b)
      <3>1. inbox[b][j] \notin out[b]
        BY <1>1, <1>2, <2>2 DEF OutTrue, Is
      <3>2. CASE j > s
        <4>1. Passed(inbox[b], inbox'[b], s, out[b], new[b]) /\ s \in {0, 1} /\ j \in 1..Len(inbox[b])
          BY <1>3, <2>2
        <4>2. PICK h \in 1..Len(inbox'[b]) : h + s = j /\ inbox'[b][h] = inbox[b][j]
          BY <1>2, <3>1, <3>2, <4>1, PassedAt
        <4>3. h <= Len(inbox[b]) - s /\ inbox'[b][h] = inbox[b][j]
          BY <1>2, <4>1, <4>2
        <4>4. h < i
          BY <1>2, <1>5, <4>3
        <4> QED BY <2>2, <4>3, <4>4 DEF Before
      <3>3. CASE ~(j > s)
        <4>1. j = 1 /\ s = 1
          BY <3>3
        <4>2. OwnHeading({b}, id, b)
          BY <2>2, <4>1 DEF OwnHeading
        <4> QED BY <1>1, <1>3, <1>7, <4>1, <4>2 DEF HeldFrom
      <3> QED BY <3>2, <3>3
    <2> QED BY <1>8, <2>1, <2>2 DEF Announced
  <1>10. ~After(inbox'[b], i, Parts, id, n)
    <2> SUFFICES ASSUME NEW j \in 1..Len(inbox'[b]), j > i, Names(inbox'[b][j], Parts, id, n)
                 PROVE  FALSE
      BY DEF After
    <2>1. j > Len(inbox[b]) - s
      BY <1>2, <1>5
    <2>2. inbox'[b][j] \in new[b]
      BY <1>2, <1>3, <2>1, PassedShape
    <2> QED BY <1>1, <1>2, <2>2 DEF NewSeats, Names
  <1> QED BY <1>4, <1>5, <1>9, <1>10 DEF Seen

LEMMA NativesKnownStep ==
    ASSUME IInv, IInv', Published, Audible, Flooded, Addressed, NativesKnown,
           NEW heads, NEW out, NEW new, NEW lost, Step(heads, out, new, lost), Seats(heads, new, lost)
    PROVE  NativesKnown'
  <1>1. /\ AudienceFrom(new) /\ CountsPart(heads) /\ MarksPart(new, lost) /\ MarksKept /\ TypeOK /\ Held
    BY DEF Seats, AudiencePart, MarksPart, IInv, Published
  <1> SUFFICES ASSUME NEW b \in Browsers, NEW id \in Ids, NEW n \in Natives,
                      live'[id] = b, n \in audience'[id], ~Marked(id)'
               PROVE  Seen(b, id, n)'
    BY DEF NativesKnown
  <1>2. n \in Clients /\ n \notin Browsers
    BY ClientsAssumption DEF Clients
  <1>3. /\ live[id] = b
        /\ n \in audience[id] \/ Says(new[b], {"joinAsked"}, id, n)
    BY <1>1, <1>2 DEF AudienceFrom
  <1>4. CASE n \in audience[id]
    <2>1. ~Fresh(id)
      BY <1>1, <1>3, NoneAssumption, FreshShape DEF Clients
    <2>2. Seen(b, id, n)
      BY <1>1, <1>3, <1>4, <2>1, MarkStays DEF NativesKnown
    <2> QED BY <1>1, <1>3, <2>2, SeenStays
  <1>5. CASE Says(new[b], {"joinAsked"}, id, n)
    BY <1>1, <1>3, <1>5, AskedSeen
  <1> QED BY <1>3, <1>4, <1>5

LEMMA ViewersTrueStep ==
    ASSUME IInv, IInv', Published, Shown, Shown', ViewersTrue,
           NEW heads, NEW out, NEW new, NEW lost,
           Step(heads, out, new, lost), Turn(heads, lost), Seats(heads, new, lost)
    PROVE  ViewersTrue'
  <1>1. /\ TypeOK /\ OneClaim /\ LiveTrue(new, lost) /\ EndsTrue(heads, lost)
        /\ MarksKept /\ SeatKept /\ WatchesFrom /\ RefusedKept
        /\ CardPlaced /\ CardPlaced'
    BY DEF IInv, Published, Shown, Step, Seats, MarksPart, AudiencePart, WatchesPart
  <1> SUFFICES ASSUME NEW id \in Ids, NEW n \in Natives, NEW v \in Browsers,
                      Card(id, n)', live'[id] = n, Watches(v, id)', "end" \notin missed'[id],
                      "flooded" \notin missed'[id], v \notin audience'[id], ~Refusing(inbox'[v], id)
               PROVE  Doomed(id, n)'
    BY DEF ViewersTrue
  <1>2. Watches(v, id) /\ streams'[id].channel = streams[id].channel
    BY <1>1 DEF WatchesFrom
  <1>3. ~Fresh(id)
    BY <1>1, <1>2, FreshShape DEF Watches
  <1>4. n \in Clients /\ n # None
    BY NoneAssumption DEF Clients
  <1>5. live[id] = n /\ "end" \notin missed[id] /\ "flooded" \notin missed[id]
    BY <1>1, <1>3, <1>4, LiveStays, MarkStays DEF EndsTrue
  <1>6. Card(id, n)
    <2>1. PICK c \in Clients : Card(id, c)
      <3>1. id \in Keys /\ streams[id] # None
        BY <1>2 DEF Watches, Keys
      <3> QED BY <1>1, <3>1, EntryShape, StreamShape DEF Card
    <2>2. CardClaim(id, c) /\ CardClaim(id, n)
      BY <1>5, <2>1 DEF CardClaim
    <2> QED BY <1>1, <1>4, <2>1, <2>2 DEF OneClaim
  <1>7. ~Refusing(inbox[v], id)
    BY <1>1, <1>2 DEF RefusedKept
  <1>8. CASE v \in audience[id]
    <2>1. place'[n] # place[n]
      BY <1>1, <1>5, <1>8 DEF SeatKept
    <2>2. CASE streams[id].channel = place[n]
      BY <1>1, <1>2, <2>1, <2>2 DEF CardPlaced
    <2>3. CASE streams[id].channel # place[n]
      <3>1. Doomed(id, n)
        BY <1>1, <1>5, <1>6, <2>3 DEF CardPlaced
      <3> QED BY <1>2, <1>6, <3>1, DoomedStays
    <2> QED BY <2>2, <2>3
  <1>9. CASE v \notin audience[id]
    <2>1. Doomed(id, n)
      BY <1>2, <1>5, <1>6, <1>7, <1>9 DEF ViewersTrue
    <2> QED BY <1>2, <1>6, <2>1, DoomedStays
  <1> QED BY <1>8, <1>9

LEMMA ViewersKnownStep ==
    ASSUME IInv, IInv', Audible, ViewersKnown, NEW new, NEW lost,
           AudiencePart(new), WatchesPart, MarksPart(new, lost)
    PROVE  ViewersKnown'
  <1>1. TypeOK /\ AudienceFrom(new) /\ WatchesOn /\ MarksKept
    BY DEF IInv, AudiencePart, WatchesPart, MarksPart
  <1> SUFFICES ASSUME NEW id \in Ids, NEW v \in Browsers, v \in audience'[id]
               PROVE  Marked(id)' \/ Watches(v, id)'
    BY DEF ViewersKnown
  <1>2. v \in Clients /\ v \notin Natives
    BY ClientsAssumption DEF Clients
  <1>3. v \in audience[id] \/ Watches(v, id)'
    BY <1>1, <1>2 DEF AudienceFrom
  <1>4. CASE v \in audience[id]
    <2>1. ~Fresh(id)
      BY <1>1, <1>4, FreshShape DEF Audible
    <2> QED BY <1>1, <1>4, <2>1, MarkStays DEF ViewersKnown, WatchesOn
  <1> QED BY <1>3, <1>4

LEMMA SeatedStep ==
    ASSUME IInv, IInv', Published, Shown, Shown', Seated, NEW heads, NEW out, NEW new, NEW lost,
           Step(heads, out, new, lost), Turn(heads, lost), Seats(heads, new, lost)
    PROVE  Seated'
  <1>1. /\ Audible /\ Flooded /\ Bare /\ Addressed /\ AskedTrue /\ NativesTrue /\ NativesKnown
        /\ ViewersTrue /\ ViewersKnown
    BY DEF Seated
  <1>2. /\ AudiencePart(new) /\ CountsPart(heads) /\ WatchesPart /\ MarksPart(new, lost)
        /\ AudienceFrom(new) /\ AudienceKept(new) /\ Bare' /\ Flooded'
    BY DEF Seats, AudiencePart, CountsPart, MarksPart
  <1>3. Audible' /\ Addressed'
    BY <1>1, <1>2, AudibleStep, AddressedStep
  <1>4. AskedTrue' /\ NativesTrue'
    BY <1>1, <1>2, AskedStep, NativesStep
  <1>5. NativesKnown'
    BY <1>1, NativesKnownStep
  <1>6. ViewersTrue' /\ ViewersKnown'
    BY <1>1, <1>2, ViewersTrueStep, ViewersKnownStep
  <1> QED BY <1>2, <1>3, <1>4, <1>5, <1>6 DEF Seated

-----------------------------------------------------------------------------
(* Kinds of steps. *)

Silent(new, lost) == \A v \in Browsers \ lost : \A m \in new[v] : m.type \notin {"joinAsked"} \cup Parts

\* Shares are neither made nor retired, and count the same native viewers.
SharesSame ==
    \A b \in Browsers : /\ streams'[b] # None <=> streams[b] # None
                        /\ streams'[b] # None => /\ streams'[b].link = streams[b].link
                                                 /\ streams'[b].natives = streams[b].natives

\* Cards are neither made nor retired, and have the same viewers.
ViewersSame ==
    \A id \in Ids : /\ streams'[id] # None <=> streams[id] # None
                    /\ streams'[id] # None => /\ streams'[id].channel = streams[id].channel
                                              /\ streams'[id].viewers = streams[id].viewers

LEMMA SilentNobody == \A lost : Silent(Nobody, lost)
  BY NobodyShape DEF Silent

LEMMA SilentStops == \A ids, lost : Silent(ToUp(Stops(ids)), lost)
  BY DEF Silent, ToUp, Stops, Msg, Parts

LEMMA AudienceSame ==
    ASSUME IInv, Audible, audience' = audience, \A id \in Ids : live'[id] = live[id] \/ Fresh(id),
           NEW new
    PROVE  AudiencePart(new)
  <1>1. ASSUME NEW id \in Ids, NEW c \in audience'[id]
        PROVE  live'[id] = live[id]
    BY <1>1, FreshShape DEF IInv, Audible
  <1> QED BY <1>1 DEF AudiencePart, AudienceFrom, AudienceKept, SeatKept

LEMMA CountsEqual ==
    ASSUME Bare', \A b \in Browsers, id \in Ids, n \in Natives : Counts(b, id, n)' <=> Counts(b, id, n),
           NEW heads \in SUBSET Browsers,
           \A v \in heads : inbox[v][1].type \notin {"joinAsked"} \cup Parts
    PROVE  CountsPart(heads)
  <1>1. \A b \in heads, id \in Ids, n \in Natives :
           ~Names(inbox[b][1], {"joinAsked"}, id, n) /\ ~Names(inbox[b][1], {"clientLeft"}, id, n)
    BY DEF Names, Parts
  <1> QED BY <1>1 DEF CountsPart, CountsFrom, LeftHeard, CountsKept, AskedHeard

LEMMA CountsSame ==
    ASSUME Bare, SharesSame, NEW heads \in SUBSET Browsers,
           \A v \in heads : inbox[v][1].type \notin {"joinAsked"} \cup Parts
    PROVE  CountsPart(heads)
  <1>1. \A b \in Browsers, id \in Ids, n \in Natives : Counts(b, id, n)' <=> Counts(b, id, n)
    BY DEF SharesSame, Counts, Linked
  <1>2. Bare'
    BY DEF Bare, SharesSame
  <1> QED BY <1>1, <1>2, CountsEqual

LEMMA WatchesSame ==
    ASSUME ViewersSame, RefusedKept
    PROVE  WatchesPart
  BY DEF ViewersSame, WatchesPart, WatchesFrom, WatchesOn, Watches

\* Answers to a membership that remains stay.
LEMMA RefusedStays ==
    ASSUME TypeOK, TypeOK', NEW heads, NEW out, NEW new, NEW lost, Flow(heads, out, new, lost),
           \A id \in Ids, v \in Browsers : Watches(v, id) /\ Watches(v, id)' =>
              /\ v \notin lost
              /\ \A m \in out[v] : ~Is(m, "joinRefused", id)
              /\ v \in heads => ~(Is(inbox[v][1], "joinRefused", id) /\ inbox[v][1].current)
    PROVE  RefusedKept
  <1> SUFFICES ASSUME NEW id \in Ids, NEW v \in Browsers, Watches(v, id), Watches(v, id)',
                      NEW k \in 1..Len(inbox[v]), Is(inbox[v][k], "joinRefused", id),
                      inbox[v][k].current
               PROVE  Refusing(inbox'[v], id)
    BY DEF RefusedKept, Refusing
  <1>1. /\ v \notin lost /\ inbox[v][k] \notin out[v]
        /\ inbox[v] \in Seq(Message) /\ inbox'[v] \in Seq(Message)
    BY DEF TypeOK
  <1>2. PICK s \in {0, 1} : /\ Passed(inbox[v], inbox'[v], s, out[v], new[v])
                            /\ s = 1 <=> v \in heads
    BY <1>1 DEF Flow
  <1>3. k > s
    <2>1. ~(s = 1 /\ k = 1)
      BY <1>2
    <2> QED BY <2>1
  <1>4. PICK i \in 1..Len(inbox'[v]) : inbox'[v][i] = inbox[v][k]
    BY <1>1, <1>2, <1>3, PassedAt
  <1> QED BY <1>4 DEF Refusing

LEMMA MarksSame ==
    ASSUME IInv, Flooded, MarksKept, \A c \in retry' : \E d \in retry : c.id = d.id,
           NEW new, NEW lost, Silent(new, lost)
    PROVE  MarksPart(new, lost)
  <1>1. ASSUME NEW d \in retry
        PROVE  "flooded" \in missed'[d.id]
    <2>1. d.id \in Ids /\ ~Fresh(d.id)
      BY FreshShape DEF IInv, TypeOK, Cleanup
    <2> QED BY <2>1, MarkStays DEF Flooded
  <1>2. Flooded'
    BY <1>1 DEF Flooded
  <1>3. NewSeats(new, lost)
    BY DEF NewSeats, Silent, Parts
  <1> QED BY <1>2, <1>3 DEF MarksPart

LEMMA MissMarks ==
    ASSUME TypeOK, NEW ids, NEW what, missed' = Miss(ids, what)
    PROVE  MarksKept
  BY MissAdds DEF MarksKept

Seating(heads, lost) == \E out, new : Flow(heads, out, new, lost) /\ Seats(heads, new, lost)

\* Whichever way the flow of a step is described.
LEMMA SeatingStep ==
    ASSUME IInv, IInv', Published, Shown, Shown', Seated, NEW heads, NEW out, NEW new, NEW lost,
           Step(heads, out, new, lost), Turn(heads, lost), Seating(heads, lost)
    PROVE  Seated'
  <1>1. PICK other, more : Flow(heads, other, more, lost) /\ Seats(heads, more, lost)
    BY DEF Seating
  <1>2. Flow(heads, out, new, lost) /\ Actors(heads, lost)
    BY DEF Step
  <1>3. \A v \in Browsers \ lost : \A m : m \in new[v] <=> m \in more[v]
    BY <1>1, <1>2, NewUnique
  <1>4. \A b \in Browsers, id \in Ids : live'[id] = b => b \notin lost
    BY <1>2 DEF Actors
  <1>5. AudiencePart(more) /\ NewSeats(more, lost)
    BY <1>1 DEF Seats, MarksPart
  <1>6. NewSeats(new, lost)
    BY <1>3, <1>5 DEF NewSeats
  <1>7. \A b \in Browsers, id \in Ids : \A types, n :
           live'[id] = b => (Says(new[b], types, id, n) <=> Says(more[b], types, id, n))
    BY <1>3, <1>4 DEF Says
  <1>8. AudiencePart(new)
    BY <1>5, <1>7 DEF AudiencePart, AudienceFrom, AudienceKept
  <1>9. Seats(heads, new, lost)
    BY <1>1, <1>6, <1>8 DEF Seats, MarksPart
  <1> QED BY <1>9, SeatedStep

\* A message that tells nothing of the viewers of cards is handled, or none.
LEMMA HeardSeats ==
    ASSUME IInv, IInv', Seated, NEW heads \in SUBSET Browsers,
           \A v \in heads : inbox[v][1].type # "joinRefused",
           NEW out, NEW new, Flow(heads, out, new, {}), Silent(new, {}),
           \A v \in Browsers : \A m \in out[v] : m.type # "joinRefused",
           audience' = audience, \A id \in Ids : live'[id] = live[id] \/ Fresh(id),
           CountsPart(heads), ViewersSame, \A c \in retry' : \E d \in retry : c.id = d.id, MarksKept
    PROVE  Seating(heads, {})
  <1>1. Audible /\ Flooded /\ TypeOK /\ TypeOK'
    BY DEF Seated, IInv
  <1>2. AudiencePart(new)
    BY <1>1, AudienceSame
  <1>3. RefusedKept
    BY <1>1, RefusedStays DEF Is
  <1>4. WatchesPart
    BY <1>3, WatchesSame
  <1>5. MarksPart(new, {})
    BY <1>1, MarksSame
  <1> QED BY <1>2, <1>4, <1>5 DEF Seats, Seating

LEMMA CalmSeats ==
    ASSUME IInv, IInv', Seated, NEW heads \in SUBSET Browsers,
           \A v \in heads : inbox[v][1].type \notin {"joinAsked", "joinRefused"} \cup Parts,
           NEW out, NEW new, Flow(heads, out, new, {}), Silent(new, {}),
           \A v \in Browsers : \A m \in out[v] : m.type # "joinRefused",
           audience' = audience, \A id \in Ids : live'[id] = live[id] \/ Fresh(id),
           SharesSame, ViewersSame, retry' = retry, MarksKept
    PROVE  Seating(heads, {})
  <1>1. CountsPart(heads)
    BY CountsSame DEF Seated
  <1> QED BY <1>1, HeardSeats

LEMMA SameStreams == streams' = streams => SharesSame /\ ViewersSame
  BY DEF SharesSame, ViewersSame

LEMMA SameMarks == missed' = missed => MarksKept
  BY DEF MarksKept

\* Nothing is handled or sent.
LEMMA StillSeats ==
    ASSUME IInv, IInv', Seated, UNCHANGED <<streams, inbox, retry, live, audience>>, MarksKept
    PROVE  Seating({}, {})
  <1>1. Flow({}, Nobody, Nobody, {})
    BY NobodyFlow DEF IInv
  <1> QED BY <1>1, NobodyShape, SilentNobody, SameStreams, CalmSeats

-----------------------------------------------------------------------------
(* The steps that change no audience. *)

LEMMA ToAllOne ==
    ASSUME TypeOK, NEW m \in Message, inbox' = ToAll(inbox, <<m>>)
    PROVE  Flow({}, Nobody, ToUp({m}), {})
  <1>1. PICK more : more = <<m>>
    OBVIOUS
  <1>2. more \in Seq(Message) /\ ToSet(more) = {m}
    BY <1>1 DEF ToSet
  <1> QED BY <1>1, <1>2, MadeNow, ToAllFlow

LEMMA ArriveSeats ==
    ASSUME IInv, IInv', Seated, NEW b \in Browsers, Arrive(b) \/ Connect(b)
    PROVE  Seating({}, {})
  <1>1. UNCHANGED <<streams, inbox, retry, live, audience, missed>>
    BY DEF Arrive, Connect, registry
  <1> QED BY <1>1, SameMarks, StillSeats

LEMMA ScanBreakSeats ==
    ASSUME IInv, IInv', Seated, ScanBreak
    PROVE  Seating({}, {})
  <1>1. /\ \/ missed' = Miss({id \in Ids : live[id] \in scan.todo \cap Natives}, "start")
           \/ missed' = missed
        /\ UNCHANGED <<streams, inbox, retry, live, audience>>
    BY DEF ScanBreak, BrokenPass, registry
  <1>2. MarksKept
    BY <1>1, SameMarks, MissMarks DEF IInv
  <1> QED BY <1>1, <1>2, StillSeats

LEMMA ScanAskSeats ==
    ASSUME IInv, IInv', Seated, NEW c \in Clients, ScanAsk(c)
    PROVE  Seating({}, {})
  <1>1. /\ TypeOK /\ scan.by \in Browsers
        /\ UNCHANGED <<streams, retry, live, audience>>
    BY DEF ScanAsk, registry, IInv, Up
  <1>2. PICK own : own = {id \in Ids : live[id] = c}
    OBVIOUS
  <1>3. \/ /\ \E order \in SetToSeqs(own) :
                 inbox' = [inbox EXCEPT ![scan.by] = @ \o Notices("started", order, c)]
           /\ missed' = IF \A b \in Browsers : inbox[b] = <<>>
                        THEN [id \in Ids |-> missed[id] \ {"start" : i \in own \cap {id}}]
                        ELSE missed
        \/ inbox' = inbox /\ missed' = IF c \in Natives THEN Miss(own, "start") ELSE missed
    BY <1>2 DEF ScanAsk
  <1>4. MarksKept
    <2>1. CASE missed' = [id \in Ids |-> missed[id] \ {"start" : i \in own \cap {id}}]
      BY <2>1 DEF MarksKept, Marks
    <2> QED BY <1>1, <1>3, <2>1, SameMarks, MissMarks
  <1>5. CASE inbox' = inbox
    BY <1>1, <1>4, <1>5, StillSeats
  <1>6. ASSUME NEW order \in SetToSeqs(own),
               inbox' = [inbox EXCEPT ![scan.by] = @ \o Notices("started", order, c)]
        PROVE  Seating({}, {})
    <2>1. own \in SUBSET Ids
      BY <1>2
    <2>2. PICK more \in Seq(Message) : more = Notices("started", order, c)
      BY <2>1, NoticesShape
    <2>3. ToSet(more) = {Msg("started", id, c) : id \in own}
      BY <2>1, <2>2, NoticesAll
    <2>4. Flow({}, Nobody, ToOne(scan.by, ToSet(more)), {})
      BY <1>1, <1>6, <2>2, AppendFlow
    <2>5. Silent(ToOne(scan.by, ToSet(more)), {})
      BY <2>3 DEF Silent, ToOne, Msg, Parts
    <2> QED BY <1>1, <1>4, <2>4, <2>5, NobodyShape, SameStreams, CalmSeats
  <1> QED BY <1>3, <1>5, <1>6

\* An id is given out.
LEMMA GiveSeats ==
    ASSUME IInv, IInv', Seated, NEW id \in Ids, NEW c \in Clients, Fresh(id),
           live' = [live EXCEPT ![id] = c], missed' = [missed EXCEPT ![id] = {}],
           inbox' = ToAll(inbox, <<Msg("started", id, c)>>),
           audience' = audience, retry' = retry, CountsPart({}), ViewersSame
    PROVE  Seating({}, {})
  <1>1. PICK m \in Message : m = Msg("started", id, c)
    BY MsgMessage
  <1>2. Flow({}, Nobody, ToUp({m}), {})
    BY <1>1, ToAllOne DEF IInv
  <1>3. Silent(ToUp({m}), {})
    BY <1>1 DEF Silent, ToUp, Msg, Parts
  <1>4. MarksKept /\ \A i \in Ids : live'[i] = live[i] \/ Fresh(i)
    BY DEF IInv, TypeOK, MarksKept
  <1> QED BY <1>2, <1>3, <1>4, NobodyShape, HeardSeats

LEMMA PublishSeats ==
    ASSUME IInv, IInv', Seated, NEW n \in Natives, NEW id \in Ids, Publish(n, id)
    PROVE  Seating({}, {})
  <1>1. /\ Fresh(id) /\ live' = [live EXCEPT ![id] = n] /\ missed' = [missed EXCEPT ![id] = {}]
        /\ inbox' = ToAll(inbox, <<Msg("started", id, n)>>)
        /\ UNCHANGED <<streams, retry, audience>>
    BY DEF Publish, registry
  <1>2. ViewersSame /\ CountsPart({})
    BY <1>1, SameStreams, CountsSame DEF Seated
  <1>3. n \in Clients
    BY DEF Clients
  <1> QED BY <1>1, <1>2, <1>3, GiveSeats

LEMMA StartSeats ==
    ASSUME IInv, IInv', Seated, NEW b \in Browsers, Start(b)
    PROVE  Seating({}, {})
  <1>1. /\ TypeOK /\ streams[b] = None
        /\ streams' = [streams EXCEPT ![b] = NewStream(b, channel[b])]
        /\ UNCHANGED <<retry, audience>>
    BY DEF Start, IInv
  <1>2. PICK r : r = NewStream(b, channel[b])
    OBVIOUS
  <1>3. r.link = None /\ r.natives = {}
    BY <1>2 DEF NewStream
  <1>4. /\ streams'[b] = r
        /\ \A k \in Browsers \cup Ids : k # b => streams'[k] = streams[k]
    BY <1>1, <1>2 DEF TypeOK, Keys
  <1>5. ViewersSame
    BY <1>4, ClientsAssumption DEF ViewersSame
  <1>6. Bare'
    BY <1>3, <1>4 DEF Bare, Seated
  <1>7. \A v \in Browsers, id \in Ids, n \in Natives : Counts(v, id, n)' <=> Counts(v, id, n)
    BY <1>1, <1>3, <1>4, NoneAssumption DEF Counts, Linked
  <1>8. CountsPart({})
    BY <1>6, <1>7, CountsEqual
  <1>9. CASE \E id \in Ids :
               /\ Fresh(id) /\ live' = [live EXCEPT ![id] = b]
               /\ missed' = [missed EXCEPT ![id] = {}]
               /\ inbox' = ToAll(inbox, <<Msg("started", id, b)>>)
    <2>1. b \in Clients
      BY DEF Clients
    <2> QED BY <1>1, <1>5, <1>8, <1>9, <2>1, GiveSeats
  <1>10. CASE UNCHANGED <<live, missed, inbox>>
    <2>1. Flow({}, Nobody, Nobody, {})
      BY <1>1, <1>10, NobodyFlow
    <2> QED BY <1>1, <1>5, <1>8, <1>10, <2>1, SilentNobody, NobodyShape, SameMarks, HeardSeats
  <1> QED BY <1>9, <1>10 DEF Start

-----------------------------------------------------------------------------
(* The steps that send commands. *)

\* Commands that stop streams, or take browsers off what they watch no more.
LEMMA SendAudience ==
    ASSUME IInv, NEW cmds \in SUBSET Cleanup, NEW waiting, NEW done, NEW ended,
           Sent(cmds, waiting, done, ended), NEW new,
           \A c \in cmds : c.of = None \/ (c.of \in Browsers /\ ~Watches(c.of, c.id)')
    PROVE  AudiencePart(new)
  <1>1. /\ TypeOK /\ done \subseteq cmds
        /\ \A id \in Ids : live'[id] = IF id \in ended THEN None ELSE live[id]
        /\ \A id \in Ids : audience'[id] = IF id \in ended THEN {}
                              ELSE audience[id] \ {c.of : c \in {d \in done : d.id = id}}
    BY DEF IInv, Sent
  <1>2. ASSUME NEW id \in Ids, NEW c \in audience'[id]
        PROVE  id \notin ended /\ live'[id] = live[id] /\ c \in audience[id]
    BY <1>1, <1>2
  <1>3. AudienceFrom(new)
    BY <1>2 DEF AudienceFrom
  <1>4. ASSUME NEW id \in Ids, NEW c \in Clients, c \in audience[id],
               live[id] # None, live'[id] = live[id]
        PROVE  c \in audience'[id] \/ \E d \in cmds : d.of = c /\ d.id = id
    <2>1. id \notin ended
      BY <1>1, <1>4
    <2> QED BY <1>1, <1>4, <2>1
  <1>5. AudienceKept(new)
    <2> SUFFICES ASSUME NEW id \in Ids, NEW n \in Natives, NEW b \in Browsers,
                        n \in audience[id], live[id] = b, live'[id] = b
                 PROVE  n \in audience'[id]
      BY DEF AudienceKept
    <2>1. n \in Clients /\ live[id] # None /\ n # None /\ n \notin Browsers
      BY NoneAssumption, ClientsAssumption DEF Clients
    <2> QED BY <1>4, <2>1
  <1>6. SeatKept
    <2> SUFFICES ASSUME NEW id \in Ids, NEW n \in Natives, NEW v \in Browsers,
                        v \in audience[id], live[id] = n, live'[id] = n, Watches(v, id)'
                 PROVE  v \in audience'[id]
      BY DEF SeatKept
    <2>1. v \in Clients /\ live[id] # None /\ v # None
      BY NoneAssumption DEF Clients
    <2> QED BY <1>4, <2>1
  <1> QED BY <1>3, <1>5, <1>6 DEF AudiencePart

LEMMA SendMarks ==
    ASSUME IInv, Flooded, NEW cmds \in SUBSET Cleanup, NEW waiting, NEW done, NEW ended,
           Sent(cmds, waiting, done, ended), \A c \in waiting : \E d \in retry : c.id = d.id
    PROVE  MarksPart(ToUp(Stops(ended)), {})
  <1>1. /\ TypeOK /\ retry' = waiting \cup (cmds \ done)
        /\ missed' = Miss({c.id : c \in cmds \ done}, "flooded")
    BY DEF IInv, Sent
  <1>2. \A id \in Ids : /\ missed[id] \subseteq missed'[id]
                        /\ id \in {c.id : c \in cmds \ done} => "flooded" \in missed'[id]
    BY <1>1, MissAdds
  <1>3. ASSUME NEW c \in retry'
        PROVE  "flooded" \in missed'[c.id]
    <2>1. CASE c \in waiting
      <3>1. PICK d \in retry : c.id = d.id
        BY <2>1
      <3>2. d.id \in Ids
        BY <1>1 DEF TypeOK, Cleanup
      <3> QED BY <1>2, <3>1, <3>2 DEF Flooded
    <2>2. CASE c \in cmds \ done
      <3>1. c.id \in Ids
        BY <2>2 DEF Cleanup
      <3> QED BY <1>2, <2>2, <3>1
    <2> QED BY <1>1, <2>1, <2>2
  <1>4. Flooded' /\ MarksKept
    BY <1>2, <1>3 DEF Flooded, MarksKept
  <1>5. NewSeats(ToUp(Stops(ended)), {})
    BY SilentStops DEF NewSeats, Silent, Parts
  <1> QED BY <1>4, <1>5 DEF MarksPart

\* A browser that leaves a card is taken off the stream, or the stream is marked.
LEMMA SendWatches ==
    ASSUME IInv, NEW stops, NEW leaves, NEW waiting, NEW done, NEW ended,
           Sent(Cleanups(stops, leaves), waiting, done, ended),
           \A id \in Ids, v \in Browsers : Watches(v, id) => Watches(v, id)' \/ <<v, id>> \in leaves
    PROVE  WatchesOn
  <1> SUFFICES ASSUME NEW id \in Ids, NEW v \in Browsers, Watches(v, id), v \in audience'[id],
                      <<v, id>> \in leaves
               PROVE  Marked(id)'
    BY DEF WatchesOn
  <1>1. PICK cmds : cmds = Cleanups(stops, leaves)
    OBVIOUS
  <1>2. PICK c : c = [by |-> v, id |-> id, of |-> v, current |-> TRUE]
    OBVIOUS
  <1>3. v \in Up
    <2>1. id \in Viewed(v)
      BY DEF Watches, Viewed, Keys
    <2> QED BY <2>1 DEF IInv, Agreement, ChannelIsolation
  <1>4. c \in Cleanup /\ c.by = v /\ c.id = id /\ c.of = v /\ c.current
    BY <1>2 DEF Cleanup, Clients
  <1>5. c \in cmds
    BY <1>1, <1>3, <1>4 DEF Cleanups
  <1>6. c \notin done
    BY <1>4 DEF Sent
  <1>7. missed' = Miss({x.id : x \in cmds \ done}, "flooded") /\ TypeOK
    BY <1>1 DEF Sent, IInv
  <1>8. id \in {x.id : x \in cmds \ done}
    BY <1>4, <1>5, <1>6
  <1>9. "flooded" \in missed'[id]
    BY <1>7, <1>8, MissAdds
  <1> QED BY <1>9 DEF Marked, Marks

\* The viewers of a share that stops are told to TeamSpeak too.
LEMMA RetiredCounts ==
    ASSUME IInv, Bare, NEW stops, NEW leaves, streams' = Retired(stops, leaves),
           NEW heads \in SUBSET Browsers,
           \A v \in heads : inbox[v][1].type \notin {"joinAsked"} \cup Parts,
           NEW waiting, NEW done, NEW ended, Sent(Cleanups(stops, leaves), waiting, done, ended)
    PROVE  CountsPart(heads)
  <1>1. /\ TypeOK
        /\ \A b \in Browsers :
              /\ streams'[b] # None <=> streams[b] # None /\ b \notin stops
              /\ streams'[b] # None => /\ streams'[b].link = streams[b].link
                                       /\ streams'[b].natives = streams[b].natives
    BY RetiredKeeps DEF IInv, Keys
  <1>2. Bare'
    BY <1>1 DEF Bare
  <1>3. \A b \in Browsers, id \in Ids, n \in Natives :
           /\ Counts(b, id, n)' => Counts(b, id, n)
           /\ Counts(b, id, n) /\ b \notin stops => Counts(b, id, n)'
    BY <1>1 DEF Counts, Linked
  <1>4. CountsFrom(heads)
    BY <1>3 DEF CountsFrom
  <1>5. LeftHeard(heads) /\ AskedHeard(heads)
    BY DEF LeftHeard, AskedHeard, Names, Parts
  <1>6. CountsKept(heads)
    <2> SUFFICES ASSUME NEW b \in Browsers, NEW id \in Ids, NEW n \in Natives,
                        Counts(b, id, n), live'[id] = b, b \in stops
                 PROVE  Marked(id)'
      BY <1>3 DEF CountsKept
    <2>1. PICK cmds : cmds = Cleanups(stops, leaves)
      OBVIOUS
    <2>2. PICK c \in cmds : c.by = b /\ c.id = id /\ c.of = None
      BY <2>1, StopsCommanded DEF Counts, Commanded
    <2>3. /\ \A i \in Ids : live'[i] = IF i \in ended THEN None ELSE live[i]
          /\ ended = {i \in Ids : \E x \in done : x.id = i /\ x.of = None /\ live[i] = x.by}
          /\ missed' = Miss({x.id : x \in cmds \ done}, "flooded")
      BY <2>1 DEF Sent
    <2>4. id \notin ended /\ live[id] = b
      BY <2>3, NoneAssumption
    <2>5. c \notin done
      BY <2>2, <2>3, <2>4
    <2>6. id \in {x.id : x \in cmds \ done}
      BY <2>2, <2>5
    <2>7. "flooded" \in missed'[id]
      BY <1>1, <2>3, <2>6, MissAdds
    <2> QED BY <2>7 DEF Marked, Marks
  <1> QED BY <1>2, <1>4, <1>5, <1>6 DEF CountsPart

LEMMA RetireSendSeats ==
    ASSUME IInv, IInv', Seated, NEW stops, NEW leaves, stops \cap Ids = {},
           streams' = Retired(stops, leaves), NEW heads \in SUBSET Browsers,
           \A v \in heads : /\ inbox[v][1].type = "joinRefused"
                            /\ inbox[v][1].current => <<v, inbox[v][1].id>> \in leaves,
           NEW inb, Made(inb, heads, Late(stops, leaves)),
           NEW waiting \in {retry, LateCleanups(stops)},
           Send(Cleanups(stops, leaves), inb, waiting)
    PROVE  Seating(heads, {})
  <1>1. /\ TypeOK /\ TypeOK' /\ Flooded /\ Bare
        /\ \A id \in Ids : id \in Keys
    BY DEF IInv, Seated, Keys
  <1>2. PICK out : out = Late(stops, leaves)
    OBVIOUS
  <1>3. PICK cmds \in SUBSET Cleanup : cmds = Cleanups(stops, leaves)
    BY DEF Cleanups
  <1>4. PICK done, ended : /\ Sent(cmds, waiting, done, ended)
                           /\ Flow(heads, out, ToUp(Stops(ended)), {})
    BY <1>1, <1>2, <1>3, SendParts
  <1>5. \A id \in Ids, v \in Browsers :
           /\ Watches(v, id)' => /\ Watches(v, id) /\ <<v, id>> \notin leaves
                                 /\ streams'[id].channel = streams[id].channel
           /\ Watches(v, id) => Watches(v, id)' \/ <<v, id>> \in leaves
    <2>1. ASSUME NEW id \in Ids
          PROVE  /\ streams'[id] # None <=> streams[id] # None /\ id \notin stops
                 /\ streams'[id] # None =>
                       /\ streams'[id].channel = streams[id].channel
                       /\ streams'[id].viewers = {v \in streams[id].viewers : <<v, id>> \notin leaves}
      BY <1>1, RetiredKeeps
    <2> QED BY <2>1 DEF Watches
  <1>6. AudiencePart(ToUp(Stops(ended)))
    <2>1. \A c \in cmds : c.of = None \/ (c.of \in Browsers /\ ~Watches(c.of, c.id)')
      <3> SUFFICES ASSUME NEW c \in cmds, c.of # None
                   PROVE  c.of \in Browsers /\ ~Watches(c.of, c.id)'
        OBVIOUS
      <3>1. c.by \in Browsers /\ c.id \in Ids
        BY DEF Cleanup
      <3>2. c.of = c.by /\ <<c.by, c.id>> \in leaves
        BY <1>3 DEF Cleanups
      <3> QED BY <1>5, <3>1, <3>2
    <2> QED BY <1>4, <2>1, SendAudience
  <1>7. CountsPart(heads)
    <2>1. \A v \in heads : inbox[v][1].type \notin {"joinAsked"} \cup Parts
      BY DEF Parts
    <2> QED BY <1>1, <1>3, <1>4, <2>1, RetiredCounts
  <1>8. WatchesPart
    <2>1. WatchesFrom
      BY <1>5 DEF WatchesFrom
    <2>2. WatchesOn
      BY <1>3, <1>4, <1>5, SendWatches
    <2>3. RefusedKept
      <3> SUFFICES ASSUME NEW id \in Ids, NEW v \in Browsers, Watches(v, id), Watches(v, id)'
                   PROVE  /\ \A m \in out[v] : ~Is(m, "joinRefused", id)
                          /\ v \in heads => ~(Is(inbox[v][1], "joinRefused", id) /\ inbox[v][1].current)
        BY <1>1, <1>4, RefusedStays
      <3>1. <<v, id>> \notin leaves /\ id \notin stops
        BY <1>5
      <3> QED BY <1>2, <3>1 DEF Late, Is
    <2> QED BY <2>1, <2>2, <2>3 DEF WatchesPart
  <1>9. MarksPart(ToUp(Stops(ended)), {})
    <2>1. \A c \in waiting : \E d \in retry : c.id = d.id
      <3>1. ASSUME NEW d \in retry,
                   NEW c, c = [d EXCEPT !.current = @ /\ ~(d.by \in stops /\ d.of \in Natives)]
            PROVE  c.id = d.id
        BY <1>1, <3>1 DEF TypeOK, Cleanup
      <3> QED BY <3>1 DEF LateCleanups
    <2> QED BY <1>1, <1>4, <2>1, SendMarks
  <1> QED BY <1>4, <1>6, <1>7, <1>8, <1>9 DEF Seats, Seating

LEMMA StopSeats ==
    ASSUME IInv, IInv', Seated, NEW b \in Browsers, Stop(b)
    PROVE  Seating({}, {})
  <1>1. PICK stops, leaves : stops = {b} /\ leaves = {}
    OBVIOUS
  <1>2. /\ streams' = Retired(stops, leaves)
        /\ Send(Cleanups(stops, leaves), Outdated(stops, leaves), LateCleanups(stops))
        /\ TypeOK
    BY <1>1 DEF Stop, Retire, IInv
  <1>3. Made(Outdated(stops, leaves), {}, Late(stops, leaves)) /\ stops \cap Ids = {}
    BY <1>1, <1>2, MadeLate, ClientsAssumption
  <1> QED BY <1>2, <1>3, RetireSendSeats

LEMMA LeaveSeats ==
    ASSUME IInv, IInv', Seated, NEW b \in Browsers, NEW k \in Keys, Leave(b, k)
    PROVE  Seating({}, {})
  <1>1. PICK stops, leaves : stops = {} /\ leaves = {<<b, k>>}
    OBVIOUS
  <1>2. /\ streams' = Retired(stops, leaves)
        /\ Send(Cleanups(stops, leaves), Outdated(stops, leaves), retry)
        /\ TypeOK
    BY <1>1 DEF Leave, Retire, IInv
  <1>3. Made(Outdated(stops, leaves), {}, Late(stops, leaves)) /\ stops \cap Ids = {}
    BY <1>1, <1>2, MadeLate
  <1> QED BY <1>2, <1>3, RetireSendSeats

LEMMA BrowserMoveSeats ==
    ASSUME IInv, IInv', Seated, NEW b \in Browsers, NEW ch \in Channels, BrowserMove(b, ch)
    PROVE  Seating({}, {})
  <1>1. PICK stops, leaves : /\ stops = {k \in {b} : streams[k] # None}
                             /\ leaves = {b} \X {k \in Viewed(b) : streams[k].channel # ch}
    OBVIOUS
  <1>2. /\ streams' = Retired(stops, leaves)
        /\ Send(Cleanups(stops, leaves), Outdated(stops, leaves), LateCleanups(stops))
        /\ TypeOK
    BY <1>1 DEF BrowserMove, Retire, IInv
  <1>3. Made(Outdated(stops, leaves), {}, Late(stops, leaves)) /\ stops \cap Ids = {}
    BY <1>1, <1>2, MadeLate, ClientsAssumption
  <1> QED BY <1>2, <1>3, RetireSendSeats

LEMMA JoinRefusedSeats ==
    ASSUME IInv, IInv', Seated, NEW b \in Browsers, JoinRefusedAnswer(b)
    PROVE  Seating({b}, {})
  <1>1. inbox[b] # <<>> /\ Head(inbox[b]).type = "joinRefused" /\ TypeOK
    BY DEF JoinRefusedAnswer, Heads, IInv
  <1>2. PICK stops, leaves :
          /\ stops = {}
          /\ leaves = IF Head(inbox[b]).current THEN {<<b, Head(inbox[b]).id>>} ELSE {}
    OBVIOUS
  <1>3. /\ streams' = Retired(stops, leaves)
        /\ Send(Cleanups(stops, leaves), Rest(Outdated(stops, leaves), b), retry)
    BY <1>2 DEF JoinRefusedAnswer, Retire
  <1>4. Made(Rest(Outdated(stops, leaves), b), {b}, Late(stops, leaves)) /\ stops \cap Ids = {}
    BY <1>1, <1>2, MadeLate, MadeRest
  <1>5. /\ inbox[b][1].type = "joinRefused"
        /\ inbox[b][1].current => <<b, inbox[b][1].id>> \in leaves
    BY <1>1, <1>2, HeadFirst
  <1> QED BY <1>3, <1>4, <1>5, RetireSendSeats

-----------------------------------------------------------------------------
(* Announcements. *)

LEMMA LinkSeats ==
    ASSUME TypeOK, Bare, NEW c \in Browsers, NEW id \in Ids, streams[c] # None,
           streams[c].link \in {None, id}, streams' = [streams EXCEPT ![c].link = id]
    PROVE  /\ Bare' /\ ViewersSame
           /\ \A v \in Browsers, i \in Ids, n \in Natives : Counts(v, i, n)' <=> Counts(v, i, n)
  <1>1. PICK s \in Stream : s = streams[c]
    BY EntryShape DEF Keys
  <1>2. PICK r : r = [s EXCEPT !.link = id]
    OBVIOUS
  <1>3. r # None /\ r.link = id /\ r.natives = s.natives
    BY <1>2, StreamAssumption DEF Stream
  <1>4. \A k \in Browsers \cup Ids : streams'[k] = IF k = c THEN r ELSE streams[k]
    BY <1>1, <1>2 DEF TypeOK, Keys
  <1>5. \A i \in Ids : i # c /\ i # None
    BY ClientsAssumption, NoneAssumption
  <1>6. ViewersSame
    BY <1>4, <1>5 DEF ViewersSame
  <1>7. Bare'
    BY <1>3, <1>4, <1>5 DEF Bare
  <1>8. s.link = id \/ s.natives = {}
    BY <1>1 DEF Bare
  <1>9. \A v \in Browsers, i \in Ids, n \in Natives : Counts(v, i, n)' <=> Counts(v, i, n)
    BY <1>1, <1>3, <1>4, <1>5, <1>8 DEF Counts, Linked
  <1> QED BY <1>6, <1>7, <1>9

LEMMA OwnStartedSeats ==
    ASSUME IInv, IInv', Seated, NEW b \in Browsers, OwnStarted(b)
    PROVE  Seating({b}, {})
  <1>1. PICK m : m = Head(inbox[b])
    OBVIOUS
  <1>2. Heads(b, "started") /\ m.of \in Browsers /\ m.current
    BY <1>1 DEF OwnStarted
  <1>3. inbox[b] # <<>> /\ inbox[b][1] = m /\ m.type = "started" /\ m.id \in Ids
    BY <1>1, <1>2, HeadStarted DEF Announcing
  <1>4. TypeOK /\ TypeOK' /\ Flooded /\ Bare
    BY DEF IInv, Seated
  <1>5. \A v \in {b} : inbox[v][1].type \notin {"joinAsked", "joinRefused"} \cup Parts
    BY <1>3 DEF Parts
  <1>6. CASE streams[m.of] # None /\ streams[m.of].link \in {None, m.id}
    <2>1. /\ streams' = [streams EXCEPT ![m.of].link = m.id]
          /\ inbox' = Rest(inbox, b) /\ UNCHANGED <<live, audience, retry, missed>>
      BY <1>1, <1>6 DEF OwnStarted
    <2>2. /\ Bare' /\ ViewersSame
          /\ \A v \in Browsers, i \in Ids, n \in Natives : Counts(v, i, n)' <=> Counts(v, i, n)
      BY <1>2, <1>3, <1>4, <1>6, <2>1, LinkSeats
    <2>3. CountsPart({b})
      BY <1>5, <2>2, CountsEqual
    <2>4. Flow({b}, Nobody, Nobody, {})
      BY <1>3, <1>4, <2>1, RestFlow
    <2> QED BY <1>5, <2>1, <2>2, <2>3, <2>4, SilentNobody, NobodyShape, SameMarks, HeardSeats
  <1>7. CASE ~(streams[m.of] # None /\ streams[m.of].link \in {None, m.id})
    <2>1. PICK c : c = [by |-> m.of, id |-> m.id, of |-> None, current |-> TRUE]
      OBVIOUS
    <2>2. c \in Cleanup /\ c.of = None
      BY <1>2, <1>3, <2>1 DEF Cleanup
    <2>3. PICK cmds \in SUBSET Cleanup : cmds = {c}
      BY <2>2
    <2>4. Send(cmds, Rest(inbox, b), retry) /\ streams' = streams
      BY <1>1, <1>7, <2>1, <2>3 DEF OwnStarted
    <2>5. Made(Rest(inbox, b), {b}, Nobody)
      BY <1>3, <1>4, MadeNow, MadeRest
    <2>6. PICK done, ended : /\ Sent(cmds, retry, done, ended)
                             /\ Flow({b}, Nobody, ToUp(Stops(ended)), {})
      BY <1>4, <2>4, <2>5, SendParts
    <2>7. AudiencePart(ToUp(Stops(ended)))
      BY <2>2, <2>3, <2>6, SendAudience
    <2>8. MarksPart(ToUp(Stops(ended)), {})
      BY <1>4, <2>6, SendMarks
    <2>9. CountsPart({b})
      BY <1>4, <1>5, <2>4, SameStreams, CountsSame
    <2>10. RefusedKept
      BY <1>4, <1>5, <2>6, NobodyShape, RefusedStays DEF Is
    <2>11. WatchesPart
      BY <2>4, <2>10, SameStreams, WatchesSame
    <2> QED BY <2>6, <2>7, <2>8, <2>9, <2>11 DEF Seats, Seating
  <1> QED BY <1>6, <1>7

\* What is retired first as stream id is announced in channel ch.
Replaces(stops, leaves, id, ch) ==
    LET moved == streams[id] # None /\ streams[id].channel # ch IN
    /\ stops = IF moved THEN {id} ELSE {}
    /\ leaves = IF moved THEN streams[id].viewers \X {id} ELSE {}

\* Viewers are the same but for those in leaves.
ViewersLeave(stops, leaves) ==
    \A i \in Ids, v \in Browsers :
       /\ Watches(v, i)' => /\ Watches(v, i) /\ <<v, i>> \notin leaves /\ i \notin stops
                            /\ streams'[i].channel = streams[i].channel
       /\ Watches(v, i) => Watches(v, i)' \/ <<v, i>> \in leaves

\* The viewers of a card that is announced again stay, or leave as it moves.
LEMMA CardViewers ==
    ASSUME TypeOK, NEW id \in Ids, NEW c \in Clients, NEW ch \in Channels, NEW stops, NEW leaves,
           Replaces(stops, leaves, id, ch), streams' = Carded(stops, leaves, id, c, ch)
    PROVE  SharesSame /\ ViewersLeave(stops, leaves)
  <1>0. /\ stops = IF streams[id] # None /\ streams[id].channel # ch THEN {id} ELSE {}
        /\ leaves = IF streams[id] # None /\ streams[id].channel # ch
                    THEN streams[id].viewers \X {id} ELSE {}
    BY DEF Replaces
  <1>1. PICK r : r = Retired(stops, leaves)
    OBVIOUS
  <1>2. ASSUME NEW k \in Keys
        PROVE  /\ r[k] \in Stream \cup {None}
               /\ r[k] # None <=> streams[k] # None /\ k \notin stops
               /\ r[k] # None => /\ r[k].channel = streams[k].channel /\ r[k].link = streams[k].link
                                 /\ r[k].natives = streams[k].natives
                                 /\ k = id \/ r[k].viewers = streams[k].viewers
                                 /\ leaves = {} => r[k].viewers = streams[k].viewers
    <2>1. /\ r[k] \in Stream \cup {None}
          /\ r[k] # None <=> streams[k] # None /\ k \notin stops
      BY <1>1, RetiredShape
    <2>2. CASE r[k] # None
      <3>1. PICK s \in Stream : s = streams[k]
        BY <2>1, <2>2, EntryShape
      <3>2. PICK set : set = {v \in s.viewers : <<v, k>> \notin leaves}
        OBVIOUS
      <3>3. r[k] = [s EXCEPT !.viewers = set]
        BY <1>1, <2>1, <2>2, <3>1, <3>2 DEF Retired
      <3>4. k = id \/ set = s.viewers
        BY <1>0, <3>2
      <3>5. leaves = {} => set = s.viewers
        BY <3>2
      <3> QED BY <2>1, <3>1, <3>3, <3>4, <3>5 DEF Stream
    <2> QED BY <2>1, <2>2
  <1>3. r = [k \in Keys |-> r[k]]
    BY <1>1 DEF Retired
  <1>4. PICK e : e = IF r[id] = None THEN NewStream(c, ch) ELSE [r[id] EXCEPT !.src = c]
    OBVIOUS
  <1>5. \A k \in Keys : streams'[k] = IF k = id THEN e ELSE r[k]
    BY <1>1, <1>3, <1>4 DEF Carded
  <1>6. /\ r[id] = None => e.viewers = {}
        /\ r[id] # None => e.viewers = r[id].viewers /\ e.channel = r[id].channel
    <2>1. CASE r[id] = None
      BY <1>4, <2>1 DEF NewStream
    <2>2. CASE r[id] # None
      <3>1. PICK s \in Stream : s = r[id]
        BY <1>2, <2>2 DEF Keys
      <3> QED BY <1>4, <2>2, <3>1 DEF Stream
    <2> QED BY <2>1, <2>2
  <1>7. \A k \in Browsers \cup Ids : k \in Keys
    BY DEF Keys
  <1>8. \A v \in Browsers : v # id /\ v \notin stops
    BY <1>0, ClientsAssumption
  <1>9. SharesSame
    BY <1>2, <1>5, <1>7, <1>8 DEF SharesSame
  <1>10. ASSUME NEW i \in Ids, NEW v \in Browsers
         PROVE  /\ Watches(v, i)' => /\ Watches(v, i) /\ <<v, i>> \notin leaves /\ i \notin stops
                                     /\ streams'[i].channel = streams[i].channel
                /\ Watches(v, i) => Watches(v, i)' \/ <<v, i>> \in leaves
    <2>1. CASE i # id
      <3>1. streams'[i] = r[i] /\ i \notin stops /\ <<v, i>> \notin leaves
        BY <1>0, <1>5, <1>7, <2>1
      <3> QED BY <1>2, <1>7, <2>1, <3>1 DEF Watches
    <2>2. CASE i = id /\ streams[id] # None /\ streams[id].channel # ch
      <3>1. r[id] = None
        BY <1>0, <1>2, <1>7, <2>2
      <3>2. streams'[id].viewers = {}
        BY <1>5, <1>6, <1>7, <3>1
      <3>3. Watches(v, i) => <<v, i>> \in leaves
        BY <1>0, <2>2 DEF Watches
      <3> QED BY <2>2, <3>2, <3>3 DEF Watches
    <2>3. CASE i = id /\ ~(streams[id] # None /\ streams[id].channel # ch)
      <3>1. leaves = {} /\ stops = {}
        BY <1>0, <2>3
      <3>2. CASE streams[id] = None
        <4>1. ~Watches(v, i)'
          BY <1>2, <1>5, <1>6, <1>7, <2>3, <3>2 DEF Watches
        <4> QED BY <2>3, <3>2, <4>1 DEF Watches
      <3>3. CASE streams[id] # None
        <4>1. /\ r[id] # None /\ r[id].viewers = streams[id].viewers
              /\ r[id].channel = streams[id].channel
          BY <1>2, <1>7, <3>1, <3>3
        <4>2. /\ streams'[id].viewers = streams[id].viewers
              /\ streams'[id].channel = streams[id].channel
          BY <1>5, <1>6, <1>7, <4>1
        <4>3. streams'[id] # None
          <5>1. PICK s \in Stream : s = r[id]
            BY <1>2, <1>7, <4>1
          <5> QED BY <1>4, <1>5, <1>7, <4>1, <5>1, SourceSet, StreamAssumption DEF Altered
        <4> QED BY <2>3, <3>1, <3>3, <4>2, <4>3 DEF Watches
      <3> QED BY <3>2, <3>3
    <2> QED BY <2>1, <2>2, <2>3
  <1> QED BY <1>9, <1>10 DEF ViewersLeave

LEMMA CardStartedSeats ==
    ASSUME IInv, IInv', Seated, NEW b \in Browsers, CardStarted(b)
    PROVE  Seating({b}, {})
  <1>1. PICK m : m = Head(inbox[b])
    OBVIOUS
  <1>2. /\ inbox[b] # <<>> /\ inbox[b][1] = m /\ m.type = "started" /\ m.id \in Ids
        /\ m.of \in Clients
    BY <1>1, HeadStarted DEF Announcing, CardStarted
  <1>3. TypeOK /\ TypeOK' /\ Flooded /\ Bare
    BY DEF IInv, Seated
  <1>4. \A v \in {b} : inbox[v][1].type \notin {"joinAsked", "joinRefused"} \cup Parts
    BY <1>2 DEF Parts
  <1>5. PICK ch \in SourceChannels(b, m) :
          IF ch = None
          THEN /\ inbox' = Rest(inbox, b)
               /\ missed' = IF m.of \in Natives THEN Miss({m.id}, "start") ELSE missed
               /\ UNCHANGED <<registry, live, audience, retry>>
          ELSE LET old == streams[m.id]
                   moved == old # None /\ old.channel # ch
                   stops == IF moved THEN {m.id} ELSE {}
                   leaves == IF moved THEN old.viewers \X {m.id} ELSE {} IN
               /\ streams' = [Retired(stops, leaves) EXCEPT
                     ![m.id] = IF @ = None THEN NewStream(m.of, ch) ELSE [@ EXCEPT !.src = m.of]]
               /\ Tell(stops, leaves)
               /\ Send(Cleanups(stops, leaves), Rest(Outdated(stops, leaves), b), retry)
    BY <1>1 DEF CardStarted
  <1>6. CASE ch = None
    <2>1. /\ inbox' = Rest(inbox, b)
          /\ missed' = missed \/ missed' = Miss({m.id}, "start")
          /\ UNCHANGED <<streams, live, audience, retry>>
      BY <1>5, <1>6 DEF registry
    <2>2. Flow({b}, Nobody, Nobody, {})
      BY <1>2, <1>3, <2>1, RestFlow
    <2>3. MarksKept
      BY <1>3, <2>1, SameMarks, MissMarks
    <2> QED BY <1>4, <2>1, <2>2, <2>3, SilentNobody, NobodyShape, SameStreams, CalmSeats
  <1>7. CASE ch # None
    <2>1. PICK stops, leaves :
            /\ stops = IF streams[m.id] # None /\ streams[m.id].channel # ch THEN {m.id} ELSE {}
            /\ leaves = IF streams[m.id] # None /\ streams[m.id].channel # ch
                        THEN streams[m.id].viewers \X {m.id} ELSE {}
      OBVIOUS
    <2>2. /\ streams' = Carded(stops, leaves, m.id, m.of, ch)
          /\ Send(Cleanups(stops, leaves), Rest(Outdated(stops, leaves), b), retry)
      BY <1>5, <1>7, <2>1 DEF Carded
    <2>3. ch \in Channels
      BY <1>2, <1>3, <1>7, SourceChannelsShape
    <2>4. SharesSame /\ ViewersLeave(stops, leaves)
      <3>1. Replaces(stops, leaves, m.id, ch)
        BY <2>1 DEF Replaces
      <3> QED BY <1>2, <1>3, <2>2, <2>3, <3>1, CardViewers
    <2>5. PICK out : out = Late(stops, leaves)
      OBVIOUS
    <2>6. Made(Rest(Outdated(stops, leaves), b), {b}, out)
      BY <1>2, <1>3, <2>5, MadeLate, MadeRest
    <2>7. PICK cmds \in SUBSET Cleanup : cmds = Cleanups(stops, leaves)
      BY CleanupsShape
    <2>8. PICK done, ended : /\ Sent(cmds, retry, done, ended)
                             /\ Flow({b}, out, ToUp(Stops(ended)), {})
      BY <1>3, <2>2, <2>6, <2>7, SendParts
    <2>9. AudiencePart(ToUp(Stops(ended)))
      <3>1. \A c \in cmds : c.of = None \/ (c.of \in Browsers /\ ~Watches(c.of, c.id)')
        <4> SUFFICES ASSUME NEW c \in cmds, c.of # None
                     PROVE  c.of \in Browsers /\ ~Watches(c.of, c.id)'
          OBVIOUS
        <4>1. c.by \in Browsers /\ c.id \in Ids
          BY DEF Cleanup
        <4>2. c.of = c.by /\ <<c.by, c.id>> \in leaves
          BY <2>7 DEF Cleanups
        <4> QED BY <2>4, <4>1, <4>2 DEF ViewersLeave
      <3> QED BY <2>8, <3>1, SendAudience
    <2>10. MarksPart(ToUp(Stops(ended)), {})
      BY <1>3, <2>8, SendMarks
    <2>11. CountsPart({b})
      BY <1>3, <1>4, <2>4, CountsSame
    <2>12. WatchesFrom /\ WatchesOn
      BY <2>4, <2>7, <2>8, SendWatches DEF WatchesFrom, ViewersLeave
    <2>13. RefusedKept
      <3> SUFFICES ASSUME NEW id \in Ids, NEW v \in Browsers, Watches(v, id), Watches(v, id)'
                   PROVE  /\ \A x \in out[v] : ~Is(x, "joinRefused", id)
                          /\ v \in {b} => ~Is(inbox[v][1], "joinRefused", id)
        BY <1>3, <2>8, RefusedStays
      <3>1. \A x \in out[v] : ~Is(x, "joinRefused", id)
        BY <2>4, <2>5 DEF Late, Is, ViewersLeave
      <3> QED BY <1>4, <3>1 DEF Is
    <2> QED BY <2>8, <2>9, <2>10, <2>11, <2>12, <2>13 DEF Seats, Seating, WatchesPart
  <1> QED BY <1>6, <1>7

\* Cards are retired whose streams have no audience, or are marked.
LEMMA RetireSeats ==
    ASSUME IInv, IInv', Seated, NEW stops \in SUBSET Ids, streams' = Retired(stops, {}),
           NEW b \in Browsers, inbox[b] # <<>>,
           inbox[b][1].type \notin {"joinAsked", "joinRefused"} \cup Parts,
           inbox' = Rest(Outdated(stops, {}), b), UNCHANGED <<live, audience, retry>>,
           MarksKept, \A id \in stops : audience[id] = {} \/ Marked(id)'
    PROVE  Seating({b}, {})
  <1>1. /\ TypeOK /\ TypeOK' /\ Audible /\ Flooded /\ Bare
        /\ \A v \in {b} : inbox[v][1].type \notin {"joinAsked", "joinRefused"} \cup Parts
    BY DEF IInv, Seated
  <1>2. ASSUME NEW k \in Browsers \cup Ids
        PROVE  /\ streams'[k] # None <=> streams[k] # None /\ k \notin stops
               /\ streams'[k] # None =>
                      /\ streams'[k].channel = streams[k].channel
                      /\ streams'[k].link = streams[k].link
                      /\ streams'[k].natives = streams[k].natives
                      /\ streams'[k].viewers = streams[k].viewers
    <2>1. k \in Keys
      BY DEF Keys
    <2>2. PICK leaves : leaves = {}
      OBVIOUS
    <2>3. streams' = Retired(stops, leaves)
      BY <2>2
    <2>4. /\ streams'[k] # None <=> streams[k] # None /\ k \notin stops
          /\ streams'[k] # None =>
                 /\ streams'[k].channel = streams[k].channel
                 /\ streams'[k].link = streams[k].link
                 /\ streams'[k].natives = streams[k].natives
                 /\ streams'[k].viewers = {v \in streams[k].viewers : <<v, k>> \notin leaves}
      BY <1>1, <2>1, <2>3, RetiredKeeps
    <2>5. {v \in streams[k].viewers : <<v, k>> \notin leaves} = streams[k].viewers
      BY <2>2
    <2> QED BY <2>4, <2>5
  <1>3. SharesSame
    BY <1>2, ClientsAssumption DEF SharesSame
  <1>4. \A id \in Ids, v \in Browsers :
           /\ Watches(v, id)' => /\ Watches(v, id) /\ id \notin stops
                                 /\ streams'[id].channel = streams[id].channel
           /\ Watches(v, id) => Watches(v, id)' \/ id \in stops
    BY <1>2 DEF Watches
  <1>5. PICK out : out = Late(stops, {})
    OBVIOUS
  <1>6. Flow({b}, out, Nobody, {})
    <2>1. Made(inbox', {b}, out)
      BY <1>1, <1>5, MadeLate, MadeRest
    <2> QED BY <1>1, <2>1, MadeFlow
  <1>7. AudiencePart(Nobody)
    BY <1>1, AudienceSame
  <1>8. CountsPart({b})
    BY <1>1, <1>3, CountsSame
  <1>9. WatchesFrom /\ WatchesOn
    BY <1>4 DEF WatchesFrom, WatchesOn
  <1>10. RefusedKept
    <2> SUFFICES ASSUME NEW id \in Ids, NEW v \in Browsers, Watches(v, id), Watches(v, id)'
                 PROVE  /\ \A x \in out[v] : ~Is(x, "joinRefused", id)
                        /\ v \in {b} => ~Is(inbox[v][1], "joinRefused", id)
      BY <1>1, <1>6, RefusedStays
    <2>1. \A x \in out[v] : ~Is(x, "joinRefused", id)
      BY <1>4, <1>5 DEF Late, Is
    <2> QED BY <1>1, <2>1 DEF Is
  <1>11. MarksPart(Nobody, {})
    BY <1>1, SilentNobody, MarksSame
  <1> QED BY <1>6, <1>7, <1>8, <1>9, <1>10, <1>11 DEF Seats, Seating, WatchesPart

LEMMA AtNoticeSeats ==
    ASSUME IInv, IInv', Seated, NEW b \in Browsers, AtNotice(b)
    PROVE  Seating({b}, {})
  <1>1. PICK m : m = Head(inbox[b])
    OBVIOUS
  <1>2. PICK stops \in SUBSET Ids :
          stops = {id \in Ids : /\ directory[b][m.of] # None
                                /\ streams[id] # None /\ streams[id].src = m.of
                                /\ streams[id].channel # m.id}
    OBVIOUS
  <1>3. /\ inbox[b] # <<>> /\ m.type = "at" /\ TypeOK
        /\ streams' = Retired(stops, {}) /\ inbox' = Rest(Outdated(stops, {}), b)
        /\ missed' = Miss(stops, "moved") /\ UNCHANGED <<live, audience, retry>>
    BY <1>1, <1>2 DEF AtNotice, Heads, Retire, IInv
  <1>4. inbox[b][1].type \notin {"joinAsked", "joinRefused"} \cup Parts
    BY <1>1, <1>3, HeadFirst DEF Parts
  <1>5. MarksKept
    BY <1>3, MissMarks
  <1>6. \A id \in stops : Marked(id)'
    BY <1>3, MissAdds DEF Marked, Marks
  <1> QED BY <1>3, <1>4, <1>5, <1>6, RetireSeats

LEMMA StoppedNoticeSeats ==
    ASSUME IInv, IInv', Published, Seated, NEW b \in Browsers, StoppedNotice(b)
    PROVE  Seating({b}, {})
  <1>1. PICK m \in Message : m = Head(inbox[b])
    BY HeadShape DEF StoppedNotice, Heads, IInv
  <1>2. /\ inbox[b] # <<>> /\ m.type = "stopped" /\ TypeOK
        /\ UNCHANGED <<live, audience, retry, missed>>
        /\ StoppedTrue /\ Audible /\ Bare
    BY <1>1 DEF StoppedNotice, Heads, IInv, Published, Seated
  <1>3. PICK id \in Ids : id = m.id
    BY <1>2, MessageShape
  <1>4. PICK cards \in SUBSET Ids : cards = {k \in {id} : streams[k] # None}
    OBVIOUS
  <1>5. /\ inbox' = Rest(Outdated(cards, {}), b)
        /\ streams' = IF cards # {} THEN Retired(cards, {})
                      ELSE [k \in Keys |-> IF k \in Browsers /\ Linked(k, id)
                            THEN [streams[k] EXCEPT !.link = None, !.natives = {}] ELSE streams[k]]
    BY <1>1, <1>3, <1>4 DEF StoppedNotice, Linked
  <1>6. Is(inbox[b][1], "stopped", id) /\ 1 \in 1..Len(inbox[b])
    BY <1>1, <1>2, <1>3, HeadFirst DEF Is
  <1>7. live[id] = None /\ audience[id] = {}
    <2>1. Has(inbox[b], "stopped", id)
      BY <1>6 DEF Has
    <2> QED BY <1>2, <2>1 DEF StoppedTrue, Audible
  <1>8. inbox[b][1].type \notin {"joinAsked", "joinRefused"} \cup Parts
    BY <1>6 DEF Is, Parts
  <1>9. CASE cards # {}
    <2>1. \A i \in cards : audience[i] = {}
      BY <1>4, <1>7
    <2> QED BY <1>2, <1>5, <1>8, <1>9, <2>1, SameMarks, RetireSeats
  <1>10. CASE cards = {}
    <2>1. \A k \in Browsers \cup Ids :
             ~(k \in Browsers /\ Linked(k, id)) => streams'[k] = streams[k]
      BY <1>5, <1>10 DEF Keys
    <2>2. ASSUME NEW k \in Browsers, Linked(k, id)
          PROVE  streams'[k].link = None /\ streams'[k].natives = {}
      <3>1. k \in Keys
        BY DEF Keys
      <3>2. PICK s \in Stream : s = streams[k]
        BY <1>2, <2>2, <3>1, EntryShape DEF Linked
      <3>3. streams'[k] = [s EXCEPT !.link = None, !.natives = {}]
        BY <1>5, <1>10, <2>2, <3>1, <3>2
      <3> QED BY <3>3 DEF Stream
    <2>3. ViewersSame
      BY <2>1, ClientsAssumption DEF ViewersSame
    <2>4. Bare'
      BY <1>2, <2>1, <2>2 DEF Bare
    <2>5. \A v \in Browsers, i \in Ids, n \in Natives :
             /\ Counts(v, i, n)' => Counts(v, i, n)
             /\ Counts(v, i, n) => Counts(v, i, n)' \/ i = id
      BY <2>1, <2>2, NoneAssumption DEF Counts, Linked
    <2>6. CountsPart({b})
      <3>1. CountsFrom({b})
        BY <2>5 DEF CountsFrom
      <3>2. LeftHeard({b}) /\ AskedHeard({b})
        BY <1>8 DEF LeftHeard, AskedHeard, Names, Parts
      <3>3. CountsKept({b})
        BY <1>7, <2>5, NoneAssumption DEF CountsKept
      <3> QED BY <2>4, <3>1, <3>2, <3>3 DEF CountsPart
    <2>7. PICK out : out = Late(cards, {})
      OBVIOUS
    <2>8. Flow({b}, out, Nobody, {})
      <3>1. Made(inbox', {b}, out)
        BY <1>2, <1>5, <2>7, MadeLate, MadeRest
      <3> QED BY <1>2, <3>1, MadeFlow
    <2>9. \A v \in Browsers : \A x \in out[v] : x.type # "joinRefused"
      BY <1>10, <2>7 DEF Late
    <2>10. \A v \in {b} : inbox[v][1].type # "joinRefused"
      BY <1>8
    <2> QED BY <1>2, <2>3, <2>6, <2>8, <2>9, <2>10, SilentNobody, SameMarks, HeardSeats
  <1> QED BY <1>9, <1>10

-----------------------------------------------------------------------------
(* What the owner of a share is told of its native viewers. *)

LEMMA NativesSeats ==
    ASSUME TypeOK, NEW b \in Browsers, streams[b] # None, NEW set \in SUBSET Natives,
           streams' = [streams EXCEPT ![b].natives = set]
    PROVE  /\ ViewersSame
           /\ \A v \in Browsers : streams'[v] # None <=> streams[v] # None
           /\ \A v \in Browsers : streams'[v].link = streams[v].link
           /\ streams'[b].natives = set
           /\ \A v \in Browsers \ {b} : streams'[v].natives = streams[v].natives
  <1>1. PICK s \in Stream : s = streams[b]
    BY EntryShape DEF Keys
  <1>2. PICK r : r = [s EXCEPT !.natives = set]
    OBVIOUS
  <1>3. r # None /\ r.link = s.link /\ r.natives = set
    <2>1. r # None
      BY <1>1, <1>2, NativesSet, StreamAssumption DEF Altered
    <2> QED BY <1>2, <2>1 DEF Stream
  <1>4. \A k \in Browsers \cup Ids : streams'[k] = IF k = b THEN r ELSE streams[k]
    BY <1>1, <1>2 DEF TypeOK, Keys
  <1>5. ViewersSame
    BY <1>4, ClientsAssumption DEF ViewersSame
  <1> QED BY <1>1, <1>3, <1>4, <1>5

LEMMA JoinAskedSeats ==
    ASSUME IInv, IInv', Seated, NEW b \in Browsers, JoinAskedNotice(b)
    PROVE  Seating({b}, {})
  <1>1. PICK m \in Message : m = Head(inbox[b])
    BY HeadShape DEF JoinAskedNotice, Heads, IInv
  <1>2. /\ inbox[b] # <<>> /\ m.type = "joinAsked" /\ TypeOK /\ Bare
        /\ inbox' = Rest(inbox, b) /\ UNCHANGED <<live, audience, retry, missed>>
        /\ streams' = IF Linked(b, m.id)
                      THEN [streams EXCEPT ![b].natives = streams[b].natives \cup {m.of}] ELSE streams
    BY <1>1 DEF JoinAskedNotice, Heads, IInv, Seated, Linked
  <1>3. inbox[b][1] = m /\ m.of \in Natives /\ m.id \in Ids
    BY <1>1, <1>2, HeadFirst, MessageShape
  <1>4. Flow({b}, Nobody, Nobody, {})
    BY <1>2, RestFlow
  <1>5. ViewersSame /\ CountsPart({b})
    <2>1. CASE ~Linked(b, m.id)
      <3>1. streams' = streams
        BY <1>2, <2>1
      <3>2. ViewersSame /\ SharesSame
        BY <3>1, SameStreams
      <3>3. Bare'
        BY <1>2, <3>2 DEF Bare, SharesSame
      <3>4. CountsFrom({b}) /\ CountsKept({b})
        BY <3>1 DEF CountsFrom, CountsKept, Counts, Linked
      <3>5. LeftHeard({b}) /\ AskedHeard({b})
        BY <1>2, <1>3, <2>1 DEF LeftHeard, AskedHeard, Names
      <3> QED BY <3>2, <3>3, <3>4, <3>5 DEF CountsPart
    <2>2. CASE Linked(b, m.id)
      <3>1. PICK set : set = streams[b].natives \cup {m.of}
        OBVIOUS
      <3>2. streams[b] # None /\ b \in Keys
        BY <2>2 DEF Linked, Keys
      <3>3. set \in SUBSET Natives
        BY <1>2, <1>3, <3>1, <3>2, EntryShape, StreamShape
      <3>4. streams' = [streams EXCEPT ![b].natives = set]
        BY <1>2, <2>2, <3>1
      <3>5. /\ ViewersSame
            /\ \A v \in Browsers : streams'[v] # None <=> streams[v] # None
            /\ \A v \in Browsers : streams'[v].link = streams[v].link
            /\ streams'[b].natives = set
            /\ \A v \in Browsers \ {b} : streams'[v].natives = streams[v].natives
        BY <1>2, <3>2, <3>3, <3>4, NativesSeats
      <3>6. Bare'
        BY <1>2, <2>2, <3>5, NoneAssumption, <1>3 DEF Bare, Linked
      <3>7. \A v \in Browsers, i \in Ids, n \in Natives :
               Counts(v, i, n)' <=> Counts(v, i, n) \/ (v = b /\ i = m.id /\ n = m.of)
        BY <2>2, <3>1, <3>5 DEF Counts, Linked
      <3>8. CountsFrom({b}) /\ CountsKept({b})
        BY <1>2, <1>3, <3>7 DEF CountsFrom, CountsKept, Names
      <3>9. LeftHeard({b}) /\ AskedHeard({b})
        BY <1>2, <1>3, <3>7 DEF LeftHeard, AskedHeard, Names
      <3> QED BY <3>5, <3>6, <3>8, <3>9 DEF CountsPart
    <2> QED BY <2>1, <2>2
  <1>6. \A v \in {b} : inbox[v][1].type # "joinRefused"
    BY <1>2, <1>3
  <1> QED BY <1>2, <1>4, <1>5, <1>6, SilentNobody, NobodyShape, SameMarks, HeardSeats

LEMMA ClientLeftSeats ==
    ASSUME IInv, IInv', Seated, NEW b \in Browsers, ClientLeftNotice(b)
    PROVE  Seating({b}, {})
  <1>1. PICK m \in Message : m = Head(inbox[b])
    BY HeadShape DEF ClientLeftNotice, Heads, IInv
  <1>2. /\ inbox[b] # <<>> /\ m.type = "clientLeft" /\ TypeOK /\ Bare
        /\ inbox' = Rest(inbox, b) /\ UNCHANGED <<live, audience, retry, missed>>
        /\ streams' = [k \in Keys |-> IF k \in Browsers /\ streams[k] # None /\ streams[k].link = m.id
                                      THEN [streams[k] EXCEPT !.natives = @ \ {m.of}] ELSE streams[k]]
    BY <1>1 DEF ClientLeftNotice, Heads, IInv, Seated
  <1>3. inbox[b][1] = m /\ m.of \in Natives /\ m.id \in Ids
    BY <1>1, <1>2, HeadFirst, MessageShape
  <1>4. Flow({b}, Nobody, Nobody, {})
    BY <1>2, RestFlow
  <1>5. \A k \in Browsers \cup Ids : ~(k \in Browsers /\ Linked(k, m.id)) => streams'[k] = streams[k]
    BY <1>2 DEF Keys, Linked
  <1>6. ASSUME NEW k \in Browsers, Linked(k, m.id)
        PROVE  /\ streams'[k] # None /\ streams'[k].link = streams[k].link
               /\ streams'[k].natives = streams[k].natives \ {m.of}
    <2>1. k \in Keys
      BY DEF Keys
    <2>2. PICK s \in Stream : s = streams[k]
      BY <1>2, <1>6, <2>1, EntryShape DEF Linked
    <2>3. PICK set : set = s.natives \ {m.of}
      OBVIOUS
    <2>4. streams'[k] = [s EXCEPT !.natives = set]
      BY <1>2, <1>6, <2>1, <2>2, <2>3 DEF Linked
    <2>5. set \in SUBSET Natives
      BY <2>2, <2>3, StreamShape
    <2>6. streams'[k] # None
      BY <2>4, <2>5, NativesSet, StreamAssumption DEF Altered
    <2> QED BY <2>2, <2>3, <2>4, <2>6 DEF Stream
  <1>7. ViewersSame
    BY <1>5, ClientsAssumption DEF ViewersSame
  <1>8. Bare'
    BY <1>2, <1>3, <1>5, <1>6, NoneAssumption DEF Bare, Linked
  <1>9. \A v \in Browsers, i \in Ids, n \in Natives :
           Counts(v, i, n)' <=> Counts(v, i, n) /\ ~(i = m.id /\ n = m.of)
    BY <1>5, <1>6 DEF Counts, Linked
  <1>10. CountsPart({b})
    <2>1. CountsFrom({b}) /\ CountsKept({b})
      BY <1>2, <1>3, <1>9 DEF CountsFrom, CountsKept, Names
    <2>2. LeftHeard({b}) /\ AskedHeard({b})
      BY <1>2, <1>3, <1>9 DEF LeftHeard, AskedHeard, Names
    <2> QED BY <1>8, <2>1, <2>2 DEF CountsPart
  <1>11. \A v \in {b} : inbox[v][1].type # "joinRefused"
    BY <1>2, <1>3
  <1> QED BY <1>2, <1>4, <1>7, <1>10, <1>11, SilentNobody, NobodyShape, SameMarks, HeardSeats

LEMMA RemovedSeats ==
    ASSUME IInv, IInv', Seated, NEW b \in Browsers, RemovedAnswer(b)
    PROVE  Seating({b}, {})
  <1>1. PICK m \in Message : m = Head(inbox[b])
    BY HeadShape DEF RemovedAnswer, Heads, IInv
  <1>2. /\ inbox[b] # <<>> /\ m.type = "removed" /\ TypeOK /\ Bare
        /\ inbox' = Rest(inbox, b) /\ UNCHANGED <<live, audience, retry>>
        /\ \/ /\ streams[b] # None /\ missed' = Miss({streams[b].link} \ {m.id}, "crossed")
              /\ streams' = [streams EXCEPT ![b].natives = streams[b].natives \ {m.of}]
           \/ streams' = streams /\ missed' = missed
    BY <1>1 DEF RemovedAnswer, Heads, IInv, Seated
  <1>3. inbox[b][1] = m /\ m.of \in Natives /\ m.id \in Ids
    BY <1>1, <1>2, HeadFirst, MessageShape
  <1>4. Flow({b}, Nobody, Nobody, {})
    BY <1>2, RestFlow
  <1>5. MarksKept
    BY <1>2, SameMarks, MissMarks
  <1>6. LeftHeard({b}) /\ AskedHeard({b})
    BY <1>2, <1>3 DEF LeftHeard, AskedHeard, Names
  <1>7. ViewersSame /\ CountsPart({b})
    <2>1. CASE streams' = streams
      <3>1. ViewersSame /\ SharesSame
        BY <2>1, SameStreams
      <3>2. Bare'
        BY <1>2, <3>1 DEF Bare, SharesSame
      <3>3. CountsFrom({b}) /\ CountsKept({b})
        BY <2>1 DEF CountsFrom, CountsKept, Counts, Linked
      <3> QED BY <1>6, <3>1, <3>2, <3>3 DEF CountsPart
    <2>2. CASE streams' # streams
      <3>1. PICK set : set = streams[b].natives \ {m.of}
        OBVIOUS
      <3>2. streams[b] # None /\ b \in Keys
        BY <1>2, <2>2 DEF Keys
      <3>3. set \in SUBSET Natives
        BY <1>2, <3>1, <3>2, EntryShape, StreamShape
      <3>4. streams' = [streams EXCEPT ![b].natives = set]
        BY <1>2, <2>2, <3>1
      <3>5. /\ ViewersSame
            /\ \A v \in Browsers : streams'[v] # None <=> streams[v] # None
            /\ \A v \in Browsers : streams'[v].link = streams[v].link
            /\ streams'[b].natives = set
            /\ \A v \in Browsers \ {b} : streams'[v].natives = streams[v].natives
        BY <1>2, <3>2, <3>3, <3>4, NativesSeats
      <3>6. Bare'
        BY <1>2, <3>1, <3>5 DEF Bare
      <3>7. \A v \in Browsers, i \in Ids, n \in Natives :
               /\ Counts(v, i, n)' => Counts(v, i, n)
               /\ Counts(v, i, n) => Counts(v, i, n)' \/ (v = b /\ n = m.of /\ i = streams[b].link)
        BY <3>1, <3>5 DEF Counts, Linked
      <3>8. \A i \in Ids : i = streams[b].link => i = m.id \/ Marked(i)'
        <4>1. missed' = Miss({streams[b].link} \ {m.id}, "crossed")
          BY <1>2, <2>2
        <4>2. \A i \in Ids : i \in {streams[b].link} \ {m.id} => "crossed" \in missed'[i]
          BY <1>2, <4>1, MissAdds
        <4> QED BY <4>2 DEF Marked, Marks
      <3>9. CountsFrom({b})
        BY <3>7 DEF CountsFrom
      <3>10. CountsKept({b})
        BY <1>2, <1>3, <3>7, <3>8 DEF CountsKept, Names
      <3> QED BY <1>6, <3>5, <3>6, <3>9, <3>10 DEF CountsPart
    <2> QED BY <2>1, <2>2
  <1>8. \A v \in {b} : inbox[v][1].type # "joinRefused"
    BY <1>2, <1>3
  <1> QED BY <1>2, <1>4, <1>5, <1>7, <1>8, SilentNobody, NobodyShape, HeardSeats

-----------------------------------------------------------------------------
(* The steps of the server that change an audience. *)

\* The registry stays.
LEMMA ServerSeats ==
    ASSUME IInv, IInv', Seated, streams' = streams, NEW new, Flow({}, Nobody, new, {}),
           AudiencePart(new), MarksPart(new, {})
    PROVE  Seating({}, {})
  <1>1. TypeOK /\ TypeOK' /\ Bare /\ SharesSame /\ ViewersSame
    BY SameStreams DEF IInv, Seated
  <1>2. CountsPart({})
    BY <1>1, CountsSame
  <1>3. RefusedKept
    BY <1>1, NobodyShape, RefusedStays
  <1>4. WatchesPart
    BY <1>1, <1>3, WatchesSame
  <1> QED BY <1>2, <1>4 DEF Seats, Seating

LEMMA WatchSeats ==
    ASSUME IInv, IInv', Seated, NEW n \in Natives, NEW id \in Ids, Watch(n, id)
    PROVE  Seating({}, {})
  <1>1. /\ TypeOK /\ Flooded /\ live[id] \in Browsers
        /\ audience' = [audience EXCEPT ![id] = @ \cup {n}]
        /\ inbox' = [inbox EXCEPT ![live[id]] = Append(@, Msg("joinAsked", id, n))]
        /\ UNCHANGED <<streams, retry, live, missed>>
    BY DEF Watch, registry, IInv, Seated
  <1>2. PICK m \in Message : m = Msg("joinAsked", id, n)
    BY MsgMessage
  <1>3. PICK new : new = ToOne(live[id], {m})
    OBVIOUS
  <1>4. Flow({}, Nobody, new, {})
    BY <1>1, <1>2, <1>3, AppendOneFlow
  <1>5. \A i \in Ids : audience'[i] = IF i = id THEN audience[id] \cup {n} ELSE audience[i]
    BY <1>1 DEF TypeOK
  <1>6. \A v \in Browsers : new[v] = IF v = live[id] THEN {m} ELSE {}
    BY <1>3 DEF ToOne
  <1>7. m.type = "joinAsked" /\ m.id = id /\ m.of = n
    BY <1>2 DEF Msg
  <1>8. AudiencePart(new)
    <2>1. AudienceFrom(new)
      BY <1>1, <1>5, <1>6, <1>7 DEF AudienceFrom, Says, Names
    <2>2. AudienceKept(new) /\ SeatKept
      BY <1>5 DEF AudienceKept, SeatKept
    <2> QED BY <2>1, <2>2 DEF AudiencePart
  <1>9. MarksPart(new, {})
    <2>1. NewSeats(new, {})
      BY <1>5, <1>6, <1>7 DEF NewSeats, Parts
    <2> QED BY <1>1, <2>1, SameMarks DEF MarksPart, Flooded
  <1> QED BY <1>1, <1>4, <1>8, <1>9, ServerSeats

\* The server takes c off a stream.
LEMMA TakenOff ==
    ASSUME TypeOK, NEW id \in Ids, NEW c \in Clients,
           audience' = [audience EXCEPT ![id] = @ \ {c}], live' = live, NEW new,
           \A b \in Browsers : c \in Natives /\ c \in audience[id] /\ live[id] = b =>
              "flooded" \in missed'[id] \/ Says(new[b], {"clientLeft"}, id, c),
           c \in Browsers => "flooded" \in missed'[id]
    PROVE  AudiencePart(new)
  <1>1. \A i \in Ids : audience'[i] = IF i = id THEN audience[id] \ {c} ELSE audience[i]
    BY DEF TypeOK
  <1>2. AudienceFrom(new)
    BY <1>1 DEF AudienceFrom
  <1>3. AudienceKept(new)
    BY <1>1 DEF AudienceKept
  <1>4. SeatKept
    BY <1>1 DEF SeatKept
  <1> QED BY <1>2, <1>3, <1>4 DEF AudiencePart

LEMMA UnwatchSeats ==
    ASSUME IInv, IInv', Seated, NEW n \in Natives, NEW id \in Ids, Unwatch(n, id)
    PROVE  Seating({}, {})
  <1>1. /\ TypeOK /\ Flooded
        /\ audience' = [audience EXCEPT ![id] = @ \ {n}]
        /\ inbox' = [inbox EXCEPT ![live[id]] = Append(@, Msg("clientLeft", id, n))]
        /\ UNCHANGED <<streams, retry, live, missed>>
    BY DEF Unwatch, registry, IInv, Seated
  <1>2. PICK m \in Message : m = Msg("clientLeft", id, n)
    BY MsgMessage
  <1>3. n \in Clients /\ n \notin Browsers
    BY ClientsAssumption DEF Clients
  <1>4. m.type = "clientLeft" /\ m.id = id /\ m.of = n
    BY <1>2 DEF Msg
  <1>5. n \notin audience'[id]
    BY <1>1 DEF TypeOK
  <1>6. Flooded' /\ MarksKept
    BY <1>1, SameMarks DEF Flooded
  <1>7. CASE live[id] \in Browsers
    <2>1. PICK new : new = ToOne(live[id], {m})
      OBVIOUS
    <2>2. Flow({}, Nobody, new, {})
      BY <1>1, <1>2, <1>7, <2>1, AppendOneFlow
    <2>3. \A v \in Browsers : new[v] = IF v = live[id] THEN {m} ELSE {}
      BY <2>1 DEF ToOne
    <2>4. \A b \in Browsers : live[id] = b => Says(new[b], {"clientLeft"}, id, n)
      BY <1>4, <2>3 DEF Says, Names
    <2>5. AudiencePart(new)
      BY <1>1, <1>3, <2>4, TakenOff
    <2>6. NewSeats(new, {})
      BY <1>1, <1>4, <1>5, <2>3 DEF NewSeats, Parts
    <2> QED BY <1>1, <1>6, <2>2, <2>5, <2>6, ServerSeats DEF MarksPart
  <1>8. CASE live[id] \notin Browsers
    <2>1. inbox' = inbox
      BY <1>1, <1>8 DEF TypeOK
    <2>2. Flow({}, Nobody, Nobody, {})
      BY <1>1, <2>1, NobodyFlow
    <2>3. AudiencePart(Nobody)
      BY <1>1, <1>3, <1>8, TakenOff
    <2>4. NewSeats(Nobody, {})
      BY NobodyShape DEF NewSeats
    <2> QED BY <1>1, <1>6, <2>2, <2>3, <2>4, ServerSeats DEF MarksPart
  <1> QED BY <1>7, <1>8

LEMMA ExpelledSeats ==
    ASSUME IInv, IInv', Seated, NEW b \in Up, NEW id \in Ids, NEW n \in Natives,
           NEW current \in BOOLEAN, Expelled(b, id, n, current),
           UNCHANGED <<streams, live, missed>>, retry' \subseteq retry,
           live[id] \in Browsers => live[id] = b \/ "flooded" \in missed[id]
    PROVE  Seating({}, {})
  <1>1. /\ TypeOK /\ Flooded /\ b \in Browsers /\ n \in Clients /\ n \notin Browsers
        /\ audience' = [audience EXCEPT ![id] = @ \ {n}]
    BY ClientsAssumption DEF IInv, Seated, Up, Clients, Expelled
  <1>2. PICK new : /\ Flow({}, Nobody, new, {}) /\ NewTrue(new)
                   /\ \A v \in Browsers : \A m \in new[v] :
                         /\ v = b /\ m.type \in {"clientLeft", "removed"}
                         /\ m.id = id /\ m.of = n
                   /\ n \in audience[id] => Msg("clientLeft", id, n) \in new[b]
    BY <1>1, ExpelledFlow
  <1>3. AudiencePart(new)
    <2> SUFFICES ASSUME NEW v \in Browsers, n \in audience[id], live[id] = v
                 PROVE  "flooded" \in missed'[id] \/ Says(new[v], {"clientLeft"}, id, n)
      BY <1>1, TakenOff
    <2>1. CASE v = b
      BY <1>2, <2>1 DEF Says, Names, Msg
    <2>2. CASE v # b
      BY <2>2
    <2> QED BY <2>1, <2>2
  <1>4. n \notin audience'[id]
    BY <1>1 DEF TypeOK
  <1>5. NewSeats(new, {})
    BY <1>2, <1>4 DEF NewSeats, Parts
  <1>6. Flooded' /\ MarksKept
    BY <1>1, SameMarks DEF Flooded
  <1> QED BY <1>2, <1>3, <1>5, <1>6, ServerSeats DEF MarksPart

LEMMA EvictSeats ==
    ASSUME IInv, IInv', Published, Seated, NEW b \in Browsers, NEW n \in Natives, Evict(b, n)
    PROVE  Seating({}, {})
  <1>1. /\ TypeOK /\ b \in Up /\ streams[b] # None /\ Flooded /\ Audible
        /\ UNCHANGED <<streams, live>>
    BY DEF Evict, registry, IInv, Seated
  <1>2. PICK id \in Ids : id = streams[b].link
    BY <1>1, EntryShape, StreamShape DEF Evict, Keys
  <1>3. CASE Expelled(b, id, n, TRUE) /\ UNCHANGED <<retry, missed>>
    <2>1. live[id] \in Browsers => live[id] = b
      BY <1>1, <1>2 DEF Published, OneClaim, OwnClaim, Linked
    <2> QED BY <1>1, <1>3, <2>1, ExpelledSeats
  <1>4. CASE /\ retry' = retry \cup {[by |-> b, id |-> id, of |-> n, current |-> TRUE]}
             /\ missed' = Miss({id}, "flooded")
             /\ UNCHANGED <<audience, inbox>>
    <2>1. \A i \in Ids : missed[i] \subseteq missed'[i] /\ (i = id => "flooded" \in missed'[i])
      BY <1>1, <1>4, MissAdds
    <2>2. \A c \in retry : c.id \in Ids
      BY <1>1 DEF TypeOK, Cleanup
    <2>3. Flooded'
      <3> SUFFICES ASSUME NEW c \in retry'
                   PROVE  "flooded" \in missed'[c.id]
        BY DEF Flooded
      <3>1. c \in retry \/ c.id = id
        BY <1>4
      <3>2. CASE c \in retry
        BY <1>1, <2>1, <2>2, <3>2 DEF Flooded
      <3>3. CASE c.id = id
        BY <2>1, <3>3
      <3> QED BY <3>1, <3>2, <3>3
    <2>4. MarksPart(Nobody, {})
      <3>1. NewSeats(Nobody, {})
        BY NobodyShape DEF NewSeats
      <3>2. MarksKept
        BY <2>1 DEF MarksKept
      <3> QED BY <2>3, <3>1, <3>2 DEF MarksPart
    <2>5. Flow({}, Nobody, Nobody, {})
      BY <1>1, <1>4, NobodyFlow
    <2>6. AudiencePart(Nobody)
      BY <1>1, <1>4, AudienceSame
    <2> QED BY <1>1, <2>4, <2>5, <2>6, ServerSeats
  <1> QED BY <1>2, <1>3, <1>4 DEF Evict

\* Streams end, or lose their audience because their publisher moves.
LEMMA Dissolved ==
    ASSUME TypeOK, NEW own \in SUBSET Ids, NEW ended \in SUBSET own,
           \A id \in Ids : live'[id] = IF id \in ended THEN None ELSE live[id],
           \A id \in Ids : audience'[id] = IF id \in own THEN {} ELSE audience[id],
           \A id \in own \ ended : live[id] \in Natives /\ place'[live[id]] # place[live[id]],
           NEW new
    PROVE  AudiencePart(new)
  <1>1. Natives \cap Browsers = {} /\ \A n \in Natives : n # None
    BY ClientsAssumption, NoneAssumption
  <1>2. AudienceFrom(new)
    <2>1. ASSUME NEW id \in Ids, NEW c \in audience'[id]
          PROVE  c \in audience[id] /\ live'[id] = live[id]
      <3>1. id \notin own
        BY <2>1
      <3> QED BY <2>1, <3>1
    <2> QED BY <2>1 DEF AudienceFrom
  <1>3. AudienceKept(new)
    <2> SUFFICES ASSUME NEW id \in Ids, NEW n \in Natives, NEW b \in Browsers,
                        n \in audience[id], live[id] = b, live'[id] = b
                 PROVE  n \in audience'[id]
      BY DEF AudienceKept
    <2>1. b # None
      BY NoneAssumption
    <2>2. id \notin own
      BY <1>1, <2>1
    <2> QED BY <2>2
  <1>4. SeatKept
    <2> SUFFICES ASSUME NEW id \in Ids, NEW n \in Natives, NEW v \in Browsers,
                        v \in audience[id], live[id] = n, live'[id] = n
                 PROVE  v \in audience'[id] \/ place'[n] # place[n]
      BY DEF SeatKept
    <2>1. id \notin ended
      BY <1>1
    <2> QED BY <2>1
  <1> QED BY <1>2, <1>3, <1>4 DEF AudiencePart

LEMMA GrownMarks ==
    ASSUME Flooded, \A id \in Ids : missed[id] \subseteq missed'[id], retry' \subseteq retry,
           TypeOK, NEW new, NEW lost, Silent(new, lost)
    PROVE  MarksPart(new, lost)
  <1>1. \A c \in retry : c.id \in Ids
    BY DEF TypeOK, Cleanup
  <1>2. Flooded'
    BY <1>1 DEF Flooded
  <1>3. MarksKept
    BY DEF MarksKept
  <1>4. NewSeats(new, lost)
    BY DEF NewSeats, Silent, Parts
  <1> QED BY <1>2, <1>3, <1>4 DEF MarksPart

LEMMA ResendSeats ==
    ASSUME IInv, IInv', Published, Seated, NEW c \in retry, Resend(c)
    PROVE  Seating({}, {})
  <1>1. /\ TypeOK /\ OnlyUp /\ Audible /\ Flooded /\ c \in Cleanup /\ retry' = retry \ {c}
        /\ UNCHANGED <<streams, place>>
    BY DEF Resend, sessions, registry, IInv, TypeOK, Seated, Published
  <1>2. /\ c.by \in Up /\ c.by \in Browsers /\ c.id \in Ids /\ c.current \in BOOLEAN
        /\ "flooded" \in missed[c.id] /\ retry' \subseteq retry
    BY <1>1 DEF Cleanup, OnlyUp, Flooded
  <1>3. CASE c.of \in Natives /\ Expelled(c.by, c.id, c.of, c.current) /\ UNCHANGED <<live, missed>>
    BY <1>1, <1>2, <1>3, ExpelledSeats
  <1>4. CASE /\ c.of \in Browsers
             /\ audience' = [audience EXCEPT ![c.id] = @ \ {c.of}]
             /\ UNCHANGED <<live, inbox, missed>>
    <2>1. c.of \in Clients /\ c.of \notin Natives
      BY <1>4, ClientsAssumption DEF Clients
    <2>2. PICK id \in Ids : id = c.id
      BY <1>2
    <2>3. AudiencePart(Nobody)
      BY <1>1, <1>2, <1>4, <2>1, <2>2, TakenOff
    <2>4. Flow({}, Nobody, Nobody, {})
      BY <1>1, <1>4, NobodyFlow
    <2>5. MarksPart(Nobody, {})
      BY <1>1, <1>2, <1>4, SilentNobody, GrownMarks
    <2> QED BY <1>1, <2>3, <2>4, <2>5, ServerSeats
  <1>5. CASE /\ c.of = None /\ live[c.id] = c.by
             /\ live' = [live EXCEPT ![c.id] = None]
             /\ audience' = [audience EXCEPT ![c.id] = {}]
             /\ inbox' = ToAll(inbox, <<Msg("stopped", c.id, None)>>)
             /\ missed' = missed
    <2>1. PICK new : new = ToUp(Stops({c.id}))
      OBVIOUS
    <2>2. Flow({}, Nobody, new, {})
      BY <1>1, <1>2, <1>5, <2>1, ToAllStops
    <2>3. PICK ids \in SUBSET Ids : ids = {c.id}
      BY <1>2
    <2>4. /\ \A id \in Ids : live'[id] = IF id \in ids THEN None ELSE live[id]
          /\ \A id \in Ids : audience'[id] = IF id \in ids THEN {} ELSE audience[id]
      BY <1>1, <1>5, <2>3 DEF TypeOK
    <2>5. AudiencePart(new)
      BY <1>1, <2>4, Dissolved
    <2>6. MarksPart(new, {})
      BY <1>1, <1>2, <1>5, <2>1, SilentStops, GrownMarks
    <2> QED BY <1>1, <2>2, <2>5, <2>6, ServerSeats
  <1>6. CASE /\ missed' = IF live[c.id] # None THEN Miss({c.id}, "abandoned") ELSE missed
             /\ UNCHANGED <<live, audience, inbox>>
    <2>1. \A id \in Ids : missed[id] \subseteq missed'[id]
      <3>1. CASE live[c.id] # None
        BY <1>1, <1>6, <3>1, MissAdds
      <3>2. CASE live[c.id] = None
        BY <1>6, <3>2
      <3> QED BY <3>1, <3>2
    <2>2. Flow({}, Nobody, Nobody, {})
      BY <1>1, <1>6, NobodyFlow
    <2>3. MarksPart(Nobody, {})
      BY <1>1, <1>2, <2>1, SilentNobody, GrownMarks
    <2>4. AudiencePart(Nobody)
      BY <1>1, <1>6, AudienceSame
    <2> QED BY <1>1, <2>2, <2>3, <2>4, ServerSeats
  <1> QED BY <1>3, <1>4, <1>5, <1>6 DEF Resend

LEMMA EndStreamSeats ==
    ASSUME IInv, IInv', Seated, NEW id \in Ids, EndStream(id)
    PROVE  Seating({}, {})
  <1>1. /\ TypeOK /\ Flooded
        /\ live' = [live EXCEPT ![id] = None]
        /\ audience' = [audience EXCEPT ![id] = {}]
        /\ inbox' = ToAll(inbox, <<Msg("stopped", id, None)>>)
        /\ missed' = IF Up = {} THEN Miss({id}, "end") ELSE missed
        /\ UNCHANGED <<streams, retry>>
    BY DEF EndStream, registry, IInv, Seated
  <1>2. PICK new : new = ToUp(Stops({id}))
    OBVIOUS
  <1>3. Flow({}, Nobody, new, {})
    BY <1>1, <1>2, ToAllStops
  <1>4. PICK ids \in SUBSET Ids : ids = {id}
    OBVIOUS
  <1>5. /\ \A i \in Ids : live'[i] = IF i \in ids THEN None ELSE live[i]
        /\ \A i \in Ids : audience'[i] = IF i \in ids THEN {} ELSE audience[i]
    BY <1>1, <1>4 DEF TypeOK
  <1>6. AudiencePart(new)
    BY <1>1, <1>5, Dissolved
  <1>7. \A i \in Ids : missed[i] \subseteq missed'[i]
    <2>1. CASE Up = {}
      BY <1>1, <2>1, MissAdds
    <2>2. CASE Up # {}
      BY <1>1, <2>2
    <2> QED BY <2>1, <2>2
  <1>8. MarksPart(new, {})
    BY <1>1, <1>2, <1>7, SilentStops, GrownMarks
  <1> QED BY <1>1, <1>3, <1>6, <1>8, ServerSeats

LEMMA NativeMoveSeats ==
    ASSUME IInv, IInv', Seated, NEW n \in Natives, NEW ch \in Channels \cup {None}, NativeMove(n, ch)
    PROVE  Seating({}, {})
  <1>1. PICK own \in SUBSET Ids : own = {id \in Ids : live[id] = n}
    OBVIOUS
  <1>2. PICK ids \in SUBSET own : ids = IF ch = None THEN own ELSE {}
    OBVIOUS
  <1>3. /\ TypeOK /\ Flooded /\ UNCHANGED <<streams, retry>>
        /\ \A id \in Ids : missed[id] \subseteq missed'[id]
        /\ place' = [place EXCEPT ![n] = ch] /\ ch # place[n]
    BY DEF NativeMove, registry, IInv, Seated
  <1>4. /\ \A id \in Ids : live'[id] = IF id \in ids THEN None ELSE live[id]
        /\ \A id \in Ids : audience'[id] = IF id \in own THEN {} ELSE audience[id]
    <2>1. /\ live' = [id \in Ids |-> IF id \in own /\ ch = None THEN None ELSE live[id]]
          /\ audience' = [id \in Ids |-> IF id \in own THEN {} ELSE audience[id]]
      BY <1>1 DEF NativeMove
    <2> QED BY <1>2, <2>1
  <1>5. PICK m \in Message : m = Msg("at", ch, n)
    BY AtMessage
  <1>6. PICK new : new = ToUp(Stops(ids) \cup {m})
    OBVIOUS
  <1>7. Flow({}, Nobody, new, {})
    BY <1>1, <1>2, <1>3, <1>5, <1>6, NativeMoveFlow
  <1>8. \A id \in own \ ids : live[id] \in Natives /\ place'[live[id]] # place[live[id]]
    <2>1. place'[n] # place[n]
      BY <1>3 DEF TypeOK
    <2> QED BY <1>1, <2>1
  <1>9. AudiencePart(new)
    BY <1>3, <1>4, <1>8, Dissolved
  <1>10. Silent(new, {})
    BY <1>5, <1>6 DEF Silent, ToUp, Stops, Msg, Parts
  <1>11. MarksPart(new, {})
    BY <1>3, <1>10, GrownMarks
  <1> QED BY <1>3, <1>7, <1>9, <1>11, ServerSeats

-----------------------------------------------------------------------------
(* A browser joins a stream. *)

LEMMA ViewerAdded ==
    ASSUME TypeOK, NEW b \in Browsers, NEW k \in Keys, streams[k] # None,
           streams' = [streams EXCEPT ![k].viewers = @ \cup {b}]
    PROVE  /\ SharesSame
           /\ k \in Browsers => ViewersSame
           /\ \A id \in Ids : \A v \in Browsers :
                 /\ Watches(v, id) => Watches(v, id)'
                 /\ Watches(v, id)' => Watches(v, id) \/ (id = k /\ v = b)
           /\ \A id \in Ids : streams[id] # None => streams'[id].channel = streams[id].channel
           /\ k \in Ids => Watches(b, k)'
  <1>1. PICK s \in Stream : s = streams[k]
    BY EntryShape
  <1>2. PICK r : r = [s EXCEPT !.viewers = s.viewers \cup {b}]
    OBVIOUS
  <1>3. /\ r \in Stream /\ r # None
        /\ r.channel = s.channel /\ r.link = s.link /\ r.natives = s.natives
        /\ r.viewers = s.viewers \cup {b}
    <2>1. r \in Stream /\ r.channel = s.channel /\ r.link = s.link /\ r.natives = s.natives
          /\ r.viewers = s.viewers \cup {b}
      BY <1>2 DEF Stream
    <2> QED BY <2>1, StreamAssumption
  <1>4. \A i \in Keys : streams'[i] = IF i = k THEN r ELSE streams[i]
    BY <1>1, <1>2 DEF TypeOK
  <1>5. \A i \in Browsers \cup Ids : i \in Keys
    BY DEF Keys
  <1>6. Browsers \cap Ids = {}
    BY ClientsAssumption
  <1>7. SharesSame
    BY <1>1, <1>3, <1>4, <1>5 DEF SharesSame
  <1>8. k \in Browsers => ViewersSame
    BY <1>4, <1>5, <1>6 DEF ViewersSame
  <1>9. ASSUME NEW id \in Ids
        PROVE  /\ \A v \in Browsers :
                     /\ Watches(v, id) => Watches(v, id)'
                     /\ Watches(v, id)' => Watches(v, id) \/ (id = k /\ v = b)
               /\ streams[id] # None => streams'[id].channel = streams[id].channel
               /\ id = k => Watches(b, id)'
    <2>1. CASE id = k
      <3>1. streams'[id] = r /\ streams[id] = s
        BY <1>1, <1>4, <1>5, <2>1
      <3>2. streams[id] # None
        BY <2>1
      <3> QED BY <1>3, <2>1, <3>1, <3>2 DEF Watches
    <2>2. CASE id # k
      <3>1. streams'[id] = streams[id]
        BY <1>4, <1>5, <2>2
      <3> QED BY <2>2, <3>1 DEF Watches
    <2> QED BY <2>1, <2>2
  <1>10. k \in Ids => Watches(b, k)'
    BY <1>9
  <1> QED BY <1>7, <1>8, <1>9, <1>10

LEMMA JoinSeats ==
    ASSUME IInv, IInv', Seated, NEW b \in Browsers, NEW k \in Keys, Join(b, k)
    PROVE  Seating({}, {})
  <1>1. /\ TypeOK /\ TypeOK' /\ Flooded /\ Audible /\ Bare /\ streams[k] # None
        /\ streams' = [streams EXCEPT ![k].viewers = @ \cup {b}]
        /\ UNCHANGED <<retry, live, missed>>
    BY DEF Join, IInv, Seated
  <1>2. /\ SharesSame
        /\ k \in Browsers => ViewersSame
        /\ \A id \in Ids : \A v \in Browsers :
              /\ Watches(v, id) => Watches(v, id)'
              /\ Watches(v, id)' => Watches(v, id) \/ (id = k /\ v = b)
        /\ \A id \in Ids : streams[id] # None => streams'[id].channel = streams[id].channel
        /\ k \in Ids => Watches(b, k)'
    BY <1>1, ViewerAdded
  <1>3. CountsPart({})
    BY <1>1, <1>2, CountsSame
  <1>4. CASE k \in Browsers
    <2>1. UNCHANGED <<audience, inbox>>
      BY <1>4 DEF Join
    <2>2. Flow({}, Nobody, Nobody, {})
      BY <1>1, <2>1, NobodyFlow
    <2>3. RefusedKept
      BY <2>1 DEF RefusedKept
    <2>4. WatchesPart
      BY <1>2, <1>4, <2>3, WatchesSame
    <2>5. AudiencePart(Nobody)
      BY <1>1, <2>1, AudienceSame
    <2>6. MarksPart(Nobody, {})
      BY <1>1, SilentNobody, GrownMarks
    <2> QED BY <1>3, <2>2, <2>4, <2>5, <2>6 DEF Seats, Seating
  <1>5. ASSUME k \in Ids, live[k] # None, audience' = [audience EXCEPT ![k] = @ \cup {b}],
               inbox' = inbox
        PROVE  Seating({}, {})
    <2>1. Flow({}, Nobody, Nobody, {})
      BY <1>1, <1>5, NobodyFlow
    <2>2. \A id \in Ids : audience'[id] = IF id = k THEN audience[id] \cup {b} ELSE audience[id]
      BY <1>1, <1>5 DEF TypeOK
    <2>3. AudiencePart(Nobody)
      <3>1. AudienceFrom(Nobody)
        BY <1>1, <1>2, <1>5, <2>2 DEF AudienceFrom
      <3>2. AudienceKept(Nobody) /\ SeatKept
        BY <2>2 DEF AudienceKept, SeatKept
      <3> QED BY <3>1, <3>2 DEF AudiencePart
    <2>4. WatchesPart
      <3>1. WatchesFrom
        <4> SUFFICES ASSUME NEW id \in Ids, NEW v \in Browsers, Watches(v, id)'
                     PROVE  \/ Watches(v, id) /\ streams'[id].channel = streams[id].channel
                            \/ v \in audience'[id]
          BY DEF WatchesFrom
        <4>1. CASE Watches(v, id)
          <5>1. streams[id] # None
            BY <4>1 DEF Watches
          <5> QED BY <1>2, <4>1, <5>1
        <4>2. CASE id = k /\ v = b
          BY <2>2, <4>2
        <4> QED BY <1>2, <4>1, <4>2
      <3>2. WatchesOn
        BY <1>2 DEF WatchesOn
      <3>3. RefusedKept
        BY <1>5 DEF RefusedKept
      <3> QED BY <3>1, <3>2, <3>3 DEF WatchesPart
    <2>5. MarksPart(Nobody, {})
      BY <1>1, SilentNobody, GrownMarks
    <2> QED BY <1>3, <2>1, <2>3, <2>4, <2>5 DEF Seats, Seating
  <1>6. ASSUME k \in Ids, audience' = audience,
               inbox' = [inbox EXCEPT ![b] = Append(@, Msg("joinRefused", k, None))]
        PROVE  Seating({}, {})
    <2>1. PICK m \in Message : m = Msg("joinRefused", k, None)
      BY <1>6, MsgMessage
    <2>2. PICK new : new = ToOne(b, {m})
      OBVIOUS
    <2>3. Flow({}, Nobody, new, {})
      BY <1>1, <1>6, <2>1, <2>2, AppendOneFlow
    <2>4. Refusing(inbox'[b], k)
      <3>1. PICK q \in Seq(Message) : q = inbox[b]
        BY <1>1, InboxShape
      <3>2. inbox'[b] = Append(q, m)
        BY <1>1, <1>6, <2>1, <3>1 DEF TypeOK
      <3>3. Len(q) + 1 \in 1..Len(Append(q, m)) /\ Append(q, m)[Len(q) + 1] = m
        OBVIOUS
      <3>4. Is(m, "joinRefused", k) /\ m.current
        BY <2>1 DEF Is, Msg
      <3> QED BY <3>2, <3>3, <3>4 DEF Refusing
    <2>5. Silent(new, {})
      BY <2>1, <2>2 DEF Silent, ToOne, Msg, Parts
    <2>6. RefusedKept
      BY <1>1, <2>3, NobodyShape, RefusedStays
    <2>7. WatchesPart
      <3>1. WatchesFrom
        <4> SUFFICES ASSUME NEW id \in Ids, NEW v \in Browsers, Watches(v, id)'
                     PROVE  \/ Watches(v, id) /\ streams'[id].channel = streams[id].channel
                            \/ Refusing(inbox'[v], id)
          BY DEF WatchesFrom
        <4>1. CASE Watches(v, id)
          <5>1. streams[id] # None
            BY <4>1 DEF Watches
          <5> QED BY <1>2, <4>1, <5>1
        <4>2. CASE id = k /\ v = b
          BY <2>4, <4>2
        <4> QED BY <1>2, <4>1, <4>2
      <3>2. WatchesOn
        BY <1>2 DEF WatchesOn
      <3> QED BY <2>6, <3>1, <3>2 DEF WatchesPart
    <2>8. AudiencePart(new)
      BY <1>1, <1>6, AudienceSame
    <2>9. MarksPart(new, {})
      BY <1>1, <2>5, GrownMarks
    <2> QED BY <1>3, <2>3, <2>7, <2>8, <2>9 DEF Seats, Seating
  <1>7. \/ k \in Browsers
        \/ k \in Ids /\ live[k] # None /\ audience' = [audience EXCEPT ![k] = @ \cup {b}]
           /\ inbox' = inbox
        \/ k \in Ids /\ audience' = audience
           /\ inbox' = [inbox EXCEPT ![b] = Append(@, Msg("joinRefused", k, None))]
    BY DEF Join, Keys
  <1> QED BY <1>4, <1>5, <1>6, <1>7

-----------------------------------------------------------------------------
(* A session is lost. *)

LEMMA DetachSeats ==
    ASSUME IInv, IInv', Published, Seated, NEW b \in Browsers, NEW to \in {"down", "absent"},
           Detach(b, to)
    PROVE  Seating({}, {b})
  <1>1. PICK stops : stops = {k \in Keys : streams[k] # None
                                /\ (k = b \/ \A v \in Browsers \ {b} : session[v] = "absent")}
    OBVIOUS
  <1>2. PICK leaves : leaves = {b} \X Viewed(b)
    OBVIOUS
  <1>3. PICK ended \in SUBSET Ids : ended = {id \in Ids : live[id] = b}
    OBVIOUS
  <1>4. /\ TypeOK /\ TypeOK' /\ ChannelIsolation /\ Flooded /\ Bare
        /\ streams' = Retired(stops, leaves)
        /\ live' = [id \in Ids |-> IF id \in ended THEN None ELSE live[id]]
        /\ audience' = [id \in Ids |-> IF id \in ended THEN {} ELSE audience[id] \ {b}]
        /\ retry' = {c \in retry : c.by # b}
    BY <1>1, <1>2, <1>3 DEF Detach, Retire, IInv, Agreement, Seated
  <1>5. \A id \in Ids : missed[id] \subseteq missed'[id]
    BY DetachMissed
  <1>6. PICK out, new : out = Lost(b, stops, leaves) /\ new = ToUp(Stops(ended))
    OBVIOUS
  <1>7. Flow({}, out, new, {b})
    <2>1. inbox' \in {[inb EXCEPT ![b] = <<>>] : inb \in Ends(Former(b, stops, leaves), ended)}
      BY <1>1, <1>2, <1>3 DEF Detach, Former
    <2> QED BY <1>4, <1>6, <2>1, DetachFlow
  <1>8. \A k \in Browsers \cup Ids :
           /\ streams'[k] # None <=> streams[k] # None /\ k \notin stops
           /\ streams'[k] # None =>
                 /\ streams'[k].channel = streams[k].channel
                 /\ streams'[k].link = streams[k].link
                 /\ streams'[k].natives = streams[k].natives
                 /\ streams'[k].viewers = {v \in streams[k].viewers : <<v, k>> \notin leaves}
    BY <1>4, RetiredKeeps DEF Keys
  <1>9. Browsers \cap (Natives \cup Ids) = {} /\ \A c \in Clients : c # None
    BY ClientsAssumption, NoneAssumption DEF Clients
  \* Somebody else who watches, or shares, is connected, and the others stay.
  <1>10. ASSUME NEW v \in Browsers, v \in Up, v # b, NEW k \in Keys, k # b
         PROVE  k \notin stops
    <2>1. session[v] # "absent"
      BY <1>10 DEF Up
    <2> QED BY <1>1, <1>10, <2>1
  <1>11. ASSUME NEW v \in Browsers, v # b, NEW id \in Ids, Watches(v, id)
         PROVE  Watches(v, id)'
    <2>1. id \in Keys /\ id # b
      BY <1>9 DEF Keys
    <2>2. v \in Up
      BY <1>4, <1>11, <2>1 DEF ChannelIsolation, Viewed, Watches
    <2>3. id \notin stops /\ <<v, id>> \notin leaves
      BY <1>2, <1>10, <1>11, <2>1, <2>2
    <2> QED BY <1>8, <1>11, <2>3 DEF Watches
  <1>12. \A v \in Browsers, id \in Ids : Watches(v, id)' =>
            /\ Watches(v, id) /\ v # b /\ id \notin stops /\ <<v, id>> \notin leaves
            /\ streams'[id].channel = streams[id].channel
    <2> SUFFICES ASSUME NEW v \in Browsers, NEW id \in Ids, Watches(v, id)'
                 PROVE  /\ Watches(v, id) /\ v # b /\ id \notin stops /\ <<v, id>> \notin leaves
                        /\ streams'[id].channel = streams[id].channel
      OBVIOUS
    <2>1. /\ Watches(v, id) /\ id \notin stops /\ <<v, id>> \notin leaves
          /\ streams'[id].channel = streams[id].channel
      BY <1>8 DEF Watches
    <2>2. v # b
      BY <1>2, <2>1 DEF Viewed, Watches, Keys
    <2> QED BY <2>1, <2>2
  <1>13. AudiencePart(new)
    <2>1. /\ \A id \in Ids : live'[id] = IF id \in ended THEN None ELSE live[id]
          /\ \A id \in Ids : audience'[id] = IF id \in ended THEN {} ELSE audience[id] \ {b}
      BY <1>4
    <2>2. AudienceFrom(new)
      BY <2>1 DEF AudienceFrom
    <2>3. AudienceKept(new)
      BY <1>3, <1>9, <2>1 DEF AudienceKept, Clients
    <2>4. SeatKept
      BY <1>3, <1>9, <1>12, <2>1 DEF SeatKept, Clients
    <2> QED BY <2>2, <2>3, <2>4 DEF AudiencePart
  <1>14. CountsPart({})
    <2>1. \A v \in Browsers, id \in Ids, n \in Natives : Counts(v, id, n)' => Counts(v, id, n)
      BY <1>8 DEF Counts, Linked
    <2>2. ASSUME NEW v \in Browsers, NEW id \in Ids, NEW n \in Natives, Counts(v, id, n),
                 live'[id] = v
          PROVE  Counts(v, id, n)'
      <3>1. v \in Clients /\ live[id] = v /\ v # b
        BY <1>3, <1>4, <1>9, <2>2 DEF Clients
      <3>2. v \in Up
        BY <1>4, <2>2 DEF Counts, Linked, ChannelIsolation
      <3>3. v \notin stops
        BY <1>10, <3>1, <3>2 DEF Keys
      <3> QED BY <1>8, <2>2, <3>3 DEF Counts, Linked
    <2>3. Bare'
      BY <1>4, <1>8 DEF Bare
    <2> QED BY <2>1, <2>2, <2>3 DEF CountsPart, CountsFrom, LeftHeard, CountsKept, AskedHeard
  <1>15. WatchesPart
    <2>1. WatchesFrom
      BY <1>12 DEF WatchesFrom
    <2>2. WatchesOn
      <3>1. \A id \in Ids : b \notin audience'[id]
        BY <1>4
      <3> QED BY <1>11, <3>1 DEF WatchesOn
    <2>3. ASSUME NEW id \in Ids, NEW v \in Browsers, Watches(v, id)'
          PROVE  v \notin {b} /\ \A m \in out[v] : ~Is(m, "joinRefused", id)
      <3>1. /\ v # b /\ id \notin stops /\ <<v, id>> \notin leaves
        BY <1>12, <2>3
      <3> QED BY <1>6, <3>1 DEF Lost, Late, Is
    <2>4. RefusedKept
      BY <1>4, <1>7, <2>3, RefusedStays
    <2> QED BY <2>1, <2>2, <2>4 DEF WatchesPart
  <1>16. MarksPart(new, {b})
    <2>1. retry' \subseteq retry /\ Silent(new, {b})
      BY <1>4, <1>6, SilentStops
    <2> QED BY <1>4, <1>5, <2>1, GrownMarks
  <1> QED BY <1>7, <1>13, <1>14, <1>15, <1>16 DEF Seats, Seating

-----------------------------------------------------------------------------
(* Audiences and viewers are the same people. *)

LEMMA SeatedInit == Init => Seated
  <1> SUFFICES ASSUME Init PROVE Seated
    OBVIOUS
  <1>1. /\ retry = {} /\ \A v \in Browsers : inbox[v] = <<>> /\ Len(inbox[v]) = 0
        /\ \A id \in Ids : live[id] = None /\ streams[id] = None /\ audience[id] = {}
        /\ \A b \in Browsers : streams[b] = None
    BY DEF Init, Keys
  <1>2. None \notin Browsers /\ None \notin Natives
    BY NoneAssumption
  <1>3. Audible /\ Flooded /\ Bare /\ Addressed
    BY <1>1 DEF Audible, Flooded, Bare, Addressed
  <1>4. AskedTrue /\ NativesTrue /\ NativesKnown
    BY <1>1, <1>2 DEF AskedTrue, NativesTrue, NativesKnown
  <1>5. ViewersTrue /\ ViewersKnown
    BY <1>1, <1>2 DEF ViewersTrue, ViewersKnown
  <1> QED BY <1>3, <1>4, <1>5 DEF Seated

LEMMA SeatedNext ==
    ASSUME IInv, IInv', Published, Shown, Shown', Seated, [Next]_vars
    PROVE  Seated'
  <1>1. OnlyUp
    BY DEF Published
  <1>2. ASSUME NEW b \in Browsers,
               \/ Arrive(b) \/ Connect(b) \/ Detach(b, "down") \/ Detach(b, "absent")
               \/ Start(b) \/ Stop(b)
        PROVE  Seated'
    <2>1. CASE Arrive(b) \/ Connect(b)
      BY <1>1, <2>1, ArriveStep, ArriveTurn, ConnectStep, ConnectTurn, ArriveSeats, SeatingStep
    <2>2. CASE Detach(b, "down") \/ Detach(b, "absent")
      BY <2>2, DetachStep, DetachTurn, DetachSeats, SeatingStep
    <2>3. CASE Start(b)
      BY <1>1, <2>3, StartStep, StartTurn, StartSeats, SeatingStep
    <2>4. CASE Stop(b)
      BY <1>1, <2>4, StopStep, StopTurn, StopSeats, SeatingStep
    <2> QED BY <1>2, <2>1, <2>2, <2>3, <2>4
  <1>3. ASSUME NEW b \in Browsers, Handle(b)
        PROVE  Seated'
    <2>1. CASE OwnStarted(b)
      BY <1>1, <2>1, OwnStartedStep, OwnStartedTurn, OwnStartedSeats, SeatingStep
    <2>2. CASE CardStarted(b)
      <3>1. b \in Up
        BY <1>1, <2>2 DEF CardStarted, Heads, OnlyUp
      <3> QED BY <1>1, <2>2, <3>1, CardStartedStep, CardStartedTurn, CardStartedSeats, SeatingStep
    <2>3. CASE StoppedNotice(b)
      BY <1>1, <2>3, StoppedNoticeStep, StoppedNoticeTurn, StoppedNoticeSeats, SeatingStep
    <2>4. CASE AtNotice(b)
      BY <1>1, <2>4, AtNoticeStep, AtNoticeTurn, AtNoticeSeats, SeatingStep
    <2>5. CASE JoinAskedNotice(b)
      BY <1>1, <2>5, AudienceNoticeStep, AudienceNoticeTurn, JoinAskedSeats, SeatingStep
    <2>6. CASE RemovedAnswer(b)
      BY <1>1, <2>6, AudienceNoticeStep, AudienceNoticeTurn, RemovedSeats, SeatingStep
    <2>7. CASE ClientLeftNotice(b)
      BY <1>1, <2>7, ClientLeftStep, ClientLeftTurn, ClientLeftSeats, SeatingStep
    <2>8. CASE JoinRefusedAnswer(b)
      BY <1>1, <2>8, JoinRefusedStep, JoinRefusedTurn, JoinRefusedSeats, SeatingStep
    <2> QED BY <1>3, <2>1, <2>2, <2>3, <2>4, <2>5, <2>6, <2>7, <2>8 DEF Handle
  <1>4. ASSUME NEW b \in Browsers,
               \/ \E ch \in Channels : BrowserMove(b, ch)
               \/ \E k \in Keys : Join(b, k) \/ Leave(b, k)
               \/ \E n \in Natives : Evict(b, n)
        PROVE  Seated'
    <2>1. CASE \E ch \in Channels : BrowserMove(b, ch)
      BY <1>1, <2>1, BrowserMoveStep, BrowserMoveTurn, BrowserMoveSeats, SeatingStep
    <2>2. CASE \E k \in Keys : Join(b, k)
      BY <1>1, <2>2, JoinStep, JoinTurn, JoinSeats, SeatingStep
    <2>3. CASE \E k \in Keys : Leave(b, k)
      BY <1>1, <2>3, LeaveStep, LeaveTurn, LeaveSeats, SeatingStep
    <2>4. CASE \E n \in Natives : Evict(b, n)
      BY <1>1, <2>4, EvictStep, EvictTurn, EvictSeats, SeatingStep
    <2> QED BY <1>4, <2>1, <2>2, <2>3, <2>4
  <1>5. ASSUME NEW n \in Natives,
               \/ \E id \in Ids : Publish(n, id) \/ Watch(n, id) \/ Unwatch(n, id)
               \/ \E ch \in Channels \cup {None} : NativeMove(n, ch)
        PROVE  Seated'
    <2>1. CASE \E id \in Ids : Publish(n, id)
      BY <1>1, <2>1, PublishStep, PublishTurn, PublishSeats, SeatingStep
    <2>2. CASE \E id \in Ids : Watch(n, id)
      BY <1>1, <2>2, WatchStep, WatchTurn, WatchSeats, SeatingStep
    <2>3. CASE \E id \in Ids : Unwatch(n, id)
      BY <1>1, <2>3, UnwatchStep, WatchTurn, UnwatchSeats, SeatingStep
    <2>4. CASE \E ch \in Channels \cup {None} : NativeMove(n, ch)
      BY <1>1, <2>4, NativeMoveStep, NativeMoveTurn, NativeMoveSeats, SeatingStep
    <2> QED BY <1>5, <2>1, <2>2, <2>3, <2>4
  <1>6. ASSUME NEW c \in retry, Resend(c)
        PROVE  Seated'
    BY <1>1, <1>6, ResendStep, ResendTurn, ResendSeats, SeatingStep
  <1>7. ASSUME NEW id \in Ids, EndStream(id)
        PROVE  Seated'
    BY <1>1, <1>7, EndStreamStep, EndStreamTurn, EndStreamSeats, SeatingStep
  <1>8. CASE ScanBreak
    BY <1>1, <1>8, ScanBreakStep, ScanBreakTurn, ScanBreakSeats, SeatingStep
  <1>9. ASSUME NEW c \in Clients, ScanAsk(c)
        PROVE  Seated'
    BY <1>1, <1>9, ScanAskStep, ScanAskTurn, ScanAskSeats, SeatingStep
  <1>10. CASE UNCHANGED vars
    <2>1. UNCHANGED <<session, directory, streams, scan, inbox, retry, place, live, audience, missed>>
          /\ TypeOK
      BY <1>10 DEF vars, IInv
    <2>2. Up' = Up
      BY <2>1 DEF Up
    <2>3. Step({}, Nobody, Nobody, {})
      BY <1>1, <2>1, <2>2, NobodyFlow, SameRefs, SameMissed, MoreWaits, CalmStep
    <2>4. Turn({}, {})
      BY <2>1, <2>2, SameRefs, SameNatives, SameStarts, IdleTurn
    <2>5. Seating({}, {})
      BY <2>1, SameMarks, StillSeats
    <2> QED BY <2>3, <2>4, <2>5, SeatingStep
  <1> QED BY <1>2, <1>3, <1>4, <1>5, <1>6, <1>7, <1>8, <1>9, <1>10 DEF Next

LEMMA SeatedAgrees ==
    ASSUME IInv, Published, Seated
    PROVE  AudienceAgrees
  <1> SUFFICES ASSUME Quiet, NEW id \in Ids
               PROVE  /\ \A b \in Browsers : streams[b] # None /\ streams[b].link = id =>
                            /\ "end" \notin missed[id] /\ "flooded" \notin missed[id] =>
                                  streams[b].natives \subseteq audience[id] \cap Natives
                            /\ missed[id] \subseteq {"start", "end"} =>
                                  audience[id] \cap Natives \subseteq streams[b].natives
                      /\ streams[id] # None =>
                            /\ "end" \notin missed[id] /\ "flooded" \notin missed[id] =>
                                  streams[id].viewers \subseteq audience[id] \cap Browsers
                            /\ missed[id] \subseteq {"start", "end"} =>
                                  audience[id] \cap Browsers \subseteq streams[id].viewers
    BY DEF AudienceAgrees
  <1>1. TypeOK /\ \A v \in Browsers : inbox[v] = <<>> /\ Len(inbox[v]) = 0
    BY DEF Quiet, IInv
  <1>2. /\ ~Ending(id) /\ \A n \in Natives : ~Doomed(id, n)
        /\ \A v \in Browsers : ~Refusing(inbox[v], id)
    BY <1>1 DEF Ending, Has, Doomed, DoomedBy, Up, Refusing
  <1>3. \A v \in Browsers, n \in Natives :
           /\ \A types : ~After(inbox[v], 0, types, id, n)
           /\ Seen(v, id, n) => Counts(v, id, n)
    BY <1>1 DEF After, Seen
  <1>4. missed[id] \subseteq {"start", "end"} => ~Marked(id)
    BY DEF Marked, Marks
  <1>5. ASSUME NEW b \in Browsers, Linked(b, id)
        PROVE  /\ "end" \notin missed[id] /\ "flooded" \notin missed[id] =>
                     streams[b].natives \subseteq audience[id] \cap Natives
               /\ missed[id] \subseteq {"start", "end"} =>
                     audience[id] \cap Natives \subseteq streams[b].natives
    <2>1. b \in Clients /\ OwnClaim(id, b)
      BY <1>5 DEF Clients, OwnClaim
    <2>2. ASSUME "end" \notin missed[id], "flooded" \notin missed[id], NEW n \in streams[b].natives
          PROVE  n \in audience[id] \cap Natives
      <3>1. live[id] = b
        BY <1>2, <1>5, <2>1, <2>2 DEF Published, RefTrue
      <3>2. n \in Natives
        BY <1>1, <1>5, EntryShape, StreamShape DEF Linked, Keys
      <3>3. Counts(b, id, n)
        BY <1>5, <2>2 DEF Counts
      <3> QED BY <1>3, <2>2, <3>1, <3>2, <3>3 DEF Seated, NativesTrue
    <2>3. ASSUME missed[id] \subseteq {"start", "end"}, NEW n \in audience[id] \cap Natives
          PROVE  n \in streams[b].natives
      <3>1. live[id] # None
        BY <2>3 DEF Seated, Audible
      <3>2. live[id] \in Browsers \/ live[id] \in Natives
        BY <1>1, <3>1 DEF TypeOK, Clients
      <3>3. CASE live[id] \in Browsers
        <4>1. OwnClaim(id, live[id])
          BY DEF OwnClaim
        <4>2. live[id] = b
          BY <2>1, <3>3, <4>1 DEF Published, OneClaim
        <4> QED BY <1>3, <1>4, <2>3, <4>2 DEF Seated, NativesKnown, Counts
      <3>4. CASE live[id] \in Natives
        <4>1. CardClaim(id, live[id]) /\ live[id] \in Clients
          BY <3>4 DEF CardClaim, Clients
        <4> QED BY <2>1, <4>1 DEF Published, OneClaim
      <3> QED BY <3>2, <3>3, <3>4
    <2> QED BY <2>2, <2>3
  <1>6. ASSUME streams[id] # None
        PROVE  /\ "end" \notin missed[id] /\ "flooded" \notin missed[id] =>
                     streams[id].viewers \subseteq audience[id] \cap Browsers
               /\ missed[id] \subseteq {"start", "end"} =>
                     audience[id] \cap Browsers \subseteq streams[id].viewers
    <2>1. PICK c \in Clients : c = streams[id].src
      BY <1>1, <1>6, EntryShape, StreamShape DEF Keys
    <2>2. Card(id, c) /\ CardClaim(id, c)
      BY <1>6, <2>1 DEF Card, CardClaim
    <2>3. ASSUME "end" \notin missed[id], "flooded" \notin missed[id], NEW v \in streams[id].viewers
          PROVE  v \in audience[id] \cap Browsers
      <3>1. live[id] = c
        BY <1>2, <2>2, <2>3 DEF Published, RefTrue
      <3>2. c \notin Browsers
        <4>1. OwnClaim(id, c)
          BY <3>1 DEF OwnClaim
        <4> QED BY <2>2, <4>1 DEF Published, OneClaim
      <3>3. c \in Natives
        BY <3>2 DEF Clients
      <3>4. v \in Browsers
        BY <1>1, <1>6, EntryShape, StreamShape DEF Keys
      <3>5. Watches(v, id)
        BY <1>6, <2>3 DEF Watches
      <3> QED BY <1>2, <2>2, <2>3, <3>1, <3>3, <3>4, <3>5 DEF Seated, ViewersTrue
    <2>4. ASSUME missed[id] \subseteq {"start", "end"}, NEW v \in audience[id] \cap Browsers
          PROVE  v \in streams[id].viewers
      BY <1>4, <2>4 DEF Seated, ViewersKnown, Watches
    <2> QED BY <2>3, <2>4
  <1> QED BY <1>5, <1>6 DEF Linked

LEMMA SeatedAlways == Spec => []Seated
  BY Invariance, PublishedAlways, ShownAlways, SeatedInit, SeatedNext, PTL DEF Spec

(* Once everything is handled, the gateway has no viewer that TeamSpeak has not,
   and misses none: at any time a native viewer of a share is counted by its
   owner or their request is on its way to it, one who left is about to be
   reported, and a browser that watches a card is in its audience, is about to
   be refused, or watches a card that a move of its source is about to retire
   (notifyjoinstreamrequest, notifystreamclientleft, removeclientfromstream,
   joinNativeScreenStream). *)
THEOREM AudienceSettles == Spec => []AudienceAgrees
  BY Invariance, PublishedAlways, SeatedAlways, SeatedAgrees, PTL
=============================================================================
