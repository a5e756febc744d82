------------------------- MODULE ScreenPeers_proofs -------------------------
(***************************************************************************)
(* Proofs about ScreenPeers, for any browsers, native shares and request   *)
(* ids and however many messages are on their way.                         *)
(***************************************************************************)
EXTENDS ScreenPeers, FiniteSetTheorems, SequenceTheorems, TLAPS

-----------------------------------------------------------------------------
(* What a queue holds, without positions: its messages, and for each place where one
   stands the messages behind it. *)

Msgs(q) == {q[n] : n \in DOMAIN q}

Behind(q, n) == {q[k] : k \in {j \in DOMAIN q : j > n}}

Follow(q, m) == {Behind(q, n) : n \in {k \in DOMAIN q : q[k] = m}}

Once(q, m) == \A n, k \in DOMAIN q : q[n] = m /\ q[k] = m => n = k

\* r is q once its first message is taken: H holds that message, or nothing is taken.
Taken(q, r, H) ==
    /\ Msgs(q) = H \cup Msgs(r)
    /\ \A m : \A B \in Follow(r, m) : B \in Follow(q, m)
    /\ \A m : \A B \in Follow(q, m) : B \in Follow(r, m) \/ (m \in H /\ B = Msgs(r))
    /\ \A m \in H : Msgs(r) \in Follow(q, m)
    /\ \A m : Once(q, m) => Once(r, m) /\ (m \in H => m \notin Msgs(r))

\* r is q with the messages of N behind.
Extended(q, r, N) ==
    /\ Msgs(r) = Msgs(q) \cup N
    /\ \A m : \A B \in Follow(q, m) : B \cup N \in Follow(r, m)
    /\ \A m : \A C \in Follow(r, m) :
          (\E B \in Follow(q, m) : C = B \cup N) \/ (m \in N /\ C \subseteq N)
    /\ \A m \in N : \E C \in Follow(r, m) : C \subseteq N
    /\ \A m : Once(q, m) /\ m \notin N => Once(r, m)

LEMMA Emptied ==
    ASSUME NEW q, q = <<>>
    PROVE  Msgs(q) = {} /\ \A m : Follow(q, m) = {} /\ Once(q, m)
  <1>1. DOMAIN q = {}
    OBVIOUS
  <1> QED BY <1>1 DEF Msgs, Follow, Once

LEMMA NothingTaken ==
    ASSUME NEW q
    PROVE  Taken(q, q, {})
  BY DEF Taken

LEMMA TakingHead ==
    ASSUME NEW S, NEW q \in Seq(S), q # <<>>
    PROVE  /\ Head(q) \in S /\ Tail(q) \in Seq(S)
           /\ Taken(q, Tail(q), {Head(q)})
  <1> DEFINE r == Tail(q)
  <1>1. PICK l \in Nat : Len(q) = l + 1 /\ DOMAIN q = 1 .. l + 1 /\ DOMAIN r = 1 .. l
    <2>1. Len(q) \in Nat /\ Len(q) # 0 /\ DOMAIN q = 1 .. Len(q)
      BY EmptySeq, LenProperties
    <2>2. Len(r) = Len(q) - 1 /\ r \in Seq(S)
      BY HeadTailProperties
    <2>3. DOMAIN r = 1 .. Len(q) - 1
      BY <2>2, LenProperties
    <2>4. PICK l \in Nat : Len(q) = l + 1
      <3>1. Len(q) - 1 \in Nat /\ Len(q) = (Len(q) - 1) + 1
        BY <2>1
      <3> QED BY <3>1
    <2> QED BY <2>1, <2>3, <2>4
  <1>2. /\ Head(q) \in S /\ r \in Seq(S) /\ Head(q) = q[1]
        /\ \A i \in 1 .. l : r[i] = q[i + 1]
    <2>1. Len(r) = l
      BY <1>1, HeadTailProperties
    <2> QED BY <2>1, HeadTailProperties
  <1> HIDE DEF r
  <1>3. \A k \in 1 .. l + 1 : k = 1 \/ (\E i \in 1 .. l : k = i + 1)
    <2> TAKE k \in 1 .. l + 1
    <2>1. k = 1 \/ (k - 1 \in 1 .. l /\ k = (k - 1) + 1)
      BY <1>1
    <2> QED BY <2>1
  <1>4. Msgs(q) = {q[1]} \cup Msgs(r)
    <2>1. ASSUME NEW x \in Msgs(q) PROVE x \in {q[1]} \cup Msgs(r)
      <3>1. PICK k \in 1 .. l + 1 : x = q[k]
        BY <1>1, <2>1 DEF Msgs
      <3>2. ASSUME NEW i \in 1 .. l, k = i + 1 PROVE x \in Msgs(r)
        BY <1>1, <1>2, <3>1, <3>2 DEF Msgs
      <3> QED BY <1>3, <3>1, <3>2
    <2>2. ASSUME NEW x \in Msgs(r) PROVE x \in Msgs(q)
      <3>1. PICK i \in 1 .. l : x = r[i]
        BY <1>1, <2>2 DEF Msgs
      <3>2. i + 1 \in 1 .. l + 1
        BY <3>1
      <3> QED BY <1>1, <1>2, <3>1, <3>2 DEF Msgs
    <2>3. q[1] \in Msgs(q)
      <3>1. 1 \in 1 .. l + 1
        BY <1>1
      <3> QED BY <1>1, <3>1 DEF Msgs
    <2> QED BY <2>1, <2>2, <2>3
  <1>5. ASSUME NEW n \in 1 .. l PROVE Behind(r, n) = Behind(q, n + 1)
    <2>1. ASSUME NEW x \in Behind(r, n) PROVE x \in Behind(q, n + 1)
      <3>1. PICK i \in 1 .. l : i > n /\ x = r[i]
        BY <1>1, <2>1 DEF Behind
      <3>2. i + 1 \in 1 .. l + 1 /\ i + 1 > n + 1
        BY <3>1
      <3> QED BY <1>1, <1>2, <3>1, <3>2 DEF Behind
    <2>2. ASSUME NEW x \in Behind(q, n + 1) PROVE x \in Behind(r, n)
      <3>1. PICK k \in 1 .. l + 1 : k > n + 1 /\ x = q[k]
        BY <1>1, <2>2 DEF Behind
      <3>2. PICK i \in 1 .. l : k = i + 1
        BY <1>3, <3>1
      <3>3. i > n
        BY <3>1, <3>2
      <3> QED BY <1>1, <1>2, <3>1, <3>2, <3>3 DEF Behind
    <2> QED BY <2>1, <2>2
  <1>6. Behind(q, 1) = Msgs(r)
    <2>1. ASSUME NEW x \in Behind(q, 1) PROVE x \in Msgs(r)
      <3>1. PICK k \in 1 .. l + 1 : k > 1 /\ x = q[k]
        BY <1>1, <2>1 DEF Behind
      <3>2. PICK i \in 1 .. l : k = i + 1
        BY <1>3, <3>1
      <3> QED BY <1>1, <1>2, <3>1, <3>2 DEF Msgs
    <2>2. ASSUME NEW x \in Msgs(r) PROVE x \in Behind(q, 1)
      <3>1. PICK i \in 1 .. l : x = r[i]
        BY <1>1, <2>2 DEF Msgs
      <3>2. i + 1 \in 1 .. l + 1 /\ i + 1 > 1
        BY <3>1
      <3> QED BY <1>1, <1>2, <3>1, <3>2 DEF Behind
    <2> QED BY <2>1, <2>2
  <1>7. ASSUME NEW m, NEW B \in Follow(r, m) PROVE B \in Follow(q, m)
    <2>1. PICK i \in 1 .. l : r[i] = m /\ B = Behind(r, i)
      BY <1>1, <1>7 DEF Follow
    <2>2. i + 1 \in 1 .. l + 1 /\ q[i + 1] = m /\ B = Behind(q, i + 1)
      BY <1>2, <1>5, <2>1
    <2> QED BY <1>1, <2>2 DEF Follow
  <1>8. ASSUME NEW m, NEW B \in Follow(q, m)
        PROVE  B \in Follow(r, m) \/ (m \in {q[1]} /\ B = Msgs(r))
    <2>1. PICK k \in 1 .. l + 1 : q[k] = m /\ B = Behind(q, k)
      BY <1>1, <1>8 DEF Follow
    <2>2. CASE k = 1
      BY <1>6, <2>1, <2>2
    <2>3. ASSUME NEW i \in 1 .. l, k = i + 1 PROVE B \in Follow(r, m)
      <3>1. r[i] = m /\ B = Behind(r, i)
        BY <1>2, <1>5, <2>1, <2>3
      <3> QED BY <1>1, <3>1 DEF Follow
    <2> QED BY <1>3, <2>1, <2>2, <2>3
  <1>9. \A m \in {q[1]} : Msgs(r) \in Follow(q, m)
    <2>1. 1 \in 1 .. l + 1
      BY <1>1
    <2> QED BY <1>1, <1>6, <2>1 DEF Follow
  <1>10. ASSUME NEW m, Once(q, m)
         PROVE  Once(r, m) /\ (m \in {q[1]} => m \notin Msgs(r))
    <2>1. ASSUME NEW i \in 1 .. l, NEW j \in 1 .. l, r[i] = m, r[j] = m PROVE i = j
      <3>1. i + 1 \in 1 .. l + 1 /\ j + 1 \in 1 .. l + 1 /\ q[i + 1] = m /\ q[j + 1] = m
        BY <1>2, <2>1
      <3>2. i + 1 = j + 1
        BY <1>1, <1>10, <3>1 DEF Once
      <3> QED BY <3>2
    <2>2. ASSUME m = q[1], m \in Msgs(r) PROVE FALSE
      <3>1. PICK i \in 1 .. l : m = r[i]
        BY <1>1, <2>2 DEF Msgs
      <3>2. i + 1 \in 1 .. l + 1 /\ 1 \in 1 .. l + 1 /\ q[i + 1] = m /\ i + 1 # 1
        BY <1>2, <3>1
      <3> QED BY <1>1, <1>10, <2>2, <3>2 DEF Once
    <2> QED BY <1>1, <2>1, <2>2 DEF Once
  <1>11. Taken(q, r, {q[1]})
    BY <1>4, <1>7, <1>8, <1>9, <1>10 DEF Taken
  <1> QED BY <1>2, <1>11 DEF r

LEMMA NothingAdded ==
    ASSUME NEW q
    PROVE  Extended(q, q, {})
  <1>1. \A B : B \cup {} = B
    OBVIOUS
  <1> QED BY <1>1 DEF Extended

LEMMA Appended ==
    ASSUME NEW S, NEW q \in Seq(S), NEW m \in S
    PROVE  /\ Append(q, m) \in Seq(S)
           /\ Extended(q, Append(q, m), {m})
           /\ m \notin Msgs(q) => Once(Append(q, m), m)
  <1> DEFINE r == Append(q, m)
  <1>1. PICK l \in Nat : Len(q) = l /\ DOMAIN q = 1 .. l /\ DOMAIN r = 1 .. l + 1
    <2>1. Len(r) = Len(q) + 1 /\ r \in Seq(S)
      BY AppendProperties
    <2> QED BY <2>1, LenProperties
  <1>2. r \in Seq(S) /\ r[l + 1] = m /\ \A i \in 1 .. l : r[i] = q[i]
    BY <1>1, AppendProperties
  <1> HIDE DEF r
  <1>3. \A k \in 1 .. l + 1 : k \in 1 .. l \/ k = l + 1
    BY <1>1
  <1>4. \A k \in 1 .. l : k \in 1 .. l + 1
    BY <1>1
  <1>5. l + 1 \in 1 .. l + 1
    BY <1>1
  <1>6. Msgs(r) = Msgs(q) \cup {m}
    BY <1>1, <1>2, <1>3, <1>4, <1>5 DEF Msgs
  <1>7. ASSUME NEW n \in 1 .. l PROVE Behind(r, n) = Behind(q, n) \cup {m}
    <2>1. l + 1 > n
      BY <1>1
    <2> QED BY <1>1, <1>2, <1>3, <1>4, <1>5, <2>1 DEF Behind
  <1>8. Behind(r, l + 1) = {}
    <2>1. \A k \in 1 .. l + 1 : ~(k > l + 1)
      BY <1>1
    <2> QED BY <1>1, <2>1 DEF Behind
  <1>9. ASSUME NEW x, NEW B \in Follow(q, x) PROVE B \cup {m} \in Follow(r, x)
    <2>1. PICK n \in 1 .. l : q[n] = x /\ B = Behind(q, n)
      BY <1>1, <1>9 DEF Follow
    <2>2. n \in 1 .. l + 1 /\ r[n] = x /\ B \cup {m} = Behind(r, n)
      BY <1>2, <1>4, <1>7, <2>1
    <2> QED BY <1>1, <2>2 DEF Follow
  <1>10. ASSUME NEW x, NEW C \in Follow(r, x)
         PROVE  (\E B \in Follow(q, x) : C = B \cup {m}) \/ (x \in {m} /\ C \subseteq {m})
    <2>1. PICK k \in 1 .. l + 1 : r[k] = x /\ C = Behind(r, k)
      BY <1>1, <1>10 DEF Follow
    <2>2. CASE k = l + 1
      BY <1>2, <1>8, <2>1, <2>2
    <2>3. CASE k \in 1 .. l
      <3>1. q[k] = x /\ C = Behind(q, k) \cup {m}
        BY <1>2, <1>7, <2>1, <2>3
      <3>2. Behind(q, k) \in Follow(q, x)
        BY <1>1, <2>3, <3>1 DEF Follow
      <3> QED BY <3>1, <3>2
    <2> QED BY <1>3, <2>2, <2>3
  <1>11. \A x \in {m} : \E C \in Follow(r, x) : C \subseteq {m}
    <2>1. {} \in Follow(r, m)
      BY <1>1, <1>2, <1>5, <1>8 DEF Follow
    <2> QED BY <2>1
  <1>12. ASSUME NEW x, Once(q, x), x # m PROVE Once(r, x)
    BY <1>1, <1>2, <1>3, <1>12 DEF Once
  <1>13. ASSUME m \notin Msgs(q) PROVE Once(r, m)
    <2>1. \A k \in 1 .. l : r[k] # m
      BY <1>1, <1>2, <1>13 DEF Msgs
    <2> QED BY <1>1, <1>3, <2>1 DEF Once
  <1>14. Extended(q, r, {m})
    BY <1>6, <1>9, <1>10, <1>11, <1>12 DEF Extended
  <1> QED BY <1>2, <1>13, <1>14 DEF r

LEMMA ExtendedTwice ==
    ASSUME NEW q, NEW r, NEW t, NEW M, NEW N, Extended(q, r, M), Extended(r, t, N)
    PROVE  Extended(q, t, M \cup N)
  <1>1. Msgs(t) = Msgs(q) \cup (M \cup N)
    BY DEF Extended
  <1>2. ASSUME NEW m, NEW B \in Follow(q, m) PROVE B \cup (M \cup N) \in Follow(t, m)
    <2>1. B \cup M \in Follow(r, m)
      BY DEF Extended
    <2>2. (B \cup M) \cup N \in Follow(t, m)
      BY <2>1 DEF Extended
    <2>3. (B \cup M) \cup N = B \cup (M \cup N)
      OBVIOUS
    <2> QED BY <2>2, <2>3
  <1>3. ASSUME NEW m, NEW C \in Follow(t, m)
        PROVE  \/ \E B \in Follow(q, m) : C = B \cup (M \cup N)
               \/ m \in M \cup N /\ C \subseteq M \cup N
    <2>1. CASE m \in N /\ C \subseteq N
      BY <2>1
    <2>2. ASSUME NEW D \in Follow(r, m), C = D \cup N
          PROVE  \/ \E B \in Follow(q, m) : C = B \cup (M \cup N)
                 \/ m \in M \cup N /\ C \subseteq M \cup N
      <3>1. CASE m \in M /\ D \subseteq M
        BY <2>2, <3>1
      <3>2. ASSUME NEW B \in Follow(q, m), D = B \cup M PROVE C = B \cup (M \cup N)
        BY <2>2, <3>2
      <3> QED BY <2>2, <3>1, <3>2 DEF Extended
    <2> QED BY <2>1, <2>2 DEF Extended
  <1>4. ASSUME NEW m \in M \cup N PROVE \E C \in Follow(t, m) : C \subseteq M \cup N
    <2>1. CASE m \in N
      BY <2>1 DEF Extended
    <2>2. CASE m \in M
      <3>1. PICK D \in Follow(r, m) : D \subseteq M
        BY <2>2 DEF Extended
      <3>2. D \cup N \in Follow(t, m)
        BY <3>1 DEF Extended
      <3> QED BY <3>1, <3>2
    <2> QED BY <2>1, <2>2
  <1>5. \A m : Once(q, m) /\ m \notin M \cup N => Once(t, m)
    BY DEF Extended
  <1> QED BY <1>1, <1>2, <1>3, <1>4, <1>5 DEF Extended

-----------------------------------------------------------------------------
(* The inductive invariant. *)

Own(b) == {b} \X Requests

ResetMsg == Msg("reset", None)
ErrorMsg == Msg("error", None)

\* The messages of a browser: it starts and stops shares of its own only.
Sent(b) ==
    {Msg(t, s) : t \in {"start", "stop"}, s \in Own(b)}
    \cup {Msg(t, s) : t \in {"join", "leave", "offer"}, s \in Streams}
    \cup {About("answer", s, x) : s \in Streams, x \in Peers}
    \cup {Msg("list", None)}

\* Those of the gateway: viewers and the answer to a start concern the browser's own
\* share, a view another's.
Told(b) ==
    {Msg("confirmed", s) : s \in Own(b)}
    \cup {Msg(t, s) : t \in {"started", "stopped"}, s \in Shares}
    \cup {Msg("joined", s) : s \in Streams \ Own(b)}
    \cup {Msg("left", s) : s \in Streams}
    \cup {About(t, s, x) : t \in {"signal", "viewerLeft"}, s \in Own(b), x \in Browsers}
    \cup {About(t, s, s) : t \in {"signal", "close"}, s \in Natives}
    \cup {List(S) : S \in SUBSET Streams}
    \cup {ResetMsg, ErrorMsg, Msg("connected", None)}

\* What a start, an active share and a capture have to do with each other.
Controller(b) ==
    {c \in [cards : SUBSET Streams, starting : BOOLEAN, prompting : BOOLEAN,
            capturing : BOOLEAN, pending : Own(b) \cup {None}, active : Own(b) \cup {None},
            viewing : Streams \cup {None}, peers : SUBSET Peers] :
        /\ c.starting <=> c.prompting \/ c.pending # None
        /\ c.prompting => c.pending = None
        /\ c.active # None => ~c.starting
        /\ c.capturing <=> c.pending # None \/ c.active # None}

Typed ==
    /\ DOMAIN ui = Browsers /\ \A b \in Browsers : ui[b] \in Controller(b)
    /\ DOMAIN up = Browsers /\ \A b \in Browsers : up[b] \in Seq(Sent(b))
    /\ DOMAIN down = Browsers /\ \A b \in Browsers : down[b] \in Seq(Told(b))
    /\ ready \subseteq Browsers
    /\ shares \subseteq Shares
    /\ watchers \in [Streams -> SUBSET Browsers]
    /\ stray \in [Browsers -> SUBSET Streams]

\* The gateway holds shares and viewers of connected browsers only, no viewer of a share
\* that ended, and has told nobody the end of one that lasts.
GatewayInv ==
    /\ \A s \in Streams :
          /\ watchers[s] \subseteq ready
          /\ s \notin shares \cup Natives => watchers[s] = {}
    /\ \A b \in Browsers : \A s \in Own(b) :
          /\ s \in shares => b \in ready
          /\ b \notin watchers[s]
    /\ \A s \in shares : \A b \in Browsers : Msg("stopped", s) \notin Msgs(down[b])

\* A start on its way is the only trace of its share.
StartInv(b) ==
    \A s \in Own(b) :
       Msg("start", s) \in Msgs(up[b]) =>
          /\ s \notin shares
          /\ Once(up[b], Msg("start", s))
          /\ Msg("confirmed", s) \notin Msgs(down[b])
          /\ \A c \in Browsers : Msg("stopped", s) \notin Msgs(down[c])

\* A share that the browser knows, or is told of before the messages B, is one of the
\* gateway's, or they tell its end.
KnownShare(s, B) == s \in shares \/ Msg("stopped", s) \in B \/ ResetMsg \in B

\* The gateway's share is one that its owner knows, will be told of, or has stopped.
ShareKnown(b, s) ==
    \/ ui[b].active = s /\ ResetMsg \notin Msgs(down[b])
    \/ \E B \in Follow(down[b], Msg("confirmed", s)) : ResetMsg \notin B
    \/ Msg("stop", s) \in Msgs(up[b])

ShareInv(b) ==
    \A s \in Own(b) :
       /\ ui[b].active = s => KnownShare(s, Msgs(down[b]))
       /\ \A B \in Follow(down[b], Msg("confirmed", s)) : KnownShare(s, B)
       /\ s \in shares => ShareKnown(b, s)

\* A pending start will be answered, or the session has refused it.
PendingInv(b) ==
    \A s \in Own(b) :
       ui[b].pending = s =>
          /\ \/ Msg("start", s) \in Msgs(up[b])
             \/ Msg("confirmed", s) \in Msgs(down[b])
             \/ ErrorMsg \in Msgs(down[b])
             \/ ResetMsg \in Msgs(down[b])
             \/ s \in stray[b]
          /\ Msg("stop", s) \notin Msgs(up[b])
          /\ Msg("stopped", s) \in Msgs(down[b]) => ResetMsg \in Msgs(down[b])

\* The same for a view: the gateway counts the browser, or the messages B tell that it
\* does not.
KnownView(b, s, B) ==
    \/ b \in watchers[s]
    \/ Msg("left", s) \in B \/ Msg("stopped", s) \in B \/ ResetMsg \in B

ViewKnown(b, s) ==
    \/ (ui[b].viewing = s \/ s \in stray[b]) /\ ResetMsg \notin Msgs(down[b])
    \/ \E B \in Follow(down[b], Msg("joined", s)) : ResetMsg \notin B
    \/ Msg("leave", s) \in Msgs(up[b])

ViewInv(b) ==
    \A s \in Streams :
       /\ ui[b].viewing = s => KnownView(b, s, Msgs(down[b]))
       /\ \A B \in Follow(down[b], Msg("joined", s)) : KnownView(b, s, B)
       /\ b \in watchers[s] => ViewKnown(b, s)

\* Browser x watches the share s, or the messages B tell its owner that it does not.
Served(s, x, B) ==
    \/ x \in watchers[s]
    \/ About("viewerLeft", s, x) \in B \/ Msg("stopped", s) \in B \/ ResetMsg \in B

\* A connection is one to the source of the watched stream or to a viewer.
PeerInv(b) ==
    /\ \A x \in ui[b].peers :
          \/ ui[b].viewing # None /\ Owner(ui[b].viewing) = x
          \/ ui[b].active # None /\ Served(ui[b].active, x, Msgs(down[b]))
    /\ \A s \in Own(b), x \in Browsers : \A B \in Follow(down[b], About("signal", s, x)) :
          Served(s, x, B)

EndInv(b) == StartInv(b) /\ ShareInv(b) /\ PendingInv(b) /\ ViewInv(b) /\ PeerInv(b)

IInv == Typed /\ GatewayInv /\ \A b \in Browsers : EndInv(b)

-----------------------------------------------------------------------------
(* Messages. *)

LEMMA Messages ==
    /\ \A t, s : Msg(t, s).type = t /\ Msg(t, s).stream = s
    /\ \A t, s, x : About(t, s, x).type = t /\ About(t, s, x).stream = s /\ About(t, s, x).peer = x
    /\ \A S : List(S).type = "list" /\ List(S).cards = S
  BY DEF Msg, About, List

\* Two messages are one only if they say the same.
LEMMA Distinct ==
    /\ \A t, s, u, r : Msg(t, s) = Msg(u, r) => t = u /\ s = r
    /\ \A t, s, u, r, x : Msg(t, s) = About(u, r, x) => t = u /\ s = r
    /\ \A t, s, x, u, r, y : About(t, s, x) = About(u, r, y) => t = u /\ s = r /\ x = y
    /\ \A t, s, S : Msg(t, s) = List(S) => t = "list"
    /\ \A t, s, x, S : About(t, s, x) = List(S) => t = "list"
  <1>1. ASSUME NEW t, NEW s, NEW u, NEW r, Msg(t, s) = Msg(u, r) PROVE t = u /\ s = r
    <2>1. Msg(t, s).type = Msg(u, r).type /\ Msg(t, s).stream = Msg(u, r).stream
      BY <1>1
    <2> QED BY <2>1, Messages
  <1>2. ASSUME NEW t, NEW s, NEW u, NEW r, NEW x, Msg(t, s) = About(u, r, x) PROVE t = u /\ s = r
    <2>1. Msg(t, s).type = About(u, r, x).type /\ Msg(t, s).stream = About(u, r, x).stream
      BY <1>2
    <2> QED BY <2>1, Messages
  <1>3. ASSUME NEW t, NEW s, NEW x, NEW u, NEW r, NEW y, About(t, s, x) = About(u, r, y)
        PROVE  t = u /\ s = r /\ x = y
    <2>1. /\ About(t, s, x).type = About(u, r, y).type /\ About(t, s, x).stream = About(u, r, y).stream
          /\ About(t, s, x).peer = About(u, r, y).peer
      BY <1>3
    <2> QED BY <2>1, Messages
  <1>4. ASSUME NEW t, NEW s, NEW S, Msg(t, s) = List(S) PROVE t = "list"
    <2>1. Msg(t, s).type = List(S).type
      BY <1>4
    <2> QED BY <2>1, Messages
  <1>5. ASSUME NEW t, NEW s, NEW x, NEW S, About(t, s, x) = List(S) PROVE t = "list"
    <2>1. About(t, s, x).type = List(S).type
      BY <1>5
    <2> QED BY <2>1, Messages
  <1> QED BY <1>1, <1>2, <1>3, <1>4, <1>5

LEMMA ToldOf ==
    ASSUME NEW b, NEW m \in Told(b)
    PROVE  /\ m.type = "confirmed" => m.stream \in Own(b) /\ m = Msg("confirmed", m.stream)
           /\ m.type = "started" => m.stream \in Shares /\ m = Msg("started", m.stream)
           /\ m.type = "stopped" => m.stream \in Shares /\ m = Msg("stopped", m.stream)
           /\ m.type = "joined" => m.stream \in Streams \ Own(b) /\ m = Msg("joined", m.stream)
           /\ m.type = "left" => m.stream \in Streams /\ m = Msg("left", m.stream)
           /\ m.type = "viewerLeft" =>
                 m.stream \in Own(b) /\ m.peer \in Browsers /\ m = About("viewerLeft", m.stream, m.peer)
           /\ m.type = "signal" =>
                 /\ m = About("signal", m.stream, m.peer)
                 /\ \/ m.stream \in Own(b) /\ m.peer \in Browsers
                    \/ m.stream \in Natives /\ m.peer = m.stream
           /\ m.type = "close" =>
                 m.stream \in Natives /\ m.peer = m.stream /\ m = About("close", m.stream, m.peer)
           /\ m.type = "list" => m.cards \subseteq Streams /\ m = List(m.cards)
           /\ m.type = "error" => m = ErrorMsg
           /\ m.type = "reset" => m = ResetMsg
           /\ m.type = "connected" => m = Msg("connected", None)
  <1>1. CASE m \in {Msg("confirmed", s) : s \in Own(b)}
    BY <1>1, Messages
  <1>2. CASE m \in {Msg(t, s) : t \in {"started", "stopped"}, s \in Shares}
    BY <1>2, Messages
  <1>3. CASE m \in {Msg("joined", s) : s \in Streams \ Own(b)} \cup {Msg("left", s) : s \in Streams}
    BY <1>3, Messages
  <1>4. CASE m \in {About(t, s, x) : t \in {"signal", "viewerLeft"}, s \in Own(b), x \in Browsers}
    BY <1>4, Messages
  <1>5. CASE m \in {About(t, s, s) : t \in {"signal", "close"}, s \in Natives}
    BY <1>5, Messages
  <1>6. CASE m \in {List(S) : S \in SUBSET Streams}
    <2>1. PICK S \in SUBSET Streams : m = List(S)
      BY <1>6
    <2>2. m.type = "list" /\ m.cards = S
      BY <2>1, Messages
    <2> QED BY <2>1, <2>2
  <1>7. CASE m \in {ResetMsg, ErrorMsg, Msg("connected", None)}
    BY <1>7, Messages DEF ResetMsg, ErrorMsg
  <1> QED BY <1>1, <1>2, <1>3, <1>4, <1>5, <1>6, <1>7 DEF Told

LEMMA SentOf ==
    ASSUME NEW b, NEW m \in Sent(b)
    PROVE  /\ m.type \in {"start", "stop"} => m.stream \in Own(b) /\ m = Msg(m.type, m.stream)
           /\ m.type \in {"join", "leave", "offer"} =>
                 m.stream \in Streams /\ m = Msg(m.type, m.stream)
           /\ m.type = "answer" =>
                 m.stream \in Streams /\ m.peer \in Peers /\ m = About("answer", m.stream, m.peer)
           /\ m.type = "list" => m = Msg("list", None)
           /\ m.type \in {"start", "stop", "join", "leave", "offer", "answer", "list"}
  <1>1. CASE m \in {Msg(t, s) : t \in {"start", "stop"}, s \in Own(b)}
    BY <1>1, Messages
  <1>2. CASE m \in {Msg(t, s) : t \in {"join", "leave", "offer"}, s \in Streams}
    BY <1>2, Messages
  <1>3. CASE m \in {About("answer", s, x) : s \in Streams, x \in Peers}
    BY <1>3, Messages
  <1>4. CASE m = Msg("list", None)
    BY <1>4, Messages
  <1> QED BY <1>1, <1>2, <1>3, <1>4 DEF Sent

\* None is nothing, and each share is its owner's.
LEMMA Names ==
    /\ None \notin Streams /\ None \notin Browsers /\ None \notin Peers
    /\ \A s \in Natives : s \notin Shares /\ s \notin Browsers
    /\ \A b : \A s \in Own(b) : s[1] = b
    /\ \A b \in Browsers : Own(b) \subseteq Shares
    /\ \A s \in Shares : s[1] \in Browsers /\ s \in Own(s[1])
    /\ \A b, c : \A s \in Own(b) : s \in Own(c) => b = c
    /\ Shares \subseteq Streams /\ Natives \subseteq Streams
    /\ \A s \in Streams : s \in Shares \/ s \in Natives
    /\ \A b \in Browsers : \A s \in Own(b) : Owner(s) = b
    /\ \A s \in Natives : Owner(s) = s
    /\ \A s \in Streams : Owner(s) \in Peers
  BY NoneAssumption, NativesAssumption DEF Own, Shares, Streams, Peers, Owner

-----------------------------------------------------------------------------
(* What a step of a browser b does to both ends: it takes the messages H of the gateway
   and sends W. *)

ShareStep(b, H, W) ==
    \A s \in Own(b) :
       /\ ui'[b].active = s =>
             \/ Msg("confirmed", s) \in H
             \/ ui[b].active = s /\ Msg("stopped", s) \notin H /\ ResetMsg \notin H
       /\ ui[b].active = s =>
             ui'[b].active = s \/ Msg("stop", s) \in W \/ Msg("stopped", s) \in H \/ ResetMsg \in H
       /\ Msg("confirmed", s) \in H => ui'[b].active = s \/ Msg("stop", s) \in W

PendingStep(b, H, W) ==
    \A s \in Own(b) :
       ui'[b].pending = s =>
          /\ Msg("stop", s) \notin W
          /\ \/ /\ ui[b].pending = s
                /\ Msg("confirmed", s) \notin H /\ ErrorMsg \notin H /\ ResetMsg \notin H
                /\ s \in stray[b] => s \in stray'[b] \/ Msg("stopped", s) \in H
             \/ /\ Msg("start", s) \in W
                /\ Msg("stop", s) \notin Msgs(up[b]) /\ Msg("stopped", s) \notin Msgs(down[b])

StartStep(b, W) ==
    \A s \in Own(b) :
       Msg("start", s) \in W =>
          /\ s \notin shares
          /\ Once(up'[b], Msg("start", s))
          /\ Msg("confirmed", s) \notin Msgs(down[b])
          /\ \A c \in Browsers : Msg("stopped", s) \notin Msgs(down[c])

ViewStep(b, H, W) ==
    \A s \in Streams :
       /\ ui'[b].viewing = s =>
             \/ Msg("joined", s) \in H
             \/ /\ ui[b].viewing = s
                /\ Msg("left", s) \notin H /\ Msg("stopped", s) \notin H /\ ResetMsg \notin H
       /\ ui[b].viewing = s \/ s \in stray[b] =>
             \/ ui'[b].viewing = s \/ s \in stray'[b] \/ Msg("leave", s) \in W
             \/ Msg("stopped", s) \in H \/ ResetMsg \in H \/ b \notin watchers[s]
       /\ Msg("joined", s) \in H => ui'[b].viewing = s

PeerStep(b, H) ==
    \A x \in ui'[b].peers :
       \/ ui'[b].viewing # None /\ Owner(ui'[b].viewing) = x
       \/ x \in Browsers /\ ui'[b].active \in Own(b) /\ About("signal", ui'[b].active, x) \in H
       \/ /\ x \in ui[b].peers
          /\ ui[b].viewing = None \/ Owner(ui[b].viewing) # x
          /\ ui[b].active # None => /\ ui'[b].active = ui[b].active
                                    /\ Msg("stopped", ui[b].active) \notin H /\ ResetMsg \notin H
                                    /\ About("viewerLeft", ui[b].active, x) \notin H

BrowserStep(b, H, W) ==
    /\ Taken(down[b], down'[b], H)
    /\ Msgs(up'[b]) = Msgs(up[b]) \cup W
    /\ \A m : Once(up[b], m) /\ m \notin W => Once(up'[b], m)
    /\ ShareStep(b, H, W) /\ PendingStep(b, H, W) /\ StartStep(b, W)
    /\ ViewStep(b, H, W) /\ PeerStep(b, H)

LEMMA BrowserKeepsShares ==
    ASSUME NEW b \in Browsers, NEW H, NEW W, BrowserStep(b, H, W), UNCHANGED <<shares, watchers>>,
           GatewayInv, ShareInv(b)
    PROVE  ShareInv(b)'
  <1> USE DEF KnownShare
  <1>0. /\ Msgs(down[b]) = H \cup Msgs(down'[b]) /\ Msgs(up'[b]) = Msgs(up[b]) \cup W
        /\ shares' = shares
    BY DEF BrowserStep, Taken
  <1>1. ASSUME NEW s \in Own(b), ui'[b].active = s PROVE KnownShare(s, Msgs(down[b]))'
    <2>1. CASE Msg("confirmed", s) \in H
      <3>1. Msgs(down'[b]) \in Follow(down[b], Msg("confirmed", s))
        BY <2>1 DEF BrowserStep, Taken
      <3>2. KnownShare(s, Msgs(down'[b]))
        BY <3>1 DEF ShareInv
      <3> QED BY <1>0, <3>2
    <2>2. CASE ui[b].active = s /\ Msg("stopped", s) \notin H /\ ResetMsg \notin H
      BY <1>0, <2>2 DEF ShareInv
    <2> QED BY <1>1, <2>1, <2>2 DEF BrowserStep, ShareStep
  <1>2. ASSUME NEW s \in Own(b), NEW B \in Follow(down'[b], Msg("confirmed", s))
        PROVE  KnownShare(s, B)'
    <2>1. B \in Follow(down[b], Msg("confirmed", s))
      BY <1>2 DEF BrowserStep, Taken
    <2>2. KnownShare(s, B)
      BY <2>1 DEF ShareInv
    <2> QED BY <1>0, <2>2
  <1>3. ASSUME NEW s \in Own(b), s \in shares PROVE ShareKnown(b, s)'
    <2>0. Msg("stopped", s) \notin Msgs(down[b])
      BY <1>3 DEF GatewayInv
    <2>1. CASE ui[b].active = s /\ ResetMsg \notin Msgs(down[b])
      <3>1. ui'[b].active = s \/ Msg("stop", s) \in W
        BY <1>0, <2>0, <2>1 DEF BrowserStep, ShareStep
      <3> QED BY <1>0, <2>1, <3>1 DEF ShareKnown
    <2>2. ASSUME NEW B \in Follow(down[b], Msg("confirmed", s)), ResetMsg \notin B
          PROVE  ShareKnown(b, s)'
      <3>1. CASE B \in Follow(down'[b], Msg("confirmed", s))
        BY <2>2, <3>1 DEF ShareKnown
      <3>2. CASE Msg("confirmed", s) \in H /\ B = Msgs(down'[b])
        <4>1. ui'[b].active = s \/ Msg("stop", s) \in W
          BY <3>2 DEF BrowserStep, ShareStep
        <4> QED BY <1>0, <2>2, <3>2, <4>1 DEF ShareKnown
      <3> QED BY <2>2, <3>1, <3>2 DEF BrowserStep, Taken
    <2>3. CASE Msg("stop", s) \in Msgs(up[b])
      BY <1>0, <2>3 DEF ShareKnown
    <2>4. ShareKnown(b, s)
      BY <1>3 DEF ShareInv
    <2> QED BY <2>1, <2>2, <2>3, <2>4 DEF ShareKnown
  <1> QED BY <1>0, <1>1, <1>2, <1>3 DEF ShareInv

LEMMA BrowserKeepsPending ==
    ASSUME NEW b \in Browsers, NEW H, NEW W, BrowserStep(b, H, W), PendingInv(b)
    PROVE  PendingInv(b)'
  <1>0. Msgs(down[b]) = H \cup Msgs(down'[b]) /\ Msgs(up'[b]) = Msgs(up[b]) \cup W
    BY DEF BrowserStep, Taken
  <1>1. SUFFICES ASSUME NEW s \in Own(b), ui'[b].pending = s
        PROVE  /\ \/ Msg("start", s) \in Msgs(up'[b])
                  \/ Msg("confirmed", s) \in Msgs(down'[b])
                  \/ ErrorMsg \in Msgs(down'[b])
                  \/ ResetMsg \in Msgs(down'[b])
                  \/ s \in stray'[b]
               /\ Msg("stop", s) \notin Msgs(up'[b])
               /\ Msg("stopped", s) \in Msgs(down'[b]) => ResetMsg \in Msgs(down'[b])
    BY DEF PendingInv
  <1>2. Msg("stop", s) \notin W
    BY <1>1 DEF BrowserStep, PendingStep
  <1>3. CASE /\ ui[b].pending = s
             /\ Msg("confirmed", s) \notin H /\ ErrorMsg \notin H /\ ResetMsg \notin H
             /\ s \in stray[b] => s \in stray'[b] \/ Msg("stopped", s) \in H
    BY <1>0, <1>2, <1>3 DEF PendingInv
  <1>4. CASE /\ Msg("start", s) \in W
             /\ Msg("stop", s) \notin Msgs(up[b]) /\ Msg("stopped", s) \notin Msgs(down[b])
    BY <1>0, <1>2, <1>4
  <1> QED BY <1>1, <1>3, <1>4 DEF BrowserStep, PendingStep

LEMMA BrowserKeepsStarts ==
    ASSUME NEW b \in Browsers, NEW H, NEW W, BrowserStep(b, H, W), UNCHANGED shares,
           \A c \in Browsers : Msgs(down'[c]) \subseteq Msgs(down[c]),
           StartInv(b)
    PROVE  StartInv(b)'
  <1>1. SUFFICES ASSUME NEW s \in Own(b), Msg("start", s) \in Msgs(up'[b])
        PROVE  /\ s \notin shares'
               /\ Once(up'[b], Msg("start", s))
               /\ Msg("confirmed", s) \notin Msgs(down'[b])
               /\ \A c \in Browsers : Msg("stopped", s) \notin Msgs(down'[c])
    BY DEF StartInv
  <1>2. CASE Msg("start", s) \in W
    BY <1>2 DEF BrowserStep, StartStep
  <1>3. CASE Msg("start", s) \notin W
    <2>1. Msg("start", s) \in Msgs(up[b])
      BY <1>1, <1>3 DEF BrowserStep
    <2> QED BY <1>3, <2>1 DEF StartInv, BrowserStep
  <1> QED BY <1>2, <1>3

LEMMA BrowserKeepsViews ==
    ASSUME NEW b \in Browsers, NEW H, NEW W, BrowserStep(b, H, W), UNCHANGED <<shares, watchers>>,
           \A s \in Streams : b \in watchers[s] => Msg("stopped", s) \notin Msgs(down[b]),
           ViewInv(b)
    PROVE  ViewInv(b)'
  <1> USE DEF KnownView
  <1>0. /\ Msgs(down[b]) = H \cup Msgs(down'[b]) /\ Msgs(up'[b]) = Msgs(up[b]) \cup W
        /\ watchers' = watchers
    BY DEF BrowserStep, Taken
  <1>1. ASSUME NEW s \in Streams, ui'[b].viewing = s PROVE KnownView(b, s, Msgs(down[b]))'
    <2>1. CASE Msg("joined", s) \in H
      <3>1. Msgs(down'[b]) \in Follow(down[b], Msg("joined", s))
        BY <2>1 DEF BrowserStep, Taken
      <3>2. KnownView(b, s, Msgs(down'[b]))
        BY <3>1 DEF ViewInv
      <3> QED BY <1>0, <3>2
    <2>2. CASE /\ ui[b].viewing = s
               /\ Msg("left", s) \notin H /\ Msg("stopped", s) \notin H /\ ResetMsg \notin H
      BY <1>0, <2>2 DEF ViewInv
    <2> QED BY <1>1, <2>1, <2>2 DEF BrowserStep, ViewStep
  <1>2. ASSUME NEW s \in Streams, NEW B \in Follow(down'[b], Msg("joined", s))
        PROVE  KnownView(b, s, B)'
    <2>1. B \in Follow(down[b], Msg("joined", s))
      BY <1>2 DEF BrowserStep, Taken
    <2>2. KnownView(b, s, B)
      BY <2>1 DEF ViewInv
    <2> QED BY <1>0, <2>2
  <1>3. ASSUME NEW s \in Streams, b \in watchers[s] PROVE ViewKnown(b, s)'
    <2>0. Msg("stopped", s) \notin Msgs(down[b])
      BY <1>3
    <2>1. CASE (ui[b].viewing = s \/ s \in stray[b]) /\ ResetMsg \notin Msgs(down[b])
      <3>1. ui'[b].viewing = s \/ s \in stray'[b] \/ Msg("leave", s) \in W
        BY <1>0, <1>3, <2>0, <2>1 DEF BrowserStep, ViewStep
      <3> QED BY <1>0, <2>1, <3>1 DEF ViewKnown
    <2>2. ASSUME NEW B \in Follow(down[b], Msg("joined", s)), ResetMsg \notin B
          PROVE  ViewKnown(b, s)'
      <3>1. CASE B \in Follow(down'[b], Msg("joined", s))
        BY <2>2, <3>1 DEF ViewKnown
      <3>2. CASE Msg("joined", s) \in H /\ B = Msgs(down'[b])
        <4>1. ui'[b].viewing = s
          BY <3>2 DEF BrowserStep, ViewStep
        <4> QED BY <1>0, <2>2, <3>2, <4>1 DEF ViewKnown
      <3> QED BY <2>2, <3>1, <3>2 DEF BrowserStep, Taken
    <2>3. CASE Msg("leave", s) \in Msgs(up[b])
      BY <1>0, <2>3 DEF ViewKnown
    <2>4. ViewKnown(b, s)
      BY <1>3 DEF ViewInv
    <2> QED BY <2>1, <2>2, <2>3, <2>4 DEF ViewKnown
  <1> QED BY <1>0, <1>1, <1>2, <1>3 DEF ViewInv

LEMMA BrowserKeepsPeers ==
    ASSUME NEW b \in Browsers, NEW H, NEW W, BrowserStep(b, H, W), UNCHANGED <<shares, watchers>>,
           None \notin Own(b), PeerInv(b)
    PROVE  PeerInv(b)'
  <1> USE DEF Served
  <1>0. Msgs(down[b]) = H \cup Msgs(down'[b]) /\ watchers' = watchers
    BY DEF BrowserStep, Taken
  <1>1. ASSUME NEW x \in ui'[b].peers
        PROVE  \/ ui'[b].viewing # None /\ Owner(ui'[b].viewing) = x
               \/ ui'[b].active # None /\ Served(ui[b].active, x, Msgs(down[b]))'
    <2>1. CASE ui'[b].viewing # None /\ Owner(ui'[b].viewing) = x
      BY <2>1
    <2>2. CASE x \in Browsers /\ ui'[b].active \in Own(b) /\ About("signal", ui'[b].active, x) \in H
      <3>1. PICK s \in Own(b) : s = ui'[b].active
        BY <2>2
      <3>2. Msgs(down'[b]) \in Follow(down[b], About("signal", s, x))
        BY <2>2, <3>1 DEF BrowserStep, Taken
      <3>3. Served(s, x, Msgs(down'[b]))
        BY <2>2, <3>2 DEF PeerInv
      <3> QED BY <1>0, <2>2, <3>1, <3>3
    <2>3. CASE /\ x \in ui[b].peers
               /\ ui[b].viewing = None \/ Owner(ui[b].viewing) # x
               /\ ui[b].active # None => /\ ui'[b].active = ui[b].active
                                         /\ Msg("stopped", ui[b].active) \notin H /\ ResetMsg \notin H
                                         /\ About("viewerLeft", ui[b].active, x) \notin H
      <3>1. ui[b].active # None /\ Served(ui[b].active, x, Msgs(down[b]))
        BY <2>3 DEF PeerInv
      <3> QED BY <1>0, <2>3, <3>1
    <2> QED BY <1>1, <2>1, <2>2, <2>3 DEF BrowserStep, PeerStep
  <1>2. ASSUME NEW s \in Own(b), NEW x \in Browsers, NEW B \in Follow(down'[b], About("signal", s, x))
        PROVE  Served(s, x, B)'
    <2>1. B \in Follow(down[b], About("signal", s, x))
      BY <1>2 DEF BrowserStep, Taken
    <2>2. Served(s, x, B)
      BY <2>1 DEF PeerInv
    <2> QED BY <1>0, <2>2
  <1> QED BY <1>1, <1>2 DEF PeerInv

-----------------------------------------------------------------------------
(* What a step of the gateway does to both ends of a browser b: it sends N. *)

OwnSharesStep(b, N) ==
    \A s \in Own(b) :
       /\ s \in shares /\ s \notin shares' => Msg("stopped", s) \in N \/ ResetMsg \in N
       /\ s \notin shares /\ s \in shares' => Msg("confirmed", s) \in N
       /\ s \in shares' => ResetMsg \notin N
       /\ Msg("confirmed", s) \in N => s \in shares' /\ Msg("start", s) \notin Msgs(up'[b])
       /\ Msg("stopped", s) \in N => Msg("stop", s) \in Msgs(up[b]) \/ ResetMsg \in N
       /\ Msg("start", s) \in Msgs(up[b]) =>
             \/ Msg("start", s) \in Msgs(up'[b]) \/ Msg("confirmed", s) \in N
             \/ ErrorMsg \in N \/ s \in stray'[b]
       /\ Msg("start", s) \in Msgs(up'[b]) => s \in shares \/ s \notin shares'
       /\ Msg("stop", s) \in Msgs(up[b]) => Msg("stop", s) \in Msgs(up'[b]) \/ s \notin shares'

OwnViewsStep(b, N) ==
    \A s \in Streams :
       /\ b \in watchers[s] /\ b \notin watchers'[s] =>
             Msg("left", s) \in N \/ Msg("stopped", s) \in N \/ ResetMsg \in N
       /\ b \notin watchers[s] /\ b \in watchers'[s] => Msg("joined", s) \in N
       /\ b \in watchers'[s] => ResetMsg \notin N
       /\ Msg("joined", s) \in N => b \in watchers'[s]
       /\ Msg("leave", s) \in Msgs(up[b]) => Msg("leave", s) \in Msgs(up'[b]) \/ b \notin watchers'[s]

OwnViewersStep(b, N) ==
    \A s \in Own(b), x \in Peers :
       /\ x \in watchers[s] /\ x \notin watchers'[s] =>
             \/ About("viewerLeft", s, x) \in N
             \/ Msg("stopped", s) \in N \/ ResetMsg \in N
       /\ About("signal", s, x) \in N => x \in watchers'[s]

GatewayStep(b, N) ==
    /\ ui'[b] = ui[b]
    /\ Extended(down[b], down'[b], N)
    /\ Msgs(up'[b]) \subseteq Msgs(up[b])
    /\ \A m : Once(up[b], m) => Once(up'[b], m)
    /\ stray[b] \subseteq stray'[b]
    /\ OwnSharesStep(b, N) /\ OwnViewsStep(b, N) /\ OwnViewersStep(b, N)

LEMMA GatewayKeepsShares ==
    ASSUME NEW b \in Browsers, NEW N, GatewayStep(b, N), ShareInv(b)
    PROVE  ShareInv(b)'
  <1>0. Msgs(down'[b]) = Msgs(down[b]) \cup N /\ ui'[b] = ui[b]
    BY DEF GatewayStep, Extended
  <1>1. ASSUME NEW s \in Own(b), NEW B, KnownShare(s, B) PROVE KnownShare(s, B \cup N)'
    BY <1>1 DEF KnownShare, GatewayStep, OwnSharesStep
  <1>2. ASSUME NEW s \in Own(b), ui'[b].active = s PROVE KnownShare(s, Msgs(down[b]))'
    <2>1. KnownShare(s, Msgs(down[b]))
      BY <1>0, <1>2 DEF ShareInv
    <2> QED BY <1>0, <2>1 DEF KnownShare, GatewayStep, OwnSharesStep
  <1>3. ASSUME NEW s \in Own(b), NEW C \in Follow(down'[b], Msg("confirmed", s))
        PROVE  KnownShare(s, C)'
    <2>1. CASE Msg("confirmed", s) \in N /\ C \subseteq N
      BY <2>1 DEF KnownShare, GatewayStep, OwnSharesStep
    <2>2. ASSUME NEW B \in Follow(down[b], Msg("confirmed", s)), C = B \cup N
          PROVE  KnownShare(s, C)'
      <3>1. KnownShare(s, B)
        BY <2>2 DEF ShareInv
      <3> QED BY <1>1, <2>2, <3>1
    <2> QED BY <1>3, <2>1, <2>2 DEF GatewayStep, Extended
  <1>4. ASSUME NEW s \in Own(b), s \in shares' PROVE ShareKnown(b, s)'
    <2>0. ResetMsg \notin N
      BY <1>4 DEF GatewayStep, OwnSharesStep
    <2>1. CASE s \notin shares
      <3>1. Msg("confirmed", s) \in N
        BY <1>4, <2>1 DEF GatewayStep, OwnSharesStep
      <3>2. PICK C \in Follow(down'[b], Msg("confirmed", s)) : C \subseteq N
        BY <3>1 DEF GatewayStep, Extended
      <3> QED BY <2>0, <3>2 DEF ShareKnown
    <2>2. CASE ui[b].active = s /\ ResetMsg \notin Msgs(down[b])
      BY <1>0, <2>0, <2>2 DEF ShareKnown
    <2>3. ASSUME NEW B \in Follow(down[b], Msg("confirmed", s)), ResetMsg \notin B
          PROVE  ShareKnown(b, s)'
      <3>1. B \cup N \in Follow(down'[b], Msg("confirmed", s))
        BY <2>3 DEF GatewayStep, Extended
      <3> QED BY <2>0, <2>3, <3>1 DEF ShareKnown
    <2>4. CASE Msg("stop", s) \in Msgs(up[b])
      BY <1>4, <2>4 DEF ShareKnown, GatewayStep, OwnSharesStep
    <2> QED BY <2>1, <2>2, <2>3, <2>4 DEF ShareInv, ShareKnown
  <1> QED BY <1>2, <1>3, <1>4 DEF ShareInv

LEMMA GatewayKeepsPending ==
    ASSUME NEW b \in Browsers, NEW N, GatewayStep(b, N), PendingInv(b)
    PROVE  PendingInv(b)'
  <1>0. Msgs(down'[b]) = Msgs(down[b]) \cup N /\ ui'[b] = ui[b]
    BY DEF GatewayStep, Extended
  <1> QED BY <1>0 DEF PendingInv, GatewayStep, OwnSharesStep

LEMMA GatewayKeepsStarts ==
    ASSUME NEW b \in Browsers, NEW N, GatewayStep(b, N), StartInv(b),
           \A c \in Browsers : \A s \in Own(b) :
              Msg("stopped", s) \in Msgs(down'[c]) => Msg("stopped", s) \in Msgs(down[c]) \/ s \in shares
    PROVE  StartInv(b)'
  <1>0. Msgs(down'[b]) = Msgs(down[b]) \cup N /\ Msgs(up'[b]) \subseteq Msgs(up[b])
    BY DEF GatewayStep, Extended
  <1> SUFFICES ASSUME NEW s \in Own(b), Msg("start", s) \in Msgs(up'[b])
      PROVE  /\ s \notin shares'
             /\ Once(up'[b], Msg("start", s))
             /\ Msg("confirmed", s) \notin Msgs(down'[b])
             /\ \A c \in Browsers : Msg("stopped", s) \notin Msgs(down'[c])
    BY DEF StartInv
  <1>1. /\ s \notin shares
        /\ Once(up[b], Msg("start", s))
        /\ Msg("confirmed", s) \notin Msgs(down[b])
        /\ \A c \in Browsers : Msg("stopped", s) \notin Msgs(down[c])
    BY <1>0 DEF StartInv
  <1>2. s \notin shares' /\ Msg("confirmed", s) \notin N
    BY <1>1 DEF GatewayStep, OwnSharesStep
  <1> QED BY <1>0, <1>1, <1>2 DEF GatewayStep

LEMMA GatewayKeepsViews ==
    ASSUME NEW b \in Browsers, NEW N, GatewayStep(b, N), ViewInv(b)
    PROVE  ViewInv(b)'
  <1>0. Msgs(down'[b]) = Msgs(down[b]) \cup N /\ ui'[b] = ui[b] /\ stray[b] \subseteq stray'[b]
    BY DEF GatewayStep, Extended
  <1>1. ASSUME NEW s \in Streams, NEW B, KnownView(b, s, B) PROVE KnownView(b, s, B \cup N)'
    BY <1>1 DEF KnownView, GatewayStep, OwnViewsStep
  <1>2. ASSUME NEW s \in Streams, ui'[b].viewing = s PROVE KnownView(b, s, Msgs(down[b]))'
    <2>1. KnownView(b, s, Msgs(down[b]))
      BY <1>0, <1>2 DEF ViewInv
    <2> QED BY <1>0, <2>1 DEF KnownView, GatewayStep, OwnViewsStep
  <1>3. ASSUME NEW s \in Streams, NEW C \in Follow(down'[b], Msg("joined", s))
        PROVE  KnownView(b, s, C)'
    <2>1. CASE Msg("joined", s) \in N /\ C \subseteq N
      BY <2>1 DEF KnownView, GatewayStep, OwnViewsStep
    <2>2. ASSUME NEW B \in Follow(down[b], Msg("joined", s)), C = B \cup N
          PROVE  KnownView(b, s, C)'
      <3>1. KnownView(b, s, B)
        BY <2>2 DEF ViewInv
      <3> QED BY <1>1, <2>2, <3>1
    <2> QED BY <1>3, <2>1, <2>2 DEF GatewayStep, Extended
  <1>4. ASSUME NEW s \in Streams, b \in watchers'[s] PROVE ViewKnown(b, s)'
    <2>0. ResetMsg \notin N
      BY <1>4 DEF GatewayStep, OwnViewsStep
    <2>1. CASE b \notin watchers[s]
      <3>1. Msg("joined", s) \in N
        BY <1>4, <2>1 DEF GatewayStep, OwnViewsStep
      <3>2. PICK C \in Follow(down'[b], Msg("joined", s)) : C \subseteq N
        BY <3>1 DEF GatewayStep, Extended
      <3> QED BY <2>0, <3>2 DEF ViewKnown
    <2>2. CASE (ui[b].viewing = s \/ s \in stray[b]) /\ ResetMsg \notin Msgs(down[b])
      BY <1>0, <2>0, <2>2 DEF ViewKnown
    <2>3. ASSUME NEW B \in Follow(down[b], Msg("joined", s)), ResetMsg \notin B
          PROVE  ViewKnown(b, s)'
      <3>1. B \cup N \in Follow(down'[b], Msg("joined", s))
        BY <2>3 DEF GatewayStep, Extended
      <3> QED BY <2>0, <2>3, <3>1 DEF ViewKnown
    <2>4. CASE Msg("leave", s) \in Msgs(up[b])
      BY <1>4, <2>4 DEF ViewKnown, GatewayStep, OwnViewsStep
    <2> QED BY <2>1, <2>2, <2>3, <2>4 DEF ViewInv, ViewKnown
  <1> QED BY <1>2, <1>3, <1>4 DEF ViewInv

LEMMA GatewayKeepsPeers ==
    ASSUME NEW b \in Browsers, NEW N, GatewayStep(b, N), PeerInv(b), ui[b] \in Controller(b)
    PROVE  PeerInv(b)'
  <1>0. /\ Msgs(down'[b]) = Msgs(down[b]) \cup N /\ ui'[b] = ui[b]
        /\ ui[b].peers \subseteq Peers /\ ui[b].active \in Own(b) \cup {None}
    BY DEF GatewayStep, Extended, Controller
  <1>1. ASSUME NEW s \in Own(b), NEW x \in Peers, NEW B, Served(s, x, B) PROVE Served(s, x, B \cup N)'
    BY <1>1 DEF Served, GatewayStep, OwnViewersStep
  <1>2. ASSUME NEW x \in ui[b].peers
        PROVE  \/ ui[b].viewing # None /\ Owner(ui[b].viewing) = x
               \/ ui[b].active # None /\ Served(ui[b].active, x, Msgs(down[b]))'
    <2>1. CASE ui[b].viewing # None /\ Owner(ui[b].viewing) = x
      BY <2>1
    <2>2. CASE ui[b].active # None /\ Served(ui[b].active, x, Msgs(down[b]))
      <3>1. PICK s \in Own(b) : s = ui[b].active
        BY <1>0, <2>2
      <3>2. x \in Peers
        BY <1>0, <1>2
      <3>3. Served(s, x, Msgs(down[b]))'
        BY <1>0, <2>2, <3>1, <3>2 DEF Served, GatewayStep, OwnViewersStep
      <3> QED BY <1>0, <2>2, <3>1, <3>3
    <2> QED BY <1>2, <2>1, <2>2 DEF PeerInv
  <1>3. ASSUME NEW s \in Own(b), NEW x \in Browsers, NEW C \in Follow(down'[b], About("signal", s, x))
        PROVE  Served(s, x, C)'
    <2>0. x \in Peers
      BY DEF Peers
    <2>1. CASE About("signal", s, x) \in N /\ C \subseteq N
      BY <2>0, <2>1 DEF Served, GatewayStep, OwnViewersStep
    <2>2. ASSUME NEW B \in Follow(down[b], About("signal", s, x)), C = B \cup N
          PROVE  Served(s, x, C)'
      <3>1. Served(s, x, B)
        BY <2>2 DEF PeerInv
      <3> QED BY <1>1, <2>0, <2>2, <3>1
    <2> QED BY <1>3, <2>1, <2>2 DEF GatewayStep, Extended
  <1> QED BY <1>0, <1>2, <1>3 DEF PeerInv

-----------------------------------------------------------------------------
(* What is sent to the browsers, one message after the other and for each stream of a
   set. *)

Queues(q) == DOMAIN q = Browsers /\ \A c \in Browsers : q[c] \in Seq(Told(c))

Grown(q, r, N) == \A c \in Browsers : Extended(q[c], r[c], N[c])

To(S, M) == [c \in Browsers |-> IF c \in S THEN M ELSE {}]

And(M, N) == [c \in Browsers |-> M[c] \cup N[c]]

LEMMA TellGrows ==
    ASSUME NEW q, Queues(q), NEW S, NEW m, \A c \in S \cap Browsers : m \in Told(c)
    PROVE  Queues(Tell(q, S, m)) /\ Grown(q, Tell(q, S, m), To(S, {m}))
  <1> DEFINE r == Tell(q, S, m)
  <1>1. DOMAIN r = Browsers
    BY DEF Tell
  <1>2. ASSUME NEW c \in Browsers
        PROVE  r[c] \in Seq(Told(c)) /\ Extended(q[c], r[c], To(S, {m})[c])
    <2>1. CASE c \in S
      <3>1. r[c] = Append(q[c], m) /\ To(S, {m})[c] = {m}
        BY <2>1 DEF Tell, To
      <3>2. q[c] \in Seq(Told(c)) /\ m \in Told(c)
        BY <2>1 DEF Queues
      <3>3. Append(q[c], m) \in Seq(Told(c)) /\ Extended(q[c], Append(q[c], m), {m})
        BY <3>2, Appended
      <3> HIDE DEF r
      <3> QED BY <3>1, <3>3
    <2>2. CASE c \notin S
      <3>1. r[c] = q[c] /\ To(S, {m})[c] = {}
        BY <2>2 DEF Tell, To
      <3> HIDE DEF r
      <3> QED BY <3>1, NothingAdded DEF Queues
    <2> QED BY <2>1, <2>2
  <1> HIDE DEF r
  <1>3. Queues(r) /\ Grown(q, r, To(S, {m}))
    BY <1>1, <1>2 DEF Queues, Grown
  <1> QED BY <1>3 DEF r

LEMMA GrownTwice ==
    ASSUME NEW q, NEW r, NEW t, NEW M, NEW N, Grown(q, r, M), Grown(r, t, N)
    PROVE  Grown(q, t, And(M, N))
  <1> SUFFICES ASSUME NEW c \in Browsers PROVE Extended(q[c], t[c], M[c] \cup N[c])
    BY DEF Grown, And
  <1> QED BY ExtendedTwice DEF Grown

Families(S) == SUBSET SUBSET S

LEMMA SmallestSubset ==
    ASSUME NEW S, IsFiniteSet(S), NEW T \in Families(S), T # {}
    PROVE  \E s \in T : \A r \in T : r \subseteq s => r = s
  <1>0. T \subseteq SUBSET S
    BY DEF Families
  <1>1. FiniteSubsetsOf(S) = SUBSET S
    BY FS_FiniteSubsetsOfFinite
  <1>2. IsWellFoundedOn(StrictSubsetOrdering(S), SUBSET S)
    BY <1>1, FS_StrictSubsetOrderingWellFounded
  <1>3. PICK s \in T : \A t \in T : <<t, s>> \notin StrictSubsetOrdering(S)
    <2> QED BY <1>2, <1>0, WFMin
  <1>4. ASSUME NEW r \in T, r \subseteq s PROVE r = s
    BY <1>0, <1>3, <1>4 DEF StrictSubsetOrdering
  <1> QED BY <1>3, <1>4

Pick(s) == CHOOSE x \in s : TRUE

\* What is sent for stream s: its end, or that b leaves it.
Step(ends, b, s, q) == IF ends THEN Tell(q, ready, Msg("stopped", s)) ELSE LeaveTold(q, b, s)

Folding(ends, b, k, S, f) ==
    [s \in SUBSET S |-> IF s = {} THEN k ELSE Step(ends, b, Pick(s), f[s \ {Pick(s)}])]

LEMMA PickIn ==
    ASSUME NEW s, s # {}
    PROVE  Pick(s) \in s
  BY DEF Pick

\* Two foldings agree where both are defined.
LEMMA FoldingUnique ==
    ASSUME NEW ends, NEW b, NEW k, NEW S, IsFiniteSet(S), NEW r \in SUBSET S, NEW f, NEW g,
           f = Folding(ends, b, k, r, f), g = Folding(ends, b, k, S, g)
    PROVE  f[r] = g[r]
  <1> DEFINE T == {s \in SUBSET r : f[s] # g[s]}
  <1>1. T = {}
    <2> SUFFICES ASSUME T # {} PROVE FALSE
      OBVIOUS
    <2>1. T \in Families(S)
      BY DEF Families
    <2>2. PICK s \in T : \A u \in T : u \subseteq s => u = s
      <3> HIDE DEF T
      <3> QED BY <2>1, SmallestSubset
    <2>3. /\ f[s] = IF s = {} THEN k ELSE Step(ends, b, Pick(s), f[s \ {Pick(s)}])
          /\ g[s] = IF s = {} THEN k ELSE Step(ends, b, Pick(s), g[s \ {Pick(s)}])
      <3>1. s \in SUBSET r /\ s \in SUBSET S
        BY <2>2
      <3> HIDE DEF T
      <3> QED BY <3>1 DEF Folding
    <2>4. s # {}
      BY <2>2, <2>3
    <2>5. s \ {Pick(s)} \in SUBSET r /\ s \ {Pick(s)} \subseteq s /\ s \ {Pick(s)} # s
      BY <2>2, <2>4, PickIn
    <2>6. f[s \ {Pick(s)}] = g[s \ {Pick(s)}]
      BY <2>2, <2>5
    <2>7. f[s] # g[s]
      BY <2>2
    <2> HIDE DEF T
    <2> QED BY <2>3, <2>4, <2>6, <2>7
  <1> QED BY <1>1

LEMMA FoldingExists ==
    ASSUME NEW ends, NEW b, NEW k, NEW S, IsFiniteSet(S)
    PROVE  \E f : f = Folding(ends, b, k, S, f)
  <1> DEFINE T == {t \in SUBSET S : ~\E f : f = Folding(ends, b, k, t, f)}
             Of(t) == CHOOSE f : f = Folding(ends, b, k, t, f)
  <1>1. T = {}
    <2> SUFFICES ASSUME T # {} PROVE FALSE
      OBVIOUS
    <2>0. T \in Families(S)
      BY DEF Families
    <2>1. PICK t \in T : \A r \in T : r \subseteq t => r = t
      <3> HIDE DEF T
      <3> QED BY <2>0, SmallestSubset
    <2>2. t \in SUBSET S /\ ~\E f : f = Folding(ends, b, k, t, f)
      BY <2>1
    <2>3. ASSUME NEW r \in SUBSET t, r # t PROVE Of(r) = Folding(ends, b, k, r, Of(r))
      <3>1. \E f : f = Folding(ends, b, k, r, f)
        BY <2>1, <2>2, <2>3
      <3> QED BY <3>1
    <2> DEFINE f == [s \in SUBSET t |-> IF s = {} THEN k
                       ELSE Step(ends, b, Pick(s), Of(s \ {Pick(s)})[s \ {Pick(s)}])]
    <2> HIDE DEF T, Of
    <2>4. ASSUME NEW r \in SUBSET t, r # t PROVE f[r] = Of(r)[r]
      <3>1. r \in SUBSET r
        OBVIOUS
      <3>2. Of(r)[r] = IF r = {} THEN k ELSE Step(ends, b, Pick(r), Of(r)[r \ {Pick(r)}])
        BY <2>3, <2>4, <3>1 DEF Folding
      <3>3. CASE r = {}
        BY <3>2, <3>3
      <3>4. CASE r # {}
        <4>1. r \ {Pick(r)} \in SUBSET r /\ r \ {Pick(r)} \in SUBSET t /\ r \ {Pick(r)} # t
          BY <2>4, <3>4, PickIn
        <4>2. IsFiniteSet(r)
          BY <2>2, <2>4, FS_Subset
        <4>3. Of(r \ {Pick(r)})[r \ {Pick(r)}] = Of(r)[r \ {Pick(r)}]
          BY <2>3, <2>4, <4>1, <4>2, FoldingUnique
        <4> QED BY <2>4, <3>2, <3>4, <4>3
      <3> QED BY <3>3, <3>4
    <2>5. ASSUME NEW s \in SUBSET t, s # {}
          PROVE  f[s] = Step(ends, b, Pick(s), f[s \ {Pick(s)}])
      <3>1. s \ {Pick(s)} \in SUBSET t /\ s \ {Pick(s)} # t
        BY <2>5, PickIn
      <3>2. f[s \ {Pick(s)}] = Of(s \ {Pick(s)})[s \ {Pick(s)}]
        BY <2>4, <3>1
      <3>3. f[s] = Step(ends, b, Pick(s), Of(s \ {Pick(s)})[s \ {Pick(s)}])
        BY <2>5
      <3> HIDE DEF f
      <3> QED BY <3>2, <3>3
    <2>6. {} \in SUBSET t => f[{}] = k
      OBVIOUS
    <2>7. f = [s \in SUBSET t |-> f[s]]
      OBVIOUS
    <2> HIDE DEF f
    <2>8. f = Folding(ends, b, k, t, f)
      BY <2>5, <2>6, <2>7 DEF Folding
    <2> QED BY <2>2, <2>8
  <1>2. S \notin T /\ S \in SUBSET S
    BY <1>1
  <1> QED BY <1>2

\* What that step sends, and all of them.
StepNews(ends, b, s) ==
    IF ends THEN To(ready, {Msg("stopped", s)})
    ELSE And(IF s \in Natives THEN To({}, {}) ELSE To({s[1]}, {About("viewerLeft", s, b)}),
             To({b}, {Msg("left", s)}))

News(ends, b, S) == [c \in Browsers |-> UNION {StepNews(ends, b, s)[c] : s \in S}]

LEMMA GrownEqual ==
    ASSUME NEW q, NEW r, NEW M, NEW N, Grown(q, r, M), \A c \in Browsers : M[c] = N[c]
    PROVE  Grown(q, r, N)
  BY DEF Grown

LEMMA FoldGrows ==
    ASSUME NEW ends, NEW b, NEW k, NEW S, IsFiniteSet(S), NEW f, f = Folding(ends, b, k, S, f),
           Queues(k),
           \A x \in S : \A q : Queues(q) =>
              Queues(Step(ends, b, x, q)) /\ Grown(q, Step(ends, b, x, q), StepNews(ends, b, x))
    PROVE  Queues(f[S]) /\ Grown(k, f[S], News(ends, b, S))
  <1> DEFINE T == {s \in SUBSET S : ~(Queues(f[s]) /\ Grown(k, f[s], News(ends, b, s)))}
  <1>1. T = {}
    <2> SUFFICES ASSUME T # {} PROVE FALSE
      OBVIOUS
    <2>1. T \in Families(S)
      BY DEF Families
    <2>2. PICK s \in T : \A u \in T : u \subseteq s => u = s
      <3> HIDE DEF T
      <3> QED BY <2>1, SmallestSubset
    <2>3. s \in SUBSET S /\ ~(Queues(f[s]) /\ Grown(k, f[s], News(ends, b, s)))
      BY <2>2
    <2>4. f[s] = IF s = {} THEN k ELSE Step(ends, b, Pick(s), f[s \ {Pick(s)}])
      <3> HIDE DEF T
      <3> QED BY <2>3 DEF Folding
    <2>5. CASE s = {}
      <3>1. Grown(k, k, News(ends, b, s))
        BY <2>5, NothingAdded DEF Grown, News
      <3> HIDE DEF T
      <3> QED BY <2>3, <2>4, <2>5, <3>1
    <2>6. CASE s # {}
      <3>1. PICK x \in s : x = Pick(s)
        BY <2>6, PickIn
      <3>2. s \ {x} \in SUBSET S /\ s \ {x} # s
        BY <2>3, <3>1
      <3>3. PICK q : q = f[s \ {x}]
        OBVIOUS
      <3>4. Queues(q) /\ Grown(k, q, News(ends, b, s \ {x}))
        BY <2>2, <3>2, <3>3
      <3>5. PICK r : r = Step(ends, b, x, q) /\ r = f[s]
        BY <2>4, <2>6, <3>1, <3>3
      <3> HIDE DEF T
      <3>6. Queues(r) /\ Grown(q, r, StepNews(ends, b, x))
        BY <2>3, <3>1, <3>4, <3>5
      <3>7. Grown(k, r, And(News(ends, b, s \ {x}), StepNews(ends, b, x)))
        BY <3>4, <3>6, GrownTwice
      <3>8. \A c \in Browsers : And(News(ends, b, s \ {x}), StepNews(ends, b, x))[c] = News(ends, b, s)[c]
        BY <3>1 DEF And, News
      <3>9. Grown(k, r, News(ends, b, s))
        BY <3>7, <3>8, GrownEqual
      <3> QED BY <2>3, <3>5, <3>6, <3>9
    <2> QED BY <2>5, <2>6
  <1>2. S \notin T /\ S \in SUBSET S
    BY <1>1
  <1> QED BY <1>2

AllEnds(k, S) == FoldSet(LAMBDA s, q : Tell(q, ready, Msg("stopped", s)), k, S)

AllLeaves(k, b, S) == FoldSet(LAMBDA s, q : LeaveTold(q, b, s), k, S)

LEMMA EndsFold ==
    ASSUME NEW k, NEW S, IsFiniteSet(S)
    PROVE  \E f : /\ f = Folding(TRUE, None, k, S, f)
                  /\ AllEnds(k, S) = f[S]
  <1> DEFINE Stops(f) == [s \in SUBSET S |-> IF s = {} THEN k
                            ELSE Tell(f[s \ {Pick(s)}], ready, Msg("stopped", Pick(s)))]
             g == CHOOSE f : f = Stops(f)
  <1>1. AllEnds(k, S) = g[S]
    BY Zenon DEF AllEnds, FoldSet, MapThenFoldSet, Pick
  <1>2. \A f : Folding(TRUE, None, k, S, f) = Stops(f)
    BY DEF Folding, Step
  <1>3. \E f : f = Stops(f)
    <2>1. PICK h : h = Folding(TRUE, None, k, S, h)
      BY FoldingExists
    <2>2. h = Stops(h)
      BY <1>2, <2>1
    <2> QED BY <2>2
  <1>4. g = Stops(g)
    BY <1>3
  <1> HIDE DEF g, Stops
  <1>5. g = Folding(TRUE, None, k, S, g)
    BY <1>2, <1>4
  <1> QED BY <1>1, <1>5

LEMMA LeavesFold ==
    ASSUME NEW b, NEW k, NEW S, IsFiniteSet(S)
    PROVE  \E f : /\ f = Folding(FALSE, b, k, S, f)
                  /\ AllLeaves(k, b, S) = f[S]
  <1> DEFINE Leaves(f) == [s \in SUBSET S |-> IF s = {} THEN k
                             ELSE LeaveTold(f[s \ {Pick(s)}], b, Pick(s))]
             g == CHOOSE f : f = Leaves(f)
  <1>1. AllLeaves(k, b, S) = g[S]
    BY Zenon DEF AllLeaves, FoldSet, MapThenFoldSet, Pick
  <1>2. \A f : Folding(FALSE, b, k, S, f) = Leaves(f)
    BY DEF Folding, Step
  <1>3. \E f : f = Leaves(f)
    <2>1. PICK h : h = Folding(FALSE, b, k, S, h)
      BY FoldingExists
    <2>2. h = Leaves(h)
      BY <1>2, <2>1
    <2> QED BY <2>2
  <1>4. g = Leaves(g)
    BY <1>3
  <1> HIDE DEF g, Leaves
  <1>5. g = Folding(FALSE, b, k, S, g)
    BY <1>2, <1>4
  <1> QED BY <1>1, <1>5

LEMMA LeaveGrows ==
    ASSUME NEW b \in Browsers, NEW s \in Streams, NEW q, Queues(q)
    PROVE  /\ Queues(LeaveTold(q, b, s))
           /\ Grown(q, LeaveTold(q, b, s), StepNews(FALSE, b, s))
  <1> DEFINE r == IF s \in Natives THEN q ELSE Tell(q, {s[1]}, About("viewerLeft", s, b))
             M == IF s \in Natives THEN To({}, {}) ELSE To({s[1]}, {About("viewerLeft", s, b)})
  <1>1. Queues(r) /\ Grown(q, r, M)
    <2>1. CASE s \in Natives
      <3>1. \A c \in Browsers : To({}, {})[c] = {}
        BY DEF To
      <3>2. Grown(q, q, To({}, {}))
        BY <3>1, NothingAdded DEF Grown
      <3> QED BY <2>1, <3>2
    <2>2. CASE s \notin Natives
      <3>1. s \in Own(s[1])
        BY <2>2, Names
      <3>2. \A c \in {s[1]} \cap Browsers : About("viewerLeft", s, b) \in Told(c)
        BY <3>1 DEF Told
      <3> QED BY <2>2, <3>2, TellGrows
    <2> QED BY <2>1, <2>2
  <1>2. Msg("left", s) \in Told(b)
    BY DEF Told
  <1>3. LeaveTold(q, b, s) = Tell(r, {b}, Msg("left", s)) /\ StepNews(FALSE, b, s) = And(M, To({b}, {Msg("left", s)}))
    BY DEF LeaveTold, StepNews
  <1> HIDE DEF r, M
  <1>4. Queues(Tell(r, {b}, Msg("left", s))) /\ Grown(r, Tell(r, {b}, Msg("left", s)), To({b}, {Msg("left", s)}))
    BY <1>1, <1>2, TellGrows
  <1> QED BY <1>1, <1>3, <1>4, GrownTwice

\* What is told of the removal of b from the gateway.
RemovalNews(b) == And(News(TRUE, None, OwnShares(b)), News(FALSE, b, Watched(b)))

LEMMA RemovalGrows ==
    ASSUME NEW b \in Browsers, Typed
    PROVE  /\ Queues(RemovalTold(b))
           /\ Grown(down, RemovalTold(b), RemovalNews(b))
  <1>0. /\ Queues(down) /\ OwnShares(b) \subseteq Own(b)
        /\ OwnShares(b) \subseteq Shares /\ Watched(b) \subseteq Streams
    BY DEF Typed, Queues, OwnShares, Shares, Own, Watched
  <1>1. IsFiniteSet(OwnShares(b)) /\ IsFiniteSet(Watched(b))
    <2>1. IsFiniteSet(Shares)
      BY FiniteAssumption, FS_Product DEF Shares
    <2>2. IsFiniteSet(Streams)
      BY <2>1, FiniteAssumption, FS_Union DEF Streams
    <2> QED BY <1>0, <2>1, <2>2, FS_Subset
  <1>2. PICK f : /\ f = Folding(TRUE, None, down, OwnShares(b), f)
                 /\ AllEnds(down, OwnShares(b)) = f[OwnShares(b)]
    BY <1>1, EndsFold
  <1>3. PICK r : r = f[OwnShares(b)]
    OBVIOUS
  <1>4. ASSUME NEW x \in OwnShares(b), NEW q, Queues(q)
        PROVE  Queues(Step(TRUE, None, x, q)) /\ Grown(q, Step(TRUE, None, x, q), StepNews(TRUE, None, x))
    <2>1. \A c \in ready \cap Browsers : Msg("stopped", x) \in Told(c)
      BY <1>0 DEF Told
    <2> QED BY <1>4, <2>1, TellGrows DEF Step, StepNews
  <1>5. Queues(r) /\ Grown(down, r, News(TRUE, None, OwnShares(b)))
    BY <1>0, <1>1, <1>2, <1>3, <1>4, FoldGrows
  <1>6. PICK g : /\ g = Folding(FALSE, b, r, Watched(b), g)
                 /\ AllLeaves(r, b, Watched(b)) = g[Watched(b)]
    BY <1>1, LeavesFold
  <1>7. ASSUME NEW x \in Watched(b), NEW q, Queues(q)
        PROVE  Queues(Step(FALSE, b, x, q)) /\ Grown(q, Step(FALSE, b, x, q), StepNews(FALSE, b, x))
    BY <1>0, <1>7, LeaveGrows DEF Step
  <1>8. Queues(g[Watched(b)]) /\ Grown(r, g[Watched(b)], News(FALSE, b, Watched(b)))
    BY <1>1, <1>5, <1>6, <1>7, FoldGrows
  <1>9. RemovalTold(b) = g[Watched(b)]
    <2>1. RemovalTold(b) = AllLeaves(AllEnds(down, OwnShares(b)), b, Watched(b))
      BY Zenon DEF RemovalTold, AllLeaves, AllEnds
    <2> QED BY <1>2, <1>3, <1>6, <2>1
  <1> QED BY <1>5, <1>8, <1>9, GrownTwice DEF RemovalNews

-----------------------------------------------------------------------------
(* Steps of a browser. *)

LEMMA Sending ==
    ASSUME NEW S, NEW q \in Seq(S), NEW w \in Seq(S)
    PROVE  /\ q \o w \in Seq(S)
           /\ Msgs(q \o w) = Msgs(q) \cup Msgs(w)
           /\ \A m : Once(q, m) /\ m \notin Msgs(w) => Once(q \o w, m)
           /\ \A m : Once(w, m) /\ m \notin Msgs(q) => Once(q \o w, m)
  <1>1. PICK l \in Nat, k \in Nat :
           /\ Len(q) = l /\ DOMAIN q = 1 .. l /\ Len(w) = k /\ DOMAIN w = 1 .. k
           /\ DOMAIN (q \o w) = 1 .. l + k /\ Len(q \o w) = l + k
    <2>1. Len(q) \in Nat /\ Len(w) \in Nat /\ q \o w \in Seq(S) /\ Len(q \o w) = Len(q) + Len(w)
      BY ConcatProperties, LenProperties
    <2> QED BY <2>1, LenProperties
  <1>2. PICK r \in Seq(S) : r = q \o w
    BY ConcatProperties
  <1>3. \A i \in 1 .. l + k : r[i] = IF i <= l THEN q[i] ELSE w[i - l]
    BY <1>1, <1>2, ConcatProperties
  <1>4. \A i \in 1 .. l : i \in 1 .. l + k /\ r[i] = q[i]
    BY <1>1, <1>3
  <1>5. \A j \in 1 .. k : l + j \in 1 .. l + k /\ r[l + j] = w[j]
    <2> TAKE j \in 1 .. k
    <2>1. l + j \in 1 .. l + k /\ ~(l + j <= l) /\ (l + j) - l = j
      BY <1>1
    <2> QED BY <1>3, <2>1
  <1>6. \A i \in 1 .. l + k : i \in 1 .. l \/ (\E j \in 1 .. k : i = l + j)
    <2> TAKE i \in 1 .. l + k
    <2>1. i \in 1 .. l \/ (i - l \in 1 .. k /\ i = l + (i - l))
      BY <1>1
    <2> QED BY <2>1
  <1>7. Msgs(r) = Msgs(q) \cup Msgs(w)
    <2>1. ASSUME NEW x \in Msgs(r) PROVE x \in Msgs(q) \cup Msgs(w)
      <3>1. PICK i \in 1 .. l + k : x = r[i]
        BY <1>1, <1>2, <2>1 DEF Msgs
      <3>2. CASE i \in 1 .. l
        BY <1>1, <1>4, <3>1, <3>2 DEF Msgs
      <3>3. ASSUME NEW j \in 1 .. k, i = l + j PROVE x \in Msgs(w)
        BY <1>1, <1>5, <3>1, <3>3 DEF Msgs
      <3> QED BY <1>6, <3>1, <3>2, <3>3
    <2>2. Msgs(q) \subseteq Msgs(r)
      BY <1>1, <1>2, <1>4 DEF Msgs
    <2>3. Msgs(w) \subseteq Msgs(r)
      BY <1>1, <1>2, <1>5 DEF Msgs
    <2> QED BY <2>1, <2>2, <2>3
  <1>8. ASSUME NEW m, Once(q, m), m \notin Msgs(w) PROVE Once(r, m)
    <2>1. \A i \in 1 .. l + k : r[i] = m => i \in 1 .. l /\ q[i] = m
      <3> TAKE i \in 1 .. l + k
      <3>1. ASSUME NEW j \in 1 .. k, i = l + j PROVE r[i] # m
        BY <1>1, <1>5, <1>8, <3>1 DEF Msgs
      <3> QED BY <1>4, <1>6, <3>1
    <2> QED BY <1>1, <1>2, <1>8, <2>1 DEF Once
  <1>9. ASSUME NEW m, Once(w, m), m \notin Msgs(q) PROVE Once(r, m)
    <2>1. ASSUME NEW i \in 1 .. l + k, r[i] = m PROVE \E j \in 1 .. k : i = l + j /\ w[j] = m
      <3>1. i \notin 1 .. l
        BY <1>1, <1>4, <1>9, <2>1 DEF Msgs
      <3>2. PICK j \in 1 .. k : i = l + j
        BY <1>6, <3>1
      <3> QED BY <1>5, <2>1, <3>2
    <2>2. ASSUME NEW i \in 1 .. l + k, NEW n \in 1 .. l + k, r[i] = m, r[n] = m PROVE i = n
      <3>1. PICK j \in 1 .. k : i = l + j /\ w[j] = m
        BY <2>1, <2>2
      <3>2. PICK h \in 1 .. k : n = l + h /\ w[h] = m
        BY <2>1, <2>2
      <3> QED BY <1>1, <1>9, <3>1, <3>2 DEF Once
    <2> QED BY <1>1, <1>2, <2>2 DEF Once
  <1> QED BY <1>2, <1>7, <1>8, <1>9

LEMMA Short ==
    /\ Msgs(<<>>) = {}
    /\ \A m : Msgs(<<m>>) = {m} /\ Once(<<m>>, m)
    /\ \A m, n : Msgs(<<m>> \o <<n>>) = {m, n}
  <1>1. Msgs(<<>>) = {}
    BY Emptied
  <1>2. ASSUME NEW m PROVE Msgs(<<m>>) = {m} /\ Once(<<m>>, m)
    BY DEF Msgs, Once
  <1>3. ASSUME NEW m, NEW n PROVE Msgs(<<m>> \o <<n>>) = {m, n}
    <2>1. <<m>> \in Seq({m, n}) /\ <<n>> \in Seq({m, n})
      OBVIOUS
    <2>2. Msgs(<<m>> \o <<n>>) = Msgs(<<m>>) \cup Msgs(<<n>>)
      BY <2>1, Sending
    <2> QED BY <1>2, <2>2
  <1> QED BY <1>1, <1>2, <1>3

\* Browser b takes the messages H, at most one, and sends w.
Moves(b, H, w) ==
    /\ DOMAIN ui' = Browsers /\ DOMAIN up' = Browsers /\ DOMAIN down' = Browsers
    /\ \A d \in Browsers : d # b =>
          ui'[d] = ui[d] /\ up'[d] = up[d] /\ down'[d] = down[d] /\ stray'[d] = stray[d]
    /\ ui'[b] \in Controller(b)
    /\ w \in Seq(Sent(b)) /\ up'[b] = up[b] \o w
    /\ \/ H = {} /\ down'[b] = down[b]
       \/ down[b] # <<>> /\ H = {Head(down[b])} /\ down'[b] = Tail(down[b])
    /\ stray' \in [Browsers -> SUBSET Streams]
    /\ UNCHANGED <<ready, shares, watchers>>

LEMMA BrowserMove ==
    ASSUME IInv, NEW b \in Browsers, NEW H, NEW w, Moves(b, H, w),
           ShareStep(b, H, Msgs(w)), PendingStep(b, H, Msgs(w)), StartStep(b, Msgs(w)),
           ViewStep(b, H, Msgs(w)), PeerStep(b, H)
    PROVE  IInv'
  <1>1. up[b] \in Seq(Sent(b)) /\ down[b] \in Seq(Told(b)) /\ w \in Seq(Sent(b))
    BY DEF IInv, Typed, Moves
  <1>2. /\ up'[b] \in Seq(Sent(b)) /\ Msgs(up'[b]) = Msgs(up[b]) \cup Msgs(w)
        /\ \A m : Once(up[b], m) /\ m \notin Msgs(w) => Once(up'[b], m)
    BY <1>1, Sending DEF Moves
  <1>3. down'[b] \in Seq(Told(b)) /\ Taken(down[b], down'[b], H)
    <2>1. CASE H = {} /\ down'[b] = down[b]
      BY <1>1, <2>1, NothingTaken
    <2>2. CASE down[b] # <<>> /\ H = {Head(down[b])} /\ down'[b] = Tail(down[b])
      BY <1>1, <2>2, TakingHead
    <2> QED BY <2>1, <2>2 DEF Moves
  <1>4. BrowserStep(b, H, Msgs(w))
    BY <1>2, <1>3 DEF BrowserStep
  <1>5. Typed'
    BY <1>2, <1>3 DEF IInv, Typed, Moves
  <1>6. \A c \in Browsers : Msgs(down'[c]) \subseteq Msgs(down[c])
    <2>1. Msgs(down'[b]) \subseteq Msgs(down[b])
      BY <1>3 DEF Taken
    <2> QED BY <2>1 DEF Moves
  <1>7. GatewayInv'
    BY <1>6 DEF IInv, GatewayInv, Moves
  <1>8. ASSUME NEW c \in Browsers, c # b PROVE EndInv(c)'
    <2>1. ui'[c] = ui[c] /\ up'[c] = up[c] /\ down'[c] = down[c] /\ stray'[c] = stray[c]
      BY <1>8 DEF Moves
    <2>2. shares' = shares /\ watchers' = watchers
      BY DEF Moves
    <2>3. EndInv(c)
      BY DEF IInv
    <2>4. StartInv(c)'
      BY <1>6, <2>1, <2>2, <2>3 DEF EndInv, StartInv
    <2>5. ShareInv(c)' /\ PendingInv(c)'
      BY <2>1, <2>2, <2>3 DEF EndInv, ShareInv, ShareKnown, KnownShare, PendingInv
    <2>6. ViewInv(c)' /\ PeerInv(c)'
      BY <2>1, <2>2, <2>3 DEF EndInv, ViewInv, ViewKnown, KnownView, PeerInv, Served
    <2> QED BY <2>4, <2>5, <2>6 DEF EndInv
  <1>9. EndInv(b)'
    <2>1. EndInv(b) /\ GatewayInv /\ UNCHANGED <<shares, watchers>> /\ None \notin Own(b)
      BY Names DEF IInv, Moves
    <2>2. \A s \in Streams : b \in watchers[s] => Msg("stopped", s) \notin Msgs(down[b])
      <3>1. ASSUME NEW s \in Streams, b \in watchers[s], Msg("stopped", s) \in Msgs(down[b]) PROVE FALSE
        <4>1. s \in shares \cup Natives
          BY <2>1, <3>1 DEF GatewayInv
        <4>2. s \in Shares
          <5>1. PICK n \in DOMAIN down[b] : down[b][n] = Msg("stopped", s)
            BY <3>1 DEF Msgs
          <5>2. down[b][n] \in Told(b)
            BY <1>1
          <5>3. Msg("stopped", s).type = "stopped" /\ Msg("stopped", s).stream = s
            BY Messages
          <5> QED BY <5>1, <5>2, <5>3, ToldOf
        <4> QED BY <2>1, <3>1, <4>1, <4>2, Names DEF GatewayInv
      <3> QED BY <3>1
    <2>3. ShareInv(b)'
      BY <1>4, <2>1, BrowserKeepsShares DEF EndInv
    <2>4. PendingInv(b)'
      BY <1>4, <2>1, BrowserKeepsPending DEF EndInv
    <2>5. StartInv(b)'
      BY <1>4, <1>6, <2>1, BrowserKeepsStarts DEF EndInv
    <2>6. ViewInv(b)'
      BY <1>4, <2>1, <2>2, BrowserKeepsViews DEF EndInv
    <2>7. PeerInv(b)'
      BY <1>4, <2>1, BrowserKeepsPeers DEF EndInv
    <2> QED BY <2>3, <2>4, <2>5, <2>6, <2>7 DEF EndInv
  <1> QED BY <1>5, <1>7, <1>8, <1>9 DEF IInv

LEMMA QuietMove ==
    ASSUME IInv, NEW b \in Browsers, NEW H, Moves(b, H, <<>>),
           ShareStep(b, H, {}), PendingStep(b, H, {}), StartStep(b, {}),
           ViewStep(b, H, {}), PeerStep(b, H)
    PROVE  IInv'
  <1>1. Msgs(<<>>) = {}
    BY Short
  <1>2. /\ ShareStep(b, H, Msgs(<<>>)) /\ PendingStep(b, H, Msgs(<<>>)) /\ StartStep(b, Msgs(<<>>))
        /\ ViewStep(b, H, Msgs(<<>>)) /\ PeerStep(b, H)
    BY <1>1
  <1> QED BY <1>2, BrowserMove

\* What a controller is made of.
LEMMA ControllerFields ==
    ASSUME IInv, NEW b \in Browsers
    PROVE  /\ ui[b] \in Controller(b)
           /\ ui[b].active \in Own(b) \cup {None} /\ ui[b].pending \in Own(b) \cup {None}
           /\ ui[b].viewing \in Streams \cup {None} /\ ui[b].peers \subseteq Peers
           /\ ui[b].cards \subseteq Streams
           /\ ui[b].starting <=> ui[b].prompting \/ ui[b].pending # None
           /\ ui[b].prompting => ui[b].pending = None
           /\ ui[b].active # None => ~ui[b].starting
           /\ None \notin Own(b) /\ None \notin Streams
  BY Names DEF IInv, Typed, Controller

\* The messages a controller that changes to c sends, none of them a start.
LEMMA UserMove ==
    ASSUME IInv, NEW b \in Browsers, NEW c \in Controller(b), NEW w \in Seq(Sent(b)),
           Becomes(b, c), Send(b, w), UNCHANGED <<down, ready, shares, watchers>>,
           stray' \in [Browsers -> SUBSET Streams],
           \A d \in Browsers : d # b => stray'[d] = stray[d]
    PROVE  Moves(b, {}, w) /\ ui'[b] = c /\ up'[b] = up[b] \o w
  BY DEF Moves, Becomes, Send, IInv, Typed

LEMMA ShareStays ==
    ASSUME IInv, NEW b \in Browsers, Share(b)
    PROVE  IInv'
  <1> DEFINE c == [ui[b] EXCEPT !.starting = TRUE, !.prompting = TRUE]
  <1>1. /\ c \in Controller(b)
        /\ c.active = ui[b].active /\ c.pending = None /\ c.viewing = ui[b].viewing
        /\ c.peers = ui[b].peers
    BY ControllerFields DEF Share, Controller
  <1>2. Becomes(b, c) /\ UNCHANGED <<up, down, ready, shares, watchers, stray>>
    BY DEF Share
  <1> HIDE DEF c
  <1>3. Moves(b, {}, <<>>) /\ ui'[b] = c
    BY <1>1, <1>2 DEF Moves, Becomes, IInv, Typed
  <1>4. ShareStep(b, {}, {}) /\ PendingStep(b, {}, {}) /\ StartStep(b, {})
    BY <1>1, <1>2, <1>3, ControllerFields DEF ShareStep, PendingStep, StartStep
  <1>5. ViewStep(b, {}, {}) /\ PeerStep(b, {})
    BY <1>1, <1>2, <1>3 DEF ViewStep, PeerStep
  <1> QED BY <1>3, <1>4, <1>5, QuietMove

LEMMA GrantStays ==
    ASSUME IInv, NEW b \in Browsers, Grant(b)
    PROVE  IInv'
  <1>1. PICK r \in Requests :
           /\ Unused(<<b, r>>)
           /\ Becomes(b, [ui[b] EXCEPT !.prompting = FALSE, !.capturing = TRUE, !.pending = <<b, r>>])
           /\ Send(b, <<Msg("start", <<b, r>>)>>)
           /\ stray' = [stray EXCEPT ![b] = @ \ {<<b, r>>}]
    BY DEF Grant
  <1>2. PICK s \in Own(b) : s = <<b, r>>
    BY DEF Own
  <1> DEFINE c == [ui[b] EXCEPT !.prompting = FALSE, !.capturing = TRUE, !.pending = s]
             w == <<Msg("start", s)>>
  <1>3. /\ c \in Controller(b)
        /\ c.active = ui[b].active /\ c.pending = s /\ c.viewing = ui[b].viewing
        /\ c.peers = ui[b].peers
    BY ControllerFields DEF Grant, Controller
  <1>4. w \in Seq(Sent(b)) /\ Msgs(w) = {Msg("start", s)} /\ Once(w, Msg("start", s))
    <2>1. Msg("start", s) \in Sent(b)
      BY DEF Sent
    <2> QED BY <2>1, Short
  <1>5. /\ Becomes(b, c) /\ Send(b, w) /\ UNCHANGED <<down, ready, shares, watchers>>
        /\ stray' = [stray EXCEPT ![b] = @ \ {s}] /\ Unused(s) /\ ui[b].prompting
    BY <1>1, <1>2 DEF Grant
  <1> HIDE DEF c, w
  <1>6. stray' \in [Browsers -> SUBSET Streams] /\ \A d \in Browsers : d # b => stray'[d] = stray[d]
    BY <1>5 DEF IInv, Typed
  <1>7. Moves(b, {}, w) /\ ui'[b] = c /\ up'[b] = up[b] \o w
    BY <1>3, <1>4, <1>5, <1>6, UserMove
  <1>8. /\ s \notin shares
        /\ \A t : Msg(t, s) \notin Msgs(up[b])
        /\ \A d \in Browsers : \A t : Msg(t, s) \notin Msgs(down[d])
    BY <1>5, Messages DEF Unused, Msgs
  <1>9. ui[b].active = None /\ ui[b].pending = None
    BY <1>5, ControllerFields
  <1>10. Once(up'[b], Msg("start", s))
    BY <1>4, <1>7, <1>8, Sending DEF IInv, Typed
  <1>11. ShareStep(b, {}, Msgs(w)) /\ PendingStep(b, {}, Msgs(w)) /\ StartStep(b, Msgs(w))
    <2>1. \A t \in Own(b) : Msg("stop", t) \notin Msgs(w) /\ (Msg("start", t) \in Msgs(w) <=> t = s)
      BY <1>4, Distinct
    <2>2. ShareStep(b, {}, Msgs(w))
      BY <1>3, <1>7 DEF ShareStep
    <2>3. PendingStep(b, {}, Msgs(w))
      BY <1>3, <1>7, <1>8, <2>1 DEF PendingStep
    <2>4. StartStep(b, Msgs(w))
      BY <1>8, <1>10, <2>1 DEF StartStep
    <2> QED BY <2>2, <2>3, <2>4
  <1>12. ViewStep(b, {}, Msgs(w))
    <2>1. b \notin watchers[s]
      BY DEF IInv, GatewayInv
    <2>2. \A t \in Streams : t \in stray[b] => t \in stray'[b] \/ t = s
      BY <1>5 DEF IInv, Typed
    <2> QED BY <1>3, <1>7, <2>1, <2>2 DEF ViewStep
  <1>13. PeerStep(b, {})
    BY <1>3, <1>7 DEF PeerStep
  <1> QED BY <1>7, <1>11, <1>12, <1>13, BrowserMove

LEMMA DenyStays ==
    ASSUME IInv, NEW b \in Browsers, Deny(b)
    PROVE  IInv'
  <1> DEFINE c == Unshared(ui[b])
  <1>0. ui[b].active = None /\ ui[b].pending = None
    BY ControllerFields DEF Deny
  <1>1. /\ c \in Controller(b)
        /\ c.active = None /\ c.pending = None /\ c.viewing = ui[b].viewing
        /\ c.peers = ui[b].peers
    BY ControllerFields DEF Unshared, Controller
  <1>2. Becomes(b, c) /\ UNCHANGED <<up, down, ready, shares, watchers, stray>>
    BY DEF Deny
  <1> HIDE DEF c
  <1>3. Moves(b, {}, <<>>) /\ ui'[b] = c
    BY <1>1, <1>2 DEF Moves, Becomes, IInv, Typed
  <1>4. ShareStep(b, {}, {}) /\ PendingStep(b, {}, {}) /\ StartStep(b, {})
    BY <1>0, <1>1, <1>2, <1>3, ControllerFields DEF ShareStep, PendingStep, StartStep
  <1>5. ViewStep(b, {}, {}) /\ PeerStep(b, {})
    BY <1>0, <1>1, <1>2, <1>3 DEF ViewStep, PeerStep
  <1> QED BY <1>3, <1>4, <1>5, QuietMove

LEMMA StopShareStays ==
    ASSUME IInv, NEW b \in Browsers, StopShare(b)
    PROVE  IInv'
  <1> DEFINE c == [Unshared(ui[b]) EXCEPT !.peers = {}]
             w == IF ui[b].active = None THEN <<>> ELSE <<Msg("stop", ui[b].active)>>
  <1>1. /\ c \in Controller(b)
        /\ c.active = None /\ c.pending = None /\ c.viewing = ui[b].viewing /\ c.peers = {}
    BY ControllerFields DEF Unshared, Controller
  <1>2. /\ w \in Seq(Sent(b))
        /\ \A t, s : Msg(t, s) \in Msgs(w) <=> t = "stop" /\ s = ui[b].active /\ ui[b].active # None
    <2>1. CASE ui[b].active = None
      BY <2>1, Short
    <2>2. CASE ui[b].active # None
      <3>1. Msg("stop", ui[b].active) \in Sent(b)
        BY <2>2, ControllerFields DEF Sent
      <3>2. Msgs(w) = {Msg("stop", ui[b].active)}
        BY <2>2, Short
      <3> HIDE DEF w
      <3>3. w \in Seq(Sent(b))
        BY <2>2, <3>1 DEF w
      <3> QED BY <2>2, <3>2, <3>3, Distinct
    <2> QED BY <2>1, <2>2
  <1>3. Becomes(b, c) /\ Send(b, w) /\ UNCHANGED <<down, ready, shares, watchers, stray>>
    BY DEF StopShare
  <1> HIDE DEF c, w
  <1>4. Moves(b, {}, w) /\ ui'[b] = c /\ up'[b] = up[b] \o w
    BY <1>1, <1>2, <1>3, UserMove DEF IInv, Typed
  <1>5. ShareStep(b, {}, Msgs(w)) /\ PendingStep(b, {}, Msgs(w)) /\ StartStep(b, Msgs(w))
    BY <1>1, <1>2, <1>4, ControllerFields DEF ShareStep, PendingStep, StartStep
  <1>6. ViewStep(b, {}, Msgs(w)) /\ PeerStep(b, {})
    BY <1>1, <1>3, <1>4 DEF ViewStep, PeerStep
  <1> QED BY <1>4, <1>5, <1>6, BrowserMove

LEMMA Leaving ==
    ASSUME NEW b, NEW c, c.viewing \in Streams \cup {None}
    PROVE  /\ LeaveOf(c) \in Seq(Sent(b))
           /\ \A t, s : Msg(t, s) \in Msgs(LeaveOf(c)) <=> t = "leave" /\ s = c.viewing /\ s # None
  <1>1. CASE c.viewing = None
    BY <1>1, Short DEF LeaveOf
  <1>2. CASE c.viewing # None
    <2>1. Msg("leave", c.viewing) \in Sent(b) /\ LeaveOf(c) = <<Msg("leave", c.viewing)>>
      BY <1>2 DEF Sent, LeaveOf
    <2>2. Msgs(LeaveOf(c)) = {Msg("leave", c.viewing)}
      BY <2>1, Short
    <2> QED BY <1>2, <2>1, <2>2, Distinct
  <1> QED BY <1>1, <1>2

LEMMA LeaveStays ==
    ASSUME IInv, NEW b \in Browsers, Leave(b)
    PROVE  IInv'
  <1> DEFINE c == Unwatched(ui[b])
             w == LeaveOf(ui[b])
  <1>1. /\ c \in Controller(b)
        /\ c.active = ui[b].active /\ c.pending = ui[b].pending /\ c.viewing = None /\ c.peers = {}
    BY ControllerFields DEF Unwatched, Controller
  <1>2. /\ w \in Seq(Sent(b))
        /\ \A t, s : Msg(t, s) \in Msgs(w) <=> t = "leave" /\ s = ui[b].viewing /\ s # None
    BY Leaving, ControllerFields
  <1>3. Becomes(b, c) /\ Send(b, w) /\ UNCHANGED <<down, ready, shares, watchers, stray>>
    BY DEF Leave
  <1> HIDE DEF c, w
  <1>4. Moves(b, {}, w) /\ ui'[b] = c
    BY <1>1, <1>2, <1>3, UserMove DEF IInv, Typed
  <1>5. ShareStep(b, {}, Msgs(w)) /\ PendingStep(b, {}, Msgs(w)) /\ StartStep(b, Msgs(w))
    BY <1>1, <1>2, <1>3, <1>4 DEF ShareStep, PendingStep, StartStep
  <1>6. ViewStep(b, {}, Msgs(w)) /\ PeerStep(b, {})
    BY <1>1, <1>2, <1>3, <1>4, ControllerFields DEF ViewStep, PeerStep
  <1> QED BY <1>4, <1>5, <1>6, BrowserMove

LEMMA JoinStays ==
    ASSUME IInv, NEW b \in Browsers, NEW s \in Streams, Join(b, s)
    PROVE  IInv'
  <1> DEFINE c == IF ui[b].viewing \in {s, None} THEN ui[b] ELSE Unwatched(ui[b])
             l == IF ui[b].viewing = s THEN <<>> ELSE LeaveOf(ui[b])
             w == l \o <<Msg("join", s)>>
  <1>1. /\ c \in Controller(b)
        /\ c.active = ui[b].active /\ c.pending = ui[b].pending
        /\ IF ui[b].viewing \in {s, None}
           THEN c.viewing = ui[b].viewing /\ c.peers = ui[b].peers
           ELSE c.viewing = None /\ c.peers = {}
    BY ControllerFields DEF Unwatched, Controller
  <1>2. /\ w \in Seq(Sent(b))
        /\ \A t, r : t \in {"start", "stop"} => Msg(t, r) \notin Msgs(w)
        /\ \A r \in Streams : ui[b].viewing = r /\ r # s => Msg("leave", r) \in Msgs(w)
    <2>1. /\ l \in Seq(Sent(b))
          /\ \A t, r : Msg(t, r) \in Msgs(l) => t = "leave"
          /\ \A r \in Streams : ui[b].viewing = r /\ r # s => Msg("leave", r) \in Msgs(l)
      BY Leaving, Short, ControllerFields
    <2>2. <<Msg("join", s)>> \in Seq(Sent(b)) /\ Msgs(<<Msg("join", s)>>) = {Msg("join", s)}
      <3>1. Msg("join", s) \in Sent(b)
        BY DEF Sent
      <3> QED BY <3>1, Short
    <2> HIDE DEF l
    <2>3. w \in Seq(Sent(b)) /\ Msgs(w) = Msgs(l) \cup {Msg("join", s)}
      BY <2>1, <2>2, Sending
    <2> QED BY <2>1, <2>3, Distinct
  <1>3. /\ ui' = [ui EXCEPT ![b] = c] \/ (ui' = ui /\ c = ui[b])
        /\ up' = [up EXCEPT ![b] = @ \o w] /\ UNCHANGED <<down, ready, shares, watchers, stray>>
    <2>1. CASE ui[b].viewing = s
      <3>1. <<>> \o <<Msg("join", s)>> = <<Msg("join", s)>>
        OBVIOUS
      <3> QED BY <2>1, <3>1 DEF Join, Send
    <2>2. CASE ui[b].viewing # s
      BY <2>2 DEF Join, Send, Becomes
    <2> QED BY <2>1, <2>2
  <1> HIDE DEF c, w
  <1>4. Moves(b, {}, w) /\ ui'[b] = c
    BY <1>1, <1>2, <1>3 DEF Moves, IInv, Typed
  <1>5. ShareStep(b, {}, Msgs(w)) /\ PendingStep(b, {}, Msgs(w)) /\ StartStep(b, Msgs(w))
    BY <1>1, <1>2, <1>3, <1>4 DEF ShareStep, PendingStep, StartStep
  <1>6. ViewStep(b, {}, Msgs(w)) /\ PeerStep(b, {})
    BY <1>1, <1>2, <1>3, <1>4, ControllerFields DEF ViewStep, PeerStep
  <1> QED BY <1>4, <1>5, <1>6, BrowserMove

LEMMA PeerFailsStays ==
    ASSUME IInv, NEW b \in Browsers, NEW x \in Peers, PeerFails(b, x)
    PROVE  IInv'
  <1> DEFINE k == [ui[b] EXCEPT !.peers = @ \ {x}]
             failed == k.viewing # None /\ k.viewing \in k.cards /\ Owner(k.viewing) = x
             c == IF failed THEN [k EXCEPT !.viewing = None] ELSE k
             w == IF failed THEN LeaveOf(k) ELSE <<>>
  <1>1. /\ k.viewing = ui[b].viewing /\ k.peers = ui[b].peers \ {x} /\ k.active = ui[b].active
        /\ k.pending = ui[b].pending /\ k \in Controller(b)
    BY ControllerFields DEF Controller
  <1>2. Becomes(b, c) /\ Send(b, w) /\ UNCHANGED <<down, ready, shares, watchers, stray>>
    BY DEF PeerFails
  <1>3. PICK h \in BOOLEAN : h = failed
    OBVIOUS
  <1> HIDE DEF k
  <1>4. /\ c \in Controller(b)
        /\ c.active = ui[b].active /\ c.pending = ui[b].pending /\ c.peers = ui[b].peers \ {x}
        /\ IF h THEN c.viewing = None /\ Owner(ui[b].viewing) = x /\ ui[b].viewing # None
                ELSE c.viewing = ui[b].viewing
    <2>1. [k EXCEPT !.viewing = None] \in Controller(b)
      BY <1>1 DEF Controller
    <2>2. /\ [k EXCEPT !.viewing = None].viewing = None /\ [k EXCEPT !.viewing = None].peers = k.peers
          /\ [k EXCEPT !.viewing = None].active = k.active
          /\ [k EXCEPT !.viewing = None].pending = k.pending
      BY <1>1 DEF Controller
    <2> QED BY <1>1, <1>3, <2>1, <2>2
  <1>5. /\ w \in Seq(Sent(b))
        /\ \A t, s : Msg(t, s) \in Msgs(w) <=> h /\ t = "leave" /\ s = ui[b].viewing /\ s # None
    <2>1. k.viewing \in Streams \cup {None}
      BY <1>1, ControllerFields
    <2>2. /\ LeaveOf(k) \in Seq(Sent(b))
          /\ \A t, s : Msg(t, s) \in Msgs(LeaveOf(k)) <=> t = "leave" /\ s = k.viewing /\ s # None
      BY <2>1, Leaving
    <2>3. CASE failed
      BY <1>1, <1>3, <2>2, <2>3
    <2>4. CASE ~failed
      <3>1. w = <<>> /\ ~h
        BY <1>3, <2>4
      <3> HIDE DEF w
      <3>2. w \in Seq(Sent(b))
        BY <3>1
      <3>3. Msgs(w) = {}
        BY <3>1, Short
      <3> QED BY <3>1, <3>2, <3>3
    <2> QED BY <2>3, <2>4
  <1> HIDE DEF c, w, failed
  <1>6. Moves(b, {}, w) /\ ui'[b] = c
    BY <1>2, <1>4, <1>5, UserMove DEF IInv, Typed
  <1>7. ShareStep(b, {}, Msgs(w)) /\ PendingStep(b, {}, Msgs(w)) /\ StartStep(b, Msgs(w))
    BY <1>2, <1>4, <1>5, <1>6 DEF ShareStep, PendingStep, StartStep
  <1>8. ViewStep(b, {}, Msgs(w)) /\ PeerStep(b, {})
    BY <1>2, <1>4, <1>5, <1>6, ControllerFields DEF ViewStep, PeerStep
  <1> QED BY <1>6, <1>7, <1>8, BrowserMove

-----------------------------------------------------------------------------
(* A browser handles a message of the gateway. *)

Taking(b, m) ==
    /\ down[b] # <<>> /\ m = Head(down[b])
    /\ down' = [down EXCEPT ![b] = Tail(@)]
    /\ UNCHANGED <<ready, shares, watchers>>

\* Whatever becomes of what the gateway does not know of.
StrayAt(b) ==
    stray' \in [Browsers -> SUBSET Streams] /\ \A d \in Browsers : d # b => stray'[d] = stray[d]

LEMMA TakingMove ==
    ASSUME IInv, NEW b \in Browsers, NEW m, Taking(b, m), NEW c \in Controller(b),
           NEW w \in Seq(Sent(b)), Becomes(b, c) \/ (UNCHANGED ui /\ c = ui[b]),
           Send(b, w), StrayAt(b)
    PROVE  Moves(b, {m}, w) /\ ui'[b] = c
  <1>1. up[b] \in Seq(Sent(b))
    BY DEF IInv, Typed
  <1>2. DOMAIN up' = Browsers /\ up'[b] = up[b] \o w /\ \A d \in Browsers : d # b => up'[d] = up[d]
    BY <1>1 DEF Send, IInv, Typed
  <1>3. DOMAIN ui' = Browsers /\ ui'[b] = c /\ \A d \in Browsers : d # b => ui'[d] = ui[d]
    BY DEF Becomes, IInv, Typed
  <1>4. /\ DOMAIN down' = Browsers /\ down'[b] = Tail(down[b])
        /\ \A d \in Browsers : d # b => down'[d] = down[d]
    BY DEF Taking, IInv, Typed
  <1> QED BY <1>2, <1>3, <1>4 DEF Moves, Taking, StrayAt

LEMMA TakingQuietly ==
    ASSUME IInv, NEW b \in Browsers, NEW m, Taking(b, m), NEW c \in Controller(b),
           Becomes(b, c) \/ (UNCHANGED ui /\ c = ui[b]), UNCHANGED up, StrayAt(b)
    PROVE  Moves(b, {m}, <<>>) /\ ui'[b] = c
  <1>1. up[b] \in Seq(Sent(b)) /\ <<>> \in Seq(Sent(b))
    BY DEF IInv, Typed
  <1>2. /\ DOMAIN up' = Browsers /\ up'[b] = up[b] \o <<>>
        /\ \A d \in Browsers : d # b => up'[d] = up[d]
    BY <1>1 DEF IInv, Typed
  <1>3. DOMAIN ui' = Browsers /\ ui'[b] = c /\ \A d \in Browsers : d # b => ui'[d] = ui[d]
    BY DEF Becomes, IInv, Typed
  <1>4. /\ DOMAIN down' = Browsers /\ down'[b] = Tail(down[b])
        /\ \A d \in Browsers : d # b => down'[d] = down[d]
    BY DEF Taking, IInv, Typed
  <1> QED BY <1>1, <1>2, <1>3, <1>4 DEF Moves, Taking, StrayAt

LEMMA StrayStays ==
    ASSUME IInv, NEW b \in Browsers, UNCHANGED stray
    PROVE  StrayAt(b) /\ stray'[b] = stray[b]
  BY DEF StrayAt, IInv, Typed

\* The cards change, or nothing but what is sent, and the message is no concern of a share
\* or a view.
LEMMA Unconcerned ==
    ASSUME IInv, NEW b \in Browsers, NEW m, NEW w, Moves(b, {m}, w), UNCHANGED stray,
           ui'[b].active = ui[b].active, ui'[b].pending = ui[b].pending,
           ui'[b].viewing = ui[b].viewing, ui'[b].peers = ui[b].peers,
           \A s : Msg("start", s) \notin Msgs(w) /\ Msg("stop", s) \notin Msgs(w),
           \/ m.type \in {"list", "started", "connected", "signal", "close"}
           \/ m.type = "left" /\ m.stream # ui[b].viewing
    PROVE  IInv'
  <1>1. /\ \A t, s : t \notin {"list", "started", "connected", "signal", "close"} /\ Msg(t, s) = m
              => t = "left" /\ s # ui[b].viewing
        /\ \A s, x : About("viewerLeft", s, x) # m
    BY Messages
  <1>2. ShareStep(b, {m}, Msgs(w)) /\ PendingStep(b, {m}, Msgs(w)) /\ StartStep(b, Msgs(w))
    BY <1>1 DEF ShareStep, PendingStep, StartStep, ResetMsg, ErrorMsg
  <1>3. ViewStep(b, {m}, Msgs(w)) /\ PeerStep(b, {m})
    BY <1>1 DEF ViewStep, PeerStep, ResetMsg
  <1> QED BY <1>2, <1>3, BrowserMove

LEMMA CardsStay ==
    ASSUME IInv, NEW b \in Browsers, NEW m \in Told(b), Taking(b, m),
           \/ m.type = "list" /\ ListReplaced(b, m.cards)
           \/ m.type = "started" /\ StartedByOther(b, m.stream)
           \/ m.type = "connected" /\ Connected(b)
    PROVE  IInv'
  <1>1. CASE m.type = "list" /\ ListReplaced(b, m.cards)
    <2> DEFINE c == [ui[b] EXCEPT !.cards = m.cards]
    <2>1. /\ c \in Controller(b) /\ c.active = ui[b].active /\ c.pending = ui[b].pending
          /\ c.viewing = ui[b].viewing /\ c.peers = ui[b].peers
      BY <1>1, ToldOf, ControllerFields DEF Controller
    <2>2. Becomes(b, c) /\ UNCHANGED <<up, stray>>
      BY <1>1 DEF ListReplaced
    <2> HIDE DEF c
    <2>3. Moves(b, {m}, <<>>) /\ ui'[b] = c
      BY <2>1, <2>2, StrayStays, TakingQuietly
    <2> QED BY <1>1, <2>1, <2>2, <2>3, Short, Unconcerned
  <1>2. CASE m.type = "started" /\ StartedByOther(b, m.stream)
    <2> DEFINE c == [ui[b] EXCEPT !.cards = @ \cup {m.stream}]
    <2>0. m.stream \in Streams
      BY <1>2, ToldOf, Names
    <2>1. /\ c \in Controller(b) /\ c.active = ui[b].active /\ c.pending = ui[b].pending
          /\ c.viewing = ui[b].viewing /\ c.peers = ui[b].peers
      BY <2>0, ControllerFields DEF Controller
    <2>2. Becomes(b, c) /\ UNCHANGED <<up, stray>>
      BY <1>2 DEF StartedByOther
    <2> HIDE DEF c
    <2>3. Moves(b, {m}, <<>>) /\ ui'[b] = c
      BY <2>1, <2>2, StrayStays, TakingQuietly
    <2> QED BY <1>2, <2>1, <2>2, <2>3, Short, Unconcerned
  <1>3. CASE m.type = "connected" /\ Connected(b)
    <2>1. Send(b, <<Msg("list", None)>>) /\ UNCHANGED <<ui, stray>>
      BY <1>3 DEF Connected
    <2>2. /\ <<Msg("list", None)>> \in Seq(Sent(b))
          /\ \A s : /\ Msg("start", s) \notin Msgs(<<Msg("list", None)>>)
                    /\ Msg("stop", s) \notin Msgs(<<Msg("list", None)>>)
      <3>1. Msg("list", None) \in Sent(b)
        BY DEF Sent
      <3> QED BY <3>1, Short, Distinct
    <2>3. Moves(b, {m}, <<Msg("list", None)>>) /\ ui'[b] = ui[b]
      BY <2>1, <2>2, ControllerFields, StrayStays, TakingMove
    <2> QED BY <1>3, <2>1, <2>2, <2>3, Unconcerned
  <1> QED BY <1>1, <1>2, <1>3

LEMMA ConfirmedStays ==
    ASSUME IInv, NEW b \in Browsers, NEW s \in Own(b), Taking(b, Msg("confirmed", s)),
           Confirmed(b, s)
    PROVE  IInv'
  <1> DEFINE m == Msg("confirmed", s)
  <1>0. s \in Streams /\ UNCHANGED stray /\ StrayAt(b) /\ stray'[b] = stray[b] /\ s # None
    BY Names, StrayStays DEF Own, Shares, Streams, Confirmed
  <1>1. /\ \A t, r : Msg(t, r) \in {m} <=> t = "confirmed" /\ r = s
        /\ \A t, r, x : About(t, r, x) \in {m} => t = "confirmed"
    BY Distinct
  <1>2. CASE ui[b].pending = s
    <2> DEFINE c == [ui[b] EXCEPT !.starting = FALSE, !.pending = None, !.active = s,
                                  !.cards = @ \cup {s}]
    <2>1. c \in Controller(b) /\ c.active = s /\ c.pending = None /\ c.viewing = ui[b].viewing
          /\ c.peers = ui[b].peers /\ ui[b].active = None
      BY <1>0, <1>2, ControllerFields DEF Controller
    <2>2. Becomes(b, c) /\ UNCHANGED up
      BY <1>2 DEF Confirmed
    <2> HIDE DEF c, m
    <2>3. Moves(b, {m}, <<>>) /\ ui'[b] = c /\ stray'[b] = stray[b]
      BY <1>0, <2>1, <2>2, TakingQuietly DEF m
    <2>4. ShareStep(b, {m}, {}) /\ PendingStep(b, {m}, {}) /\ StartStep(b, {})
      BY <1>1, <2>1, <2>3, ControllerFields DEF ShareStep, PendingStep, StartStep, ResetMsg, ErrorMsg
    <2>5. ViewStep(b, {m}, {}) /\ PeerStep(b, {m})
      BY <1>1, <2>1, <2>3 DEF ViewStep, PeerStep, ResetMsg
    <2> QED BY <2>3, <2>4, <2>5, QuietMove
  <1>3. CASE ui[b].pending # s
    <2> DEFINE c == [ui[b] EXCEPT !.cards = @ \ {s}]
               w == <<Msg("stop", s)>>
    <2>1. c \in Controller(b) /\ c.active = ui[b].active /\ c.pending = ui[b].pending
          /\ c.viewing = ui[b].viewing /\ c.peers = ui[b].peers
      BY <1>0, ControllerFields DEF Controller
    <2>2. w \in Seq(Sent(b)) /\ \A t, r : Msg(t, r) \in Msgs(w) <=> t = "stop" /\ r = s
      <3>1. Msg("stop", s) \in Sent(b)
        BY DEF Sent
      <3> QED BY <3>1, Short, Distinct
    <2>3. Becomes(b, c) /\ Send(b, w)
      BY <1>3 DEF Confirmed
    <2> HIDE DEF c, w, m
    <2>4. Moves(b, {m}, w) /\ ui'[b] = c /\ stray'[b] = stray[b]
      BY <1>0, <2>1, <2>2, <2>3, TakingMove DEF m
    <2>5. ShareStep(b, {m}, Msgs(w)) /\ PendingStep(b, {m}, Msgs(w)) /\ StartStep(b, Msgs(w))
      BY <1>1, <1>3, <2>1, <2>2, <2>4, ControllerFields
         DEF ShareStep, PendingStep, StartStep, ResetMsg, ErrorMsg
    <2>6. ViewStep(b, {m}, Msgs(w)) /\ PeerStep(b, {m})
      BY <1>1, <2>1, <2>4 DEF ViewStep, PeerStep, ResetMsg
    <2> QED BY <2>4, <2>5, <2>6, BrowserMove
  <1> QED BY <1>2, <1>3

LEMMA StoppedStays ==
    ASSUME IInv, NEW b \in Browsers, NEW s \in Shares, Taking(b, Msg("stopped", s)),
           Stopped(b, s)
    PROVE  IInv'
  <1> DEFINE m == Msg("stopped", s)
             k == [ui[b] EXCEPT !.cards = @ \ {s}]
             d == IF k.active = s THEN [Unshared(k) EXCEPT !.peers = {}] ELSE k
             c == IF d.viewing = s THEN Unwatched(d) ELSE d
             S == stray[b] \ {s}
  <1>0. StrayAt(b) /\ stray'[b] = S /\ UNCHANGED up /\ s # None
    BY Names DEF Stopped, StrayAt, IInv, Typed
  <1>1. /\ \A t, r : Msg(t, r) \in {m} <=> t = "stopped" /\ r = s
        /\ \A t, r, x : About(t, r, x) \in {m} => t = "stopped"
    BY Distinct
  <1>2. /\ k \in Controller(b) /\ k.active = ui[b].active /\ k.pending = ui[b].pending
        /\ k.viewing = ui[b].viewing /\ k.peers = ui[b].peers
    BY ControllerFields DEF Controller
  <1>3. Becomes(b, c)
    BY DEF Stopped
  <1> HIDE DEF k
  <1>4. /\ d \in Controller(b) /\ d.viewing = ui[b].viewing
        /\ IF ui[b].active = s THEN d.active = None /\ d.pending = None /\ d.peers = {}
           ELSE d.active = ui[b].active /\ d.pending = ui[b].pending /\ d.peers = ui[b].peers
    BY <1>2, ControllerFields DEF Unshared, Controller
  <1> HIDE DEF d
  <1>5. /\ c \in Controller(b) /\ c.active = d.active /\ c.pending = d.pending
        /\ IF ui[b].viewing = s THEN c.viewing = None /\ c.peers = {}
           ELSE c.viewing = ui[b].viewing /\ c.peers = d.peers
    BY <1>4 DEF Unwatched, Controller
  <1> HIDE DEF c, m
  <1>6. Moves(b, {m}, <<>>) /\ ui'[b] = c /\ stray'[b] = S
    BY <1>0, <1>3, <1>5, TakingQuietly DEF m
  <1>7. ShareStep(b, {m}, {}) /\ PendingStep(b, {m}, {}) /\ StartStep(b, {})
    BY <1>1, <1>4, <1>5, <1>6, ControllerFields DEF ShareStep, PendingStep, StartStep, ResetMsg, ErrorMsg
  <1>8. ViewStep(b, {m}, {}) /\ PeerStep(b, {m})
    BY <1>0, <1>1, <1>4, <1>5, <1>6, ControllerFields DEF ViewStep, PeerStep, ResetMsg
  <1> QED BY <1>6, <1>7, <1>8, QuietMove

LEMMA JoinedStays ==
    ASSUME IInv, NEW b \in Browsers, NEW s \in Streams \ Own(b), Taking(b, Msg("joined", s)),
           Joined(b, s)
    PROVE  IInv'
  <1> DEFINE m == Msg("joined", s)
             c == [ui[b] EXCEPT !.cards = @ \cup {s}, !.viewing = s, !.peers = {Owner(s)}]
             w == IF s \in Natives THEN <<>> ELSE <<Msg("offer", s)>>
             S == (stray[b] \cup ({ui[b].viewing} \ {None})) \ {s}
  <1>0. StrayAt(b) /\ stray'[b] = S /\ s # None
    BY Names, ControllerFields DEF Joined, StrayAt, IInv, Typed
  <1>1. /\ \A t, r : Msg(t, r) \in {m} <=> t = "joined" /\ r = s
        /\ \A t, r, x : About(t, r, x) \in {m} => t = "joined"
    BY Distinct
  <1>2. /\ c \in Controller(b) /\ c.active = ui[b].active /\ c.pending = ui[b].pending
        /\ c.viewing = s /\ c.peers = {Owner(s)}
    <2>1. PICK o \in Peers : o = Owner(s)
      BY Names
    <2> QED BY <2>1, ControllerFields DEF Controller
  <1>3. w \in Seq(Sent(b)) /\ \A t, r : Msg(t, r) \in Msgs(w) => t = "offer"
    <2>1. CASE s \in Natives
      BY <2>1, Short
    <2>2. CASE s \notin Natives
      <3>1. Msg("offer", s) \in Sent(b) /\ w = <<Msg("offer", s)>>
        BY <2>2 DEF Sent
      <3> QED BY <3>1, Short, Distinct
    <2> QED BY <2>1, <2>2
  <1>4. Becomes(b, c) /\ Send(b, w)
    BY DEF Joined
  <1> HIDE DEF c, w, m, S
  <1>5. Moves(b, {m}, w) /\ ui'[b] = c /\ stray'[b] = S
    BY <1>0, <1>2, <1>3, <1>4, TakingMove DEF m
  <1>6. ShareStep(b, {m}, Msgs(w)) /\ PendingStep(b, {m}, Msgs(w)) /\ StartStep(b, Msgs(w))
    BY <1>1, <1>2, <1>3, <1>5 DEF S, ShareStep, PendingStep, StartStep, ResetMsg, ErrorMsg
  <1>7. ViewStep(b, {m}, Msgs(w)) /\ PeerStep(b, {m})
    BY <1>0, <1>1, <1>2, <1>5, ControllerFields DEF S, ViewStep, PeerStep, ResetMsg
  <1> QED BY <1>5, <1>6, <1>7, BrowserMove

LEMMA LeftStays ==
    ASSUME IInv, NEW b \in Browsers, NEW s \in Streams, Taking(b, Msg("left", s)), Left(b, s)
    PROVE  IInv'
  <1> DEFINE m == Msg("left", s)
  <1>0. /\ s # None /\ UNCHANGED stray /\ StrayAt(b) /\ stray'[b] = stray[b]
        /\ m.type = "left" /\ m.stream = s
    BY Names, StrayStays, Messages DEF Left
  <1>1. /\ \A t, r : Msg(t, r) \in {m} <=> t = "left" /\ r = s
        /\ \A t, r, x : About(t, r, x) \in {m} => t = "left"
    BY Distinct
  <1>2. CASE ui[b].viewing = s
    <2> DEFINE c == Unwatched(ui[b])
               w == <<Msg("leave", s)>>
    <2>1. /\ c \in Controller(b) /\ c.active = ui[b].active /\ c.pending = ui[b].pending
          /\ c.viewing = None /\ c.peers = {}
      BY ControllerFields DEF Unwatched, Controller
    <2>2. w \in Seq(Sent(b)) /\ \A t, r : Msg(t, r) \in Msgs(w) <=> t = "leave" /\ r = s
      <3>1. Msg("leave", s) \in Sent(b)
        BY DEF Sent
      <3> QED BY <3>1, Short, Distinct
    <2>3. Becomes(b, c) /\ Send(b, w)
      BY <1>2 DEF Left
    <2> HIDE DEF c, w, m
    <2>4. Moves(b, {m}, w) /\ ui'[b] = c /\ stray'[b] = stray[b]
      BY <1>0, <2>1, <2>2, <2>3, TakingMove DEF m
    <2>5. ShareStep(b, {m}, Msgs(w)) /\ PendingStep(b, {m}, Msgs(w)) /\ StartStep(b, Msgs(w))
      BY <1>1, <2>1, <2>2, <2>4 DEF ShareStep, PendingStep, StartStep, ResetMsg, ErrorMsg
    <2>6. ViewStep(b, {m}, Msgs(w)) /\ PeerStep(b, {m})
      BY <1>0, <1>1, <1>2, <2>1, <2>2, <2>4, ControllerFields DEF ViewStep, PeerStep, ResetMsg
    <2> QED BY <2>4, <2>5, <2>6, BrowserMove
  <1>3. CASE ui[b].viewing # s
    <2>1. UNCHANGED <<ui, up>>
      BY <1>3 DEF Left
    <2> HIDE DEF m
    <2>2. Moves(b, {m}, <<>>) /\ ui'[b] = ui[b]
      BY <1>0, <2>1, ControllerFields, TakingQuietly DEF m
    <2>3. \A r : Msg("start", r) \notin Msgs(<<>>) /\ Msg("stop", r) \notin Msgs(<<>>)
      BY Short
    <2> QED BY <1>0, <1>3, <2>2, <2>3, Unconcerned
  <1> QED BY <1>2, <1>3

LEMMA ViewerLeftStays ==
    ASSUME IInv, NEW b \in Browsers, NEW s \in Own(b), NEW x \in Browsers,
           Taking(b, About("viewerLeft", s, x)), ViewerLeft(b, x)
    PROVE  IInv'
  <1> DEFINE m == About("viewerLeft", s, x)
             c == [ui[b] EXCEPT !.peers = @ \ {x}]
  <1>0. UNCHANGED stray /\ StrayAt(b) /\ stray'[b] = stray[b]
    BY StrayStays DEF ViewerLeft
  <1>1. /\ \A t, r : Msg(t, r) \in {m} => t = "viewerLeft"
        /\ \A t, r, y : About(t, r, y) \in {m} <=> t = "viewerLeft" /\ r = s /\ y = x
    BY Distinct
  <1>2. /\ c \in Controller(b) /\ c.active = ui[b].active /\ c.pending = ui[b].pending
        /\ c.viewing = ui[b].viewing /\ c.peers = ui[b].peers \ {x}
    BY ControllerFields DEF Controller
  <1>3. Becomes(b, c) /\ UNCHANGED up
    BY DEF ViewerLeft
  <1> HIDE DEF c, m
  <1>4. Moves(b, {m}, <<>>) /\ ui'[b] = c /\ stray'[b] = stray[b]
    BY <1>0, <1>2, <1>3, TakingQuietly DEF m
  <1>5. ShareStep(b, {m}, {}) /\ PendingStep(b, {m}, {}) /\ StartStep(b, {})
    BY <1>1, <1>2, <1>4 DEF ShareStep, PendingStep, StartStep, ResetMsg, ErrorMsg
  <1>6. ViewStep(b, {m}, {}) /\ PeerStep(b, {m})
    BY <1>1, <1>2, <1>4 DEF ViewStep, PeerStep, ResetMsg
  <1> QED BY <1>4, <1>5, <1>6, QuietMove

LEMMA OfferedStays ==
    ASSUME IInv, NEW b \in Browsers, NEW s, NEW x, Taking(b, About("signal", s, x)),
           (s \in Own(b) /\ x \in Browsers) \/ (s \in Natives /\ x = s), Offered(b, s, x)
    PROVE  IInv'
  <1> DEFINE m == About("signal", s, x)
  <1>0. /\ UNCHANGED stray /\ StrayAt(b) /\ stray'[b] = stray[b]
        /\ m.type = "signal" /\ s \in Streams /\ x \in Peers /\ s # None
    BY StrayStays, Messages, Names DEF Offered, Streams, Shares, Own, Peers
  <1>1. /\ \A t, r : Msg(t, r) \in {m} => t = "signal"
        /\ \A t, r, y : About(t, r, y) \in {m} <=> t = "signal" /\ r = s /\ y = x
    BY Distinct
  <1>2. CASE s \in ui[b].cards /\ (ui[b].active = s \/ (s \in Natives /\ ui[b].viewing = s))
    <2> DEFINE c == [ui[b] EXCEPT !.peers = @ \cup {x}]
               w == <<About("answer", s, x)>>
    <2>1. /\ c \in Controller(b) /\ c.active = ui[b].active /\ c.pending = ui[b].pending
          /\ c.viewing = ui[b].viewing /\ c.peers = ui[b].peers \cup {x}
      BY <1>0, ControllerFields DEF Controller
    <2>2. w \in Seq(Sent(b)) /\ \A t, r : Msg(t, r) \in Msgs(w) => t = "answer"
      <3>1. About("answer", s, x) \in Sent(b)
        BY <1>0 DEF Sent
      <3> QED BY <3>1, Short, Distinct
    <2>3. Becomes(b, c) /\ Send(b, w)
      BY <1>2 DEF Offered
    <2> HIDE DEF c, w, m
    <2>4. Moves(b, {m}, w) /\ ui'[b] = c /\ stray'[b] = stray[b]
      BY <1>0, <2>1, <2>2, <2>3, TakingMove DEF m
    <2>5. ShareStep(b, {m}, Msgs(w)) /\ PendingStep(b, {m}, Msgs(w)) /\ StartStep(b, Msgs(w))
      BY <1>1, <2>1, <2>2, <2>4 DEF ShareStep, PendingStep, StartStep, ResetMsg, ErrorMsg
    <2>6. ViewStep(b, {m}, Msgs(w))
      BY <1>1, <2>1, <2>4 DEF ViewStep, ResetMsg
    <2>7. \/ s \in Own(b) /\ x \in Browsers /\ ui[b].active = s
          \/ ui[b].viewing = s /\ Owner(s) = x
      BY <1>2, ControllerFields, Names DEF Owner
    <2>8. PeerStep(b, {m})
      BY <1>0, <1>1, <2>1, <2>4, <2>7 DEF PeerStep, ResetMsg
    <2> QED BY <2>4, <2>5, <2>6, <2>8, BrowserMove
  <1>3. CASE ~(s \in ui[b].cards /\ (ui[b].active = s \/ (s \in Natives /\ ui[b].viewing = s)))
    <2>1. UNCHANGED <<ui, up>>
      BY <1>3 DEF Offered
    <2> HIDE DEF m
    <2>2. Moves(b, {m}, <<>>) /\ ui'[b] = ui[b]
      BY <1>0, <2>1, ControllerFields, TakingQuietly DEF m
    <2>3. \A r : Msg("start", r) \notin Msgs(<<>>) /\ Msg("stop", r) \notin Msgs(<<>>)
      BY Short
    <2> QED BY <1>0, <2>2, <2>3, Unconcerned
  <1> QED BY <1>2, <1>3

LEMMA ClosedStays ==
    ASSUME IInv, NEW b \in Browsers, NEW s \in Natives, Taking(b, About("close", s, s)),
           Closed(b, s, s)
    PROVE  IInv'
  <1> DEFINE m == About("close", s, s)
  <1>0. s \in Streams /\ s # None /\ UNCHANGED up /\ m.type = "close"
    BY Names, Messages DEF Streams, Closed
  <1>1. /\ \A t, r : Msg(t, r) \in {m} => t = "close"
        /\ \A t, r, y : About(t, r, y) \in {m} => t = "close"
    BY Distinct
  <1>2. CASE s \notin ui[b].cards
    <2>1. UNCHANGED <<ui, stray>> /\ StrayAt(b)
      BY <1>2, StrayStays DEF Closed
    <2> HIDE DEF m
    <2>2. Moves(b, {m}, <<>>) /\ ui'[b] = ui[b]
      BY <1>0, <2>1, ControllerFields, TakingQuietly DEF m
    <2>3. \A r : Msg("start", r) \notin Msgs(<<>>) /\ Msg("stop", r) \notin Msgs(<<>>)
      BY Short
    <2> QED BY <1>0, <2>1, <2>2, <2>3, Unconcerned
  <1>3. CASE s \in ui[b].cards
    <2> DEFINE k == [ui[b] EXCEPT !.peers = @ \ {s}]
               c == IF ui[b].viewing = s THEN [k EXCEPT !.viewing = None] ELSE k
    <2>1. /\ k \in Controller(b) /\ k.active = ui[b].active /\ k.pending = ui[b].pending
          /\ k.viewing = ui[b].viewing /\ k.peers = ui[b].peers \ {s}
      BY ControllerFields DEF Controller
    <2>2. /\ Becomes(b, c)
          /\ IF ui[b].viewing = s THEN stray' = [stray EXCEPT ![b] = @ \cup {s}]
                                  ELSE UNCHANGED stray
      BY <1>3, <2>1 DEF Closed
    <2> HIDE DEF k
    <2>3. /\ c \in Controller(b) /\ c.active = ui[b].active /\ c.pending = ui[b].pending
          /\ c.peers = ui[b].peers \ {s}
          /\ c.viewing = IF ui[b].viewing = s THEN None ELSE ui[b].viewing
      BY <2>1 DEF Controller
    <2>4. /\ StrayAt(b) /\ stray[b] \subseteq stray'[b]
          /\ ui[b].viewing = s => s \in stray'[b]
      BY <1>0, <2>2 DEF StrayAt, IInv, Typed
    <2> HIDE DEF c, m
    <2>5. Moves(b, {m}, <<>>) /\ ui'[b] = c
      BY <1>0, <2>2, <2>3, <2>4, TakingQuietly DEF m
    <2>6. ShareStep(b, {m}, {}) /\ PendingStep(b, {m}, {}) /\ StartStep(b, {})
      BY <1>1, <2>3, <2>4, <2>5 DEF ShareStep, PendingStep, StartStep, ResetMsg, ErrorMsg
    <2>7. ViewStep(b, {m}, {})
      BY <1>0, <1>1, <2>3, <2>4, <2>5, ControllerFields DEF ViewStep, ResetMsg
    <2>8. PeerStep(b, {m})
      <3>1. Owner(s) = s
        BY DEF Owner
      <3> QED BY <1>0, <1>1, <2>3, <2>5, <3>1 DEF PeerStep, ResetMsg
    <2> QED BY <2>5, <2>6, <2>7, <2>8, QuietMove
  <1> QED BY <1>2, <1>3

LEMMA FailedStays ==
    ASSUME IInv, NEW b \in Browsers, Taking(b, ErrorMsg), Failed(b)
    PROVE  IInv'
  <1> DEFINE m == ErrorMsg
             k == IF ui[b].starting THEN Unshared(ui[b]) ELSE ui[b]
             c == IF k.viewing = None THEN k ELSE Unwatched(k)
             w == LeaveOf(k)
  <1>0. UNCHANGED stray /\ StrayAt(b) /\ stray'[b] = stray[b]
    BY StrayStays DEF Failed
  <1>1. /\ \A t, r : Msg(t, r) \in {m} <=> t = "error" /\ r = None
        /\ \A t, r, x : About(t, r, x) \in {m} => t = "error"
    BY Distinct DEF ErrorMsg
  <1>2. Becomes(b, c) /\ Send(b, w)
    BY DEF Failed
  <1>3. /\ k \in Controller(b) /\ k.active = ui[b].active /\ k.pending = None
        /\ k.viewing = ui[b].viewing /\ k.peers = ui[b].peers
    BY ControllerFields DEF Unshared, Controller
  <1> HIDE DEF k
  <1>4. /\ c \in Controller(b) /\ c.active = ui[b].active /\ c.pending = None
        /\ c.viewing = None /\ (ui[b].viewing # None => c.peers = {})
        /\ c.peers \subseteq ui[b].peers
    BY <1>3 DEF Unwatched, Controller
  <1>5. /\ w \in Seq(Sent(b))
        /\ \A t, s : Msg(t, s) \in Msgs(w) <=> t = "leave" /\ s = ui[b].viewing /\ s # None
    <2>1. k.viewing \in Streams \cup {None}
      BY <1>3, ControllerFields
    <2> QED BY <1>3, <2>1, Leaving
  <1> HIDE DEF c, w, m
  <1>6. Moves(b, {m}, w) /\ ui'[b] = c /\ stray'[b] = stray[b]
    BY <1>0, <1>2, <1>4, <1>5, TakingMove DEF m
  <1>7. ShareStep(b, {m}, Msgs(w)) /\ PendingStep(b, {m}, Msgs(w)) /\ StartStep(b, Msgs(w))
    BY <1>1, <1>4, <1>5, <1>6, ControllerFields DEF ShareStep, PendingStep, StartStep, ResetMsg
  <1>8. ViewStep(b, {m}, Msgs(w)) /\ PeerStep(b, {m})
    BY <1>1, <1>4, <1>5, <1>6, ControllerFields DEF ViewStep, PeerStep, ResetMsg
  <1> QED BY <1>6, <1>7, <1>8, BrowserMove

LEMMA ResetStays ==
    ASSUME IInv, NEW b \in Browsers, Taking(b, ResetMsg), Reset(b)
    PROVE  IInv'
  <1>1. /\ Asleep \in Controller(b) /\ Asleep.active = None /\ Asleep.pending = None
        /\ Asleep.viewing = None /\ Asleep.peers = {}
    BY DEF Asleep, Controller
  <1>2. Becomes(b, Asleep) /\ UNCHANGED up
    BY DEF Reset
  <1>3. StrayAt(b)
    BY DEF Reset, StrayAt, IInv, Typed
  <1>4. Moves(b, {ResetMsg}, <<>>) /\ ui'[b] = Asleep
    BY <1>1, <1>2, <1>3, TakingQuietly
  <1>5. /\ \A t, r : Msg(t, r) = ResetMsg => t = "reset"
        /\ ResetMsg \in {ResetMsg}
    BY Distinct DEF ResetMsg
  <1>6. ShareStep(b, {ResetMsg}, {}) /\ PendingStep(b, {ResetMsg}, {}) /\ StartStep(b, {})
    BY <1>1, <1>4, <1>5, Names DEF ShareStep, PendingStep, StartStep
  <1>7. ViewStep(b, {ResetMsg}, {}) /\ PeerStep(b, {ResetMsg})
    BY <1>1, <1>4, <1>5, Names DEF ViewStep, PeerStep
  <1> QED BY <1>4, <1>6, <1>7, QuietMove

LEMMA ReceiveStays ==
    ASSUME IInv, NEW b \in Browsers, Receive(b)
    PROVE  IInv'
  <1>1. PICK m \in Told(b) : m = Head(down[b])
    <2>1. down[b] \in Seq(Told(b)) /\ down[b] # <<>>
      BY DEF Receive, IInv, Typed
    <2> QED BY <2>1, TakingHead
  <1>2. Taking(b, m)
    BY <1>1 DEF Receive, Taking
  <1>3. CASE \/ m.type = "list" /\ ListReplaced(b, m.cards)
             \/ m.type = "started" /\ StartedByOther(b, m.stream)
             \/ m.type = "connected" /\ Connected(b)
    BY <1>1, <1>2, <1>3, CardsStay
  <1>4. CASE m.type = "confirmed" /\ Confirmed(b, m.stream)
    BY <1>1, <1>2, <1>4, ToldOf, ConfirmedStays
  <1>5. CASE m.type = "stopped" /\ Stopped(b, m.stream)
    BY <1>1, <1>2, <1>5, ToldOf, StoppedStays
  <1>6. CASE m.type = "joined" /\ Joined(b, m.stream)
    BY <1>1, <1>2, <1>6, ToldOf, JoinedStays
  <1>7. CASE m.type = "left" /\ Left(b, m.stream)
    BY <1>1, <1>2, <1>7, ToldOf, LeftStays
  <1>8. CASE m.type = "viewerLeft" /\ ViewerLeft(b, m.peer)
    BY <1>1, <1>2, <1>8, ToldOf, ViewerLeftStays
  <1>9. CASE m.type = "signal" /\ Offered(b, m.stream, m.peer)
    BY <1>1, <1>2, <1>9, ToldOf, OfferedStays
  <1>10. CASE m.type = "close" /\ Closed(b, m.stream, m.peer)
    BY <1>1, <1>2, <1>10, ToldOf, ClosedStays
  <1>11. CASE m.type = "error" /\ Failed(b)
    BY <1>1, <1>2, <1>11, ToldOf, FailedStays
  <1>12. CASE m.type = "reset" /\ Reset(b)
    BY <1>1, <1>2, <1>12, ToldOf, ResetStays
  <1> QED BY <1>1, <1>3, <1>4, <1>5, <1>6, <1>7, <1>8, <1>9, <1>10, <1>11, <1>12 DEF Receive

-----------------------------------------------------------------------------
(* Steps of the gateway. *)

\* What N tells agrees with what becomes of the shares and their viewers.
Sound(N) ==
    /\ \A s \in Streams :
          /\ watchers'[s] \subseteq ready'
          /\ s \notin shares' \cup Natives => watchers'[s] = {}
    /\ \A c \in Browsers : \A s \in Own(c) :
          /\ s \in shares' => c \in ready'
          /\ c \notin watchers'[s]
    /\ \A c \in Browsers : \A s \in Shares :
          Msg("stopped", s) \in N[c] => s \in shares /\ s \notin shares'
    /\ \A s \in shares' \ shares : \A c \in Browsers : Msg("stopped", s) \notin Msgs(down[c])

LEMMA SoundStays ==
    ASSUME GatewayInv, shares' \subseteq Shares, NEW N, Sound(N),
           \A c \in Browsers : Msgs(down'[c]) \subseteq Msgs(down[c]) \cup N[c]
    PROVE  /\ GatewayInv'
           /\ \A b \in Browsers : \A c \in Browsers : \A s \in Own(b) :
                 Msg("stopped", s) \in Msgs(down'[c]) => Msg("stopped", s) \in Msgs(down[c]) \/ s \in shares
  <1>1. ASSUME NEW s \in shares', NEW c \in Browsers, Msg("stopped", s) \in Msgs(down'[c]) PROVE FALSE
    <2>1. s \in Shares
      BY <1>1
    <2>2. Msg("stopped", s) \in Msgs(down[c]) \/ Msg("stopped", s) \in N[c]
      BY <1>1
    <2> QED BY <1>1, <2>1, <2>2 DEF Sound, GatewayInv
  <1>2. GatewayInv'
    BY <1>1 DEF Sound, GatewayInv
  <1>3. ASSUME NEW b \in Browsers, NEW c \in Browsers, NEW s \in Own(b),
               Msg("stopped", s) \in Msgs(down'[c])
        PROVE  Msg("stopped", s) \in Msgs(down[c]) \/ s \in shares
    <2>1. s \in Shares
      BY Names
    <2>2. Msg("stopped", s) \in Msgs(down[c]) \/ Msg("stopped", s) \in N[c]
      BY <1>3
    <2> QED BY <2>1, <2>2 DEF Sound
  <1> QED BY <1>2, <1>3

LEMMA EndStays ==
    ASSUME IInv, NEW b \in Browsers, NEW N, GatewayStep(b, N),
           \A c \in Browsers : \A s \in Own(b) :
              Msg("stopped", s) \in Msgs(down'[c]) => Msg("stopped", s) \in Msgs(down[c]) \/ s \in shares
    PROVE  EndInv(b)'
  <1>1. EndInv(b) /\ ui[b] \in Controller(b)
    BY DEF IInv, Typed
  <1>2. StartInv(b)'
    BY <1>1, GatewayKeepsStarts DEF EndInv
  <1>3. ShareInv(b)'
    BY <1>1, GatewayKeepsShares DEF EndInv
  <1>4. PendingInv(b)'
    BY <1>1, GatewayKeepsPending DEF EndInv
  <1>5. ViewInv(b)'
    BY <1>1, GatewayKeepsViews DEF EndInv
  <1>6. PeerInv(b)'
    BY <1>1, GatewayKeepsPeers DEF EndInv
  <1> QED BY <1>2, <1>3, <1>4, <1>5, <1>6 DEF EndInv

\* The gateway sends N, and takes messages of browsers at most.
Serves(N) ==
    /\ UNCHANGED ui
    /\ Queues(down') /\ Grown(down, down', N)
    /\ DOMAIN up' = Browsers
    /\ \A c \in Browsers :
          /\ up'[c] \in Seq(Sent(c)) /\ Msgs(up'[c]) \subseteq Msgs(up[c])
          /\ \A m : Once(up[c], m) => Once(up'[c], m)
          /\ stray[c] \subseteq stray'[c]
    /\ stray' \in [Browsers -> SUBSET Streams]
    /\ ready' \subseteq Browsers /\ shares' \subseteq Shares
    /\ watchers' \in [Streams -> SUBSET Browsers]

LEMMA GatewayMove ==
    ASSUME IInv, NEW N, Serves(N), Sound(N),
           \A c \in Browsers :
              OwnSharesStep(c, N[c]) /\ OwnViewsStep(c, N[c]) /\ OwnViewersStep(c, N[c])
    PROVE  IInv'
  <1>1. Typed'
    BY DEF Serves, Queues, IInv, Typed
  <1>2. \A c \in Browsers : Msgs(down'[c]) \subseteq Msgs(down[c]) \cup N[c]
    BY DEF Serves, Grown, Extended
  <1>3. /\ GatewayInv'
        /\ \A b \in Browsers : \A c \in Browsers : \A s \in Own(b) :
              Msg("stopped", s) \in Msgs(down'[c]) => Msg("stopped", s) \in Msgs(down[c]) \/ s \in shares
    BY <1>2, SoundStays DEF IInv, Serves
  <1>4. ASSUME NEW c \in Browsers PROVE EndInv(c)'
    <2>1. GatewayStep(c, N[c])
      BY DEF Serves, Grown, GatewayStep
    <2> QED BY <1>3, <2>1, EndStays
  <1> QED BY <1>1, <1>3, <1>4 DEF IInv

\* The shares and their viewers stay: N is then nothing but answers.
LEMMA TellingMove ==
    ASSUME IInv, NEW N, Serves(N), UNCHANGED <<shares, watchers>>, ready \subseteq ready',
           \A c \in Browsers : \A s :
              /\ Msg("confirmed", s) \notin N[c] /\ Msg("stopped", s) \notin N[c]
              /\ Msg("joined", s) \notin N[c]
              /\ \A x : s \in Own(c) /\ About("signal", s, x) \in N[c] => x \in watchers[s],
           \A c \in Browsers : ResetMsg \in N[c] => c \notin ready,
           \A c \in Browsers : \A s \in Streams :
              /\ Msg("start", s) \in Msgs(up[c]) =>
                    Msg("start", s) \in Msgs(up'[c]) \/ ErrorMsg \in N[c] \/ s \in stray'[c]
              /\ Msg("stop", s) \in Msgs(up[c]) => Msg("stop", s) \in Msgs(up'[c]) \/ s \notin shares
              /\ Msg("leave", s) \in Msgs(up[c]) => Msg("leave", s) \in Msgs(up'[c]) \/ c \notin watchers[s]
    PROVE  IInv'
  <1>0. GatewayInv /\ shares' = shares /\ watchers' = watchers
    BY DEF IInv
  <1>1. Sound(N)
    BY <1>0 DEF Sound, GatewayInv
  <1>2. ASSUME NEW c \in Browsers
        PROVE  OwnSharesStep(c, N[c]) /\ OwnViewsStep(c, N[c]) /\ OwnViewersStep(c, N[c])
    <2>1. \A s \in Own(c) : s \in Streams
      BY Names
    <2>2. OwnSharesStep(c, N[c])
      BY <1>0, <2>1 DEF OwnSharesStep, GatewayInv
    <2>3. OwnViewsStep(c, N[c])
      BY <1>0 DEF OwnViewsStep, GatewayInv
    <2>4. OwnViewersStep(c, N[c])
      BY <1>0 DEF OwnViewersStep
    <2> QED BY <2>2, <2>3, <2>4
  <1> QED BY <1>1, <1>2, GatewayMove

-----------------------------------------------------------------------------
(* The gateway handles a message of a browser. *)

Handling(b, m) ==
    /\ up[b] # <<>> /\ m = Head(up[b])
    /\ up' = [up EXCEPT ![b] = Tail(@)]
    /\ UNCHANGED <<ui, ready>>

LEMMA HandlingUp ==
    ASSUME IInv, NEW b \in Browsers, NEW m, Handling(b, m)
    PROVE  /\ m \in Sent(b) /\ m \in Msgs(up[b])
           /\ DOMAIN up' = Browsers
           /\ \A c \in Browsers :
                 /\ up'[c] \in Seq(Sent(c)) /\ Msgs(up'[c]) \subseteq Msgs(up[c])
                 /\ \A n : Once(up[c], n) => Once(up'[c], n)
                 /\ \A n \in Msgs(up[c]) : n \in Msgs(up'[c]) \/ (c = b /\ n = m)
           /\ Once(up[b], m) => m \notin Msgs(up'[b])
  <1>1. up[b] \in Seq(Sent(b)) /\ up[b] # <<>> /\ m = Head(up[b])
    BY DEF Handling, IInv, Typed
  <1>2. m \in Sent(b) /\ up'[b] = Tail(up[b]) /\ up'[b] \in Seq(Sent(b)) /\ Taken(up[b], up'[b], {m})
    BY <1>1, TakingHead DEF Handling, IInv, Typed
  <1>3. /\ Msgs(up[b]) = {m} \cup Msgs(up'[b])
        /\ \A n : Once(up[b], n) => Once(up'[b], n)
        /\ Once(up[b], m) => m \notin Msgs(up'[b])
    BY <1>2 DEF Taken
  <1>4. DOMAIN up' = Browsers /\ \A c \in Browsers : c # b => up'[c] = up[c]
    BY DEF Handling, IInv, Typed
  <1> QED BY <1>2, <1>3, <1>4 DEF IInv, Typed

LEMMA HandlingKeeps ==
    ASSUME IInv, NEW b \in Browsers, NEW m, Handling(b, m)
    PROVE  \A c \in Browsers : \A t, s :
              Msg(t, s) \in Msgs(up[c]) =>
                 Msg(t, s) \in Msgs(up'[c]) \/ (c = b /\ m.type = t /\ m.stream = s)
  <1>1. \A t, s : Msg(t, s) = m => m.type = t /\ m.stream = s
    BY Messages
  <1>2. \A c \in Browsers : \A n \in Msgs(up[c]) : n \in Msgs(up'[c]) \/ (c = b /\ n = m)
    BY HandlingUp
  <1> QED BY <1>1, <1>2

LEMMA HandlingServes ==
    ASSUME IInv, NEW b \in Browsers, NEW m, Handling(b, m), NEW N,
           Queues(down') /\ Grown(down, down', N),
           StrayAt(b), stray[b] \subseteq stray'[b],
           shares' \subseteq Shares, watchers' \in [Streams -> SUBSET Browsers]
    PROVE  Serves(N)
  <1>1. \A c \in Browsers : stray[c] \subseteq stray'[c]
    BY DEF StrayAt
  <1> QED BY <1>1, HandlingUp DEF Serves, Handling, StrayAt, IInv, Typed

LEMMA QueuesDown ==
    ASSUME IInv
    PROVE  Queues(down) /\ Grown(down, down, To({}, {}))
  <1>1. \A c \in Browsers : To({}, {})[c] = {}
    BY DEF To
  <1> QED BY <1>1, NothingAdded DEF Queues, Grown, IInv, Typed

\* A message is answered to its browser alone, or to nobody.
LEMMA AnsweredStays ==
    ASSUME IInv, NEW b \in Browsers, NEW m, Handling(b, m), UNCHANGED <<shares, watchers>>,
           NEW S, NEW n, down' = Tell(down, S, n), \A c \in S \cap Browsers : n \in Told(c),
           n.type \in {"list", "error", "signal"},
           \A c \in S \cap Browsers : \A s \in Own(c) : \A x : n = About("signal", s, x) => x \in watchers[s],
           StrayAt(b), stray[b] \subseteq stray'[b],
           m.type = "start" => m.stream \in stray'[b] \/ (b \in S /\ n = ErrorMsg),
           m.type = "stop" => m.stream \notin shares,
           m.type = "leave" => b \notin watchers[m.stream]
    PROVE  IInv'
  <1>1. PICK N : N = To(S, {n})
    OBVIOUS
  <1>2. \A c \in Browsers : N[c] = IF c \in S THEN {n} ELSE {}
    BY <1>1 DEF To
  <1>3. Queues(down') /\ Grown(down, down', N)
    BY <1>1, QueuesDown, TellGrows
  <1>4. Serves(N)
    BY <1>3, HandlingServes DEF IInv, Typed
  <1>5. /\ \A t, s : Msg(t, s) = n => t \in {"list", "error", "signal"}
        /\ n # ResetMsg
    BY Messages DEF ResetMsg
  <1>6. /\ \A c \in Browsers : \A s :
              /\ Msg("confirmed", s) \notin N[c] /\ Msg("stopped", s) \notin N[c]
              /\ Msg("joined", s) \notin N[c]
              /\ \A x : s \in Own(c) /\ About("signal", s, x) \in N[c] => x \in watchers[s]
        /\ \A c \in Browsers : ResetMsg \in N[c] => c \notin ready
    BY <1>2, <1>5
  <1>7. \A c \in Browsers : \A s \in Streams :
           /\ Msg("start", s) \in Msgs(up[c]) =>
                 Msg("start", s) \in Msgs(up'[c]) \/ ErrorMsg \in N[c] \/ s \in stray'[c]
           /\ Msg("stop", s) \in Msgs(up[c]) => Msg("stop", s) \in Msgs(up'[c]) \/ s \notin shares
           /\ Msg("leave", s) \in Msgs(up[c]) => Msg("leave", s) \in Msgs(up'[c]) \/ c \notin watchers[s]
    BY <1>2, HandlingKeeps
  <1> QED BY <1>4, <1>6, <1>7, TellingMove DEF Handling

LEMMA UnansweredStays ==
    ASSUME IInv, NEW b \in Browsers, NEW m, Handling(b, m), UNCHANGED <<shares, watchers, down>>,
           StrayAt(b), stray[b] \subseteq stray'[b],
           m.type = "start" => m.stream \in stray'[b],
           m.type = "stop" => m.stream \notin shares,
           m.type = "leave" => b \notin watchers[m.stream]
    PROVE  IInv'
  <1>1. PICK N : N = To({}, {})
    OBVIOUS
  <1>2. \A c \in Browsers : N[c] = {}
    BY <1>1 DEF To
  <1>3. Queues(down') /\ Grown(down, down', N)
    BY <1>1, QueuesDown
  <1>4. Serves(N)
    BY <1>3, HandlingServes DEF IInv, Typed
  <1>5. \A c \in Browsers : \A s \in Streams :
           /\ Msg("start", s) \in Msgs(up[c]) =>
                 Msg("start", s) \in Msgs(up'[c]) \/ ErrorMsg \in N[c] \/ s \in stray'[c]
           /\ Msg("stop", s) \in Msgs(up[c]) => Msg("stop", s) \in Msgs(up'[c]) \/ s \notin shares
           /\ Msg("leave", s) \in Msgs(up[c]) => Msg("leave", s) \in Msgs(up'[c]) \/ c \notin watchers[s]
    BY <1>2, HandlingKeeps
  <1> QED BY <1>2, <1>4, <1>5, TellingMove DEF Handling

LEMMA ErrorStays ==
    ASSUME IInv, NEW b \in Browsers, NEW m, Handling(b, m), UNCHANGED <<shares, watchers, stray>>,
           down' = Error(b),
           m.type = "stop" => m.stream \notin shares,
           m.type = "leave" => b \notin watchers[m.stream]
    PROVE  IInv'
  <1>1. /\ down' = Tell(down, {b}, ErrorMsg) /\ ErrorMsg \in Told(b) /\ ErrorMsg.type = "error"
        /\ \A s, x : ErrorMsg # About("signal", s, x)
    BY Messages DEF Error, ErrorMsg, Told
  <1>2. StrayAt(b) /\ stray[b] \subseteq stray'[b]
    BY StrayStays
  <1> QED BY <1>1, <1>2, AnsweredStays

LEMMA NotReadyStays ==
    ASSUME IInv, NEW b \in Browsers, NEW m, Handling(b, m), b \notin ready, NotReady(b, m)
    PROVE  IInv'
  <1>1. m \in Sent(b) /\ Own(b) \subseteq Streams
    BY HandlingUp, Names
  <1>2. /\ StrayAt(b) /\ stray[b] \subseteq stray'[b]
        /\ m.type = "start" => m.stream \in stray'[b]
    <2>1. m.type = "start" => m.stream \in Streams
      BY <1>1, SentOf
    <2> QED BY <2>1 DEF NotReady, StrayAt, IInv, Typed
  <1>3. m.type = "stop" => m.stream \notin shares
    BY <1>1, SentOf DEF IInv, GatewayInv
  <1>4. m.type = "leave" => b \notin watchers[m.stream]
    BY <1>1, SentOf DEF IInv, GatewayInv
  <1> QED BY <1>2, <1>3, <1>4, UnansweredStays DEF NotReady

LEMMA ListedStays ==
    ASSUME IInv, NEW b \in Browsers, NEW m, Handling(b, m), m.type = "list",
           down' = Tell(down, {b}, List(shares \cup Natives)), UNCHANGED <<shares, watchers, stray>>
    PROVE  IInv'
  <1>1. shares \cup Natives \in SUBSET Streams
    BY Names DEF IInv, Typed
  <1>2. /\ List(shares \cup Natives) \in Told(b) /\ List(shares \cup Natives).type = "list"
        /\ \A s, x : List(shares \cup Natives) # About("signal", s, x)
    BY <1>1, Messages DEF Told
  <1>3. StrayAt(b) /\ stray[b] \subseteq stray'[b]
    BY StrayStays
  <1> QED BY <1>2, <1>3, AnsweredStays

LEMMA StartStays ==
    ASSUME IInv, NEW b \in Browsers, NEW s \in Own(b), Handling(b, Msg("start", s)), b \in ready,
           Start(b, s)
    PROVE  IInv'
  <1> DEFINE m == Msg("start", s)
  <1>0. m.type = "start" /\ UNCHANGED <<watchers, stray>>
    BY Messages DEF Start
  <1>1. CASE OwnShares(b) # {}
    <2>1. down' = Error(b) /\ UNCHANGED <<shares, watchers, stray>>
      BY <1>1 DEF Start
    <2> QED BY <1>0, <2>1, ErrorStays
  <1>2. CASE OwnShares(b) = {}
    <2>1. PICK N : N = And(To({b}, {Msg("confirmed", s)}), To(ready \ {b}, {Msg("started", s)}))
      OBVIOUS
    <2>2. \A c \in Browsers : N[c] = IF c = b THEN {Msg("confirmed", s)}
                                     ELSE IF c \in ready THEN {Msg("started", s)} ELSE {}
      BY <2>1 DEF And, To
    <2>3. Queues(down') /\ Grown(down, down', N)
      <3>1. PICK q : q = Tell(down, {b}, Msg("confirmed", s))
        OBVIOUS
      <3>2. Msg("confirmed", s) \in Told(b) /\ \A c \in Browsers : Msg("started", s) \in Told(c)
        BY Names DEF Told
      <3>3. Queues(q) /\ Grown(down, q, To({b}, {Msg("confirmed", s)}))
        BY <3>1, <3>2, QueuesDown, TellGrows
      <3>4. /\ Queues(Tell(q, ready \ {b}, Msg("started", s)))
            /\ Grown(q, Tell(q, ready \ {b}, Msg("started", s)), To(ready \ {b}, {Msg("started", s)}))
        BY <3>2, <3>3, TellGrows
      <3>5. down' = Tell(q, ready \ {b}, Msg("started", s))
        BY <1>2, <3>1 DEF Start
      <3> QED BY <2>1, <3>3, <3>4, <3>5, GrownTwice
    <2>4. shares' = shares \cup {s} /\ watchers' = watchers /\ ready' = ready /\ s \in Shares
      BY <1>2, Names DEF Start, Handling
    <2>5. Serves(N)
      BY <1>0, <2>3, <2>4, StrayStays, HandlingServes DEF IInv, Typed
    <2>6. /\ \A c \in Browsers : Msg("stopped", s) \notin Msgs(down[c])
          /\ m \notin Msgs(up'[b]) /\ s \notin shares
      BY HandlingUp DEF IInv, EndInv, StartInv
    <2>7. \A c \in Browsers : \A t, r :
             /\ Msg(t, r) \in N[c] => r = s /\ ((t = "confirmed" /\ c = b) \/ t = "started")
             /\ \A x : About(t, r, x) \in N[c] => t \in {"confirmed", "started"}
      BY <2>2, Distinct
    <2>8. \A c \in Browsers : ResetMsg \notin N[c]
      BY <2>7 DEF ResetMsg
    <2>9. Sound(N)
      BY <2>4, <2>6, <2>7, Names DEF Sound, IInv, GatewayInv
    <2>10. ASSUME NEW c \in Browsers
           PROVE  OwnSharesStep(c, N[c]) /\ OwnViewsStep(c, N[c]) /\ OwnViewersStep(c, N[c])
      <3>1. OwnSharesStep(c, N[c])
        <4>1. \A r \in Own(c) : r = s => c = b
          BY Names
        <4>2. Msg("confirmed", s) \in N[b]
          BY <2>2
        <4>3. \A t, r : Msg(t, r) \in Msgs(up[c]) => Msg(t, r) \in Msgs(up'[c]) \/ (c = b /\ t = "start" /\ r = s)
          BY HandlingKeeps, Messages
        <4>4. \A t, r : Msg(t, r) \in Msgs(up'[c]) => Msg(t, r) \in Msgs(up[c])
          BY HandlingUp
        <4>5. \A r \in Own(c) : Msg("start", r) \in Msgs(up'[c]) => r \notin shares'
          BY <2>4, <2>6, <4>1, <4>4 DEF IInv, EndInv, StartInv
        <4> QED BY <2>4, <2>6, <2>7, <2>8, <4>1, <4>2, <4>3, <4>5 DEF OwnSharesStep
      <3>2. OwnViewsStep(c, N[c])
        <4>1. \A r : Msg("leave", r) \in Msgs(up[c]) => Msg("leave", r) \in Msgs(up'[c])
          BY <1>0, HandlingKeeps
        <4> QED BY <2>4, <2>7, <2>8, <4>1 DEF OwnViewsStep
      <3>3. OwnViewersStep(c, N[c])
        BY <2>4, <2>7 DEF OwnViewersStep
      <3> QED BY <3>1, <3>2, <3>3
    <2> QED BY <2>5, <2>9, <2>10, GatewayMove
  <1> QED BY <1>1, <1>2

LEMMA StopStreamStays ==
    ASSUME IInv, NEW b \in Browsers, NEW s \in Own(b), Handling(b, Msg("stop", s)), b \in ready,
           s \in shares \cup Natives, StopStream(s), UNCHANGED stray
    PROVE  IInv'
  <1>1. PICK N : N = To(ready, {Msg("stopped", s)})
    OBVIOUS
  <1>2. \A c \in Browsers : N[c] = IF c \in ready THEN {Msg("stopped", s)} ELSE {}
    BY <1>1 DEF To
  <1>3. Queues(down') /\ Grown(down, down', N)
    <2>1. \A c \in Browsers : Msg("stopped", s) \in Told(c)
      BY Names DEF Told
    <2> QED BY <1>1, <2>1, QueuesDown, TellGrows DEF StopStream
  <1>4. /\ shares' = shares \ {s} /\ ready' = ready /\ s \in Shares /\ s \in shares /\ s \in Streams
        /\ watchers' \in [Streams -> SUBSET Browsers] /\ watchers'[s] = {}
        /\ \A r \in Streams : r # s => watchers'[r] = watchers[r]
    BY Names DEF StopStream, Handling, IInv, Typed
  <1>5. Serves(N)
    BY <1>3, <1>4, StrayStays, HandlingServes DEF IInv, Typed
  <1>6. \A c \in Browsers : \A t, r :
           /\ Msg(t, r) \in N[c] => t = "stopped" /\ r = s
           /\ \A x : About(t, r, x) \in N[c] => t = "stopped"
    BY <1>2, Distinct
  <1>7. \A c \in Browsers : ResetMsg \notin N[c]
    BY <1>6 DEF ResetMsg
  <1>8. Sound(N)
    BY <1>4, <1>6, Names DEF Sound, IInv, GatewayInv
  <1>9. ASSUME NEW c \in Browsers
        PROVE  OwnSharesStep(c, N[c]) /\ OwnViewsStep(c, N[c]) /\ OwnViewersStep(c, N[c])
    <2>1. \A r \in Own(c) : r \in Streams /\ (r = s => c = b)
      BY Names
    <2>2. c \in ready => Msg("stopped", s) \in N[c]
      BY <1>2
    <2>3. \A t, r : /\ Msg(t, r) \in Msgs(up[c]) => Msg(t, r) \in Msgs(up'[c]) \/ (t = "stop" /\ r = s)
                    /\ Msg(t, r) \in Msgs(up'[c]) => Msg(t, r) \in Msgs(up[c])
      <3>1. Msg("stop", s).type = "stop" /\ Msg("stop", s).stream = s
        BY Messages
      <3>2. Msgs(up'[c]) \subseteq Msgs(up[c])
        BY HandlingUp
      <3> QED BY <3>1, <3>2, HandlingKeeps
    <2>4. Msg("stop", s) \in Msgs(up[b])
      BY HandlingUp
    <2>5. OwnSharesStep(c, N[c])
      BY <1>4, <1>6, <1>7, <2>1, <2>2, <2>3, <2>4 DEF OwnSharesStep, IInv, GatewayInv
    <2>6. OwnViewsStep(c, N[c])
      BY <1>4, <1>6, <1>7, <2>2, <2>3 DEF OwnViewsStep, IInv, GatewayInv
    <2>7. OwnViewersStep(c, N[c])
      BY <1>4, <1>6, <2>1, <2>2 DEF OwnViewersStep, IInv, GatewayInv
    <2> QED BY <2>5, <2>6, <2>7
  <1> QED BY <1>5, <1>8, <1>9, GatewayMove

LEMMA JoinStreamStays ==
    ASSUME IInv, NEW b \in Browsers, NEW s \in Streams, Handling(b, Msg("join", s)), b \in ready,
           s \in shares \cup Natives, JoinStream(b, s)
    PROVE  IInv'
  <1>0. UNCHANGED <<shares, stray>> /\ Msg("join", s).type = "join"
    BY Messages DEF JoinStream
  <1>1. CASE s \in OwnShares(b)
    <2>1. down' = Error(b) /\ UNCHANGED watchers
      BY <1>1 DEF JoinStream
    <2> QED BY <1>0, <2>1, ErrorStays
  <1>2. CASE s \notin OwnShares(b)
    <2>1. PICK N : N = To({b}, {Msg("joined", s)})
      OBVIOUS
    <2>2. \A c \in Browsers : N[c] = IF c = b THEN {Msg("joined", s)} ELSE {}
      BY <2>1 DEF To
    <2>3. s \notin Own(b)
      BY <1>2, Names DEF OwnShares
    <2>4. Queues(down') /\ Grown(down, down', N)
      <3>1. Msg("joined", s) \in Told(b)
        BY <2>3 DEF Told
      <3>2. down' = Tell(down, {b}, Msg("joined", s))
        BY <1>2 DEF JoinStream
      <3> QED BY <2>1, <3>1, <3>2, QueuesDown, TellGrows
    <2>5. /\ shares' = shares /\ ready' = ready
          /\ watchers' \in [Streams -> SUBSET Browsers] /\ watchers'[s] = watchers[s] \cup {b}
          /\ \A r \in Streams : r # s => watchers'[r] = watchers[r]
      BY <1>0, <1>2 DEF JoinStream, Handling, IInv, Typed
    <2>6. Serves(N)
      BY <1>0, <2>4, <2>5, StrayStays, HandlingServes DEF IInv, Typed
    <2>7. \A c \in Browsers : \A t, r :
             /\ Msg(t, r) \in N[c] => t = "joined" /\ r = s /\ c = b
             /\ \A x : About(t, r, x) \in N[c] => t = "joined"
      BY <2>2, Distinct
    <2>8. \A c \in Browsers : ResetMsg \notin N[c]
      BY <2>7 DEF ResetMsg
    <2>9. Sound(N)
      <3>1. \A c \in Browsers : \A r \in Own(c) : r \in Streams /\ (r = s => c # b)
        BY <2>3, Names
      <3>2. GatewayInv
        BY DEF IInv
      <3>3. \A r \in Streams : watchers'[r] \subseteq ready' /\ (r \notin shares' \cup Natives => watchers'[r] = {})
        BY <2>5, <3>2 DEF GatewayInv
      <3>4. \A c \in Browsers : \A r \in Own(c) : (r \in shares' => c \in ready') /\ c \notin watchers'[r]
        BY <2>5, <3>1, <3>2 DEF GatewayInv
      <3> QED BY <2>5, <2>7, <3>3, <3>4 DEF Sound
    <2>10. ASSUME NEW c \in Browsers
           PROVE  OwnSharesStep(c, N[c]) /\ OwnViewsStep(c, N[c]) /\ OwnViewersStep(c, N[c])
      <3>1. \A r \in Own(c) : r \in Streams
        BY Names
      <3>2. Msg("joined", s) \in N[b]
        BY <2>2
      <3>3. \A t, r : t # "join" =>
               /\ Msg(t, r) \in Msgs(up[c]) => Msg(t, r) \in Msgs(up'[c])
        BY HandlingKeeps, <1>0
      <3>4. OwnSharesStep(c, N[c])
        BY <2>5, <2>7, <2>8, <3>3 DEF OwnSharesStep, IInv, GatewayInv
      <3>5. OwnViewsStep(c, N[c])
        BY <2>5, <2>7, <2>8, <3>2, <3>3 DEF OwnViewsStep
      <3>6. OwnViewersStep(c, N[c])
        <4>1. \A r \in Own(c) : watchers[r] \subseteq watchers'[r]
          BY <2>5, <3>1
        <4>2. \A r, x : About("signal", r, x) \notin N[c]
          BY <2>7
        <4> QED BY <4>1, <4>2 DEF OwnViewersStep
      <3> QED BY <3>4, <3>5, <3>6
    <2> QED BY <2>6, <2>9, <2>10, GatewayMove
  <1> QED BY <1>1, <1>2

LEMMA Undelivered ==
    ASSUME IInv, NEW b \in Browsers, NEW m, Handling(b, m), UNCHANGED <<shares, watchers, down, stray>>,
           m.type \notin {"start", "stop"}, m.type = "leave" => b \notin watchers[m.stream]
    PROVE  IInv'
  <1>1. StrayAt(b) /\ stray[b] \subseteq stray'[b]
    BY StrayStays
  <1> QED BY <1>1, UnansweredStays

LeaveTells(b, s, N) ==
    /\ \A c \in Browsers : StepNews(FALSE, b, s)[c] \subseteq N[c]
    /\ \A c \in Browsers : \A t, r : Msg(t, r) \in N[c] => t \in {"left", "viewerLeft", "error"}
    /\ \A c \in Browsers : \A r, x : About("signal", r, x) \notin N[c]

LeaveTakes(b, s) ==
    \A c \in Browsers : \A r :
       /\ Msg("start", r) \in Msgs(up'[c]) <=> Msg("start", r) \in Msgs(up[c])
       /\ Msg("stop", r) \in Msgs(up[c]) => Msg("stop", r) \in Msgs(up'[c])
       /\ Msg("leave", r) \in Msgs(up[c]) => Msg("leave", r) \in Msgs(up'[c]) \/ (c = b /\ r = s)

\* What leaving a stream does to both ends of a browser.
LEMMA LeavingSteps ==
    ASSUME IInv, NEW b \in Browsers, NEW s \in Streams, b \in watchers[s], NEW N,
           watchers' = [watchers EXCEPT ![s] = @ \ {b}], UNCHANGED <<shares, ready>>,
           LeaveTells(b, s, N), LeaveTakes(b, s)
    PROVE  /\ Sound(N)
           /\ \A c \in Browsers :
                 OwnSharesStep(c, N[c]) /\ OwnViewsStep(c, N[c]) /\ OwnViewersStep(c, N[c])
  <1>1. /\ shares' = shares /\ ready' = ready /\ watchers'[s] = watchers[s] \ {b}
        /\ \A r \in Streams : r # s => watchers'[r] = watchers[r]
    BY DEF IInv, Typed
  <1>2. \A c \in Browsers : ResetMsg \notin N[c]
    BY DEF ResetMsg, LeaveTells
  <1>3. \A c \in Browsers : \A r \in Own(c) : r \in Streams
    BY Names
  <1>4. Sound(N)
    BY <1>1, <1>3 DEF LeaveTells, Sound, IInv, GatewayInv
  <1>5. ASSUME NEW c \in Browsers
        PROVE  OwnSharesStep(c, N[c]) /\ OwnViewsStep(c, N[c]) /\ OwnViewersStep(c, N[c])
    <2>1. OwnSharesStep(c, N[c])
      BY <1>1, <1>2 DEF LeaveTells, LeaveTakes, OwnSharesStep, IInv, GatewayInv
    <2>2. c = b => Msg("left", s) \in N[c]
      BY DEF LeaveTells, StepNews, And, To
    <2>3. OwnViewsStep(c, N[c])
      BY <1>1, <1>2, <2>2 DEF LeaveTells, LeaveTakes, OwnViewsStep
    <2>4. s \in Own(c) => About("viewerLeft", s, b) \in N[c]
      <3>1. s \in Own(c) => s \notin Natives /\ s[1] = c
        BY Names
      <3> QED BY <3>1 DEF LeaveTells, StepNews, And, To
    <2>5. \A r, x : About("signal", r, x) \notin N[c]
      BY DEF LeaveTells
    <2>6. \A r \in Own(c) : \A x \in watchers[r] : x \in watchers'[r] \/ (r = s /\ x = b)
      BY <1>1, <1>3
    <2>7. OwnViewersStep(c, N[c])
      BY <2>4, <2>5, <2>6 DEF OwnViewersStep
    <2> QED BY <2>1, <2>3, <2>7
  <1> QED BY <1>4, <1>5

LEMMA LeaveNews ==
    ASSUME NEW b, NEW s, NEW c \in Browsers, NEW m \in StepNews(FALSE, b, s)[c]
    PROVE  \/ m = Msg("left", s) /\ c = b
           \/ m = About("viewerLeft", s, b) /\ s \notin Natives /\ c = s[1]
  BY DEF StepNews, And, To

LEMMA LeaveStreamStays ==
    ASSUME IInv, NEW b \in Browsers, NEW s \in Streams, Handling(b, Msg("leave", s)),
           LeaveStream(b, s), UNCHANGED <<shares, stray>>
    PROVE  IInv'
  <1>0. Msg("leave", s).type = "leave" /\ Msg("leave", s).stream = s
    BY Messages
  <1>1. CASE b \notin watchers[s]
    <2>1. UNCHANGED <<watchers, down>>
      BY <1>1 DEF LeaveStream
    <2> QED BY <1>0, <1>1, <2>1, Undelivered
  <1>2. CASE b \in watchers[s]
    <2>1. PICK N : N = StepNews(FALSE, b, s)
      OBVIOUS
    <2>2. watchers' = [watchers EXCEPT ![s] = @ \ {b}] /\ down' = LeaveTold(down, b, s)
      BY <1>2 DEF LeaveStream
    <2>3. Queues(down') /\ Grown(down, down', N)
      BY <2>1, <2>2, QueuesDown, LeaveGrows
    <2>4. watchers' \in [Streams -> SUBSET Browsers]
      BY <2>2 DEF IInv, Typed
    <2>5. Serves(N)
      BY <2>3, <2>4, StrayStays, HandlingServes DEF IInv, Typed
    <2>6. /\ \A c \in Browsers : \A t, r : Msg(t, r) \in N[c] => t \in {"left", "viewerLeft", "error"}
          /\ \A c \in Browsers : \A r, x : About("signal", r, x) \notin N[c]
      <3>1. \A c \in Browsers : \A m \in N[c] : m = Msg("left", s) \/ m = About("viewerLeft", s, b)
        BY <2>1, LeaveNews
      <3> QED BY <3>1, Distinct
    <2>7. LeaveTakes(b, s)
      BY <1>0, HandlingKeeps, HandlingUp DEF LeaveTakes
    <2>8. UNCHANGED <<shares, ready>>
      BY DEF Handling
    <2>9. LeaveTells(b, s, N)
      BY <2>1, <2>6 DEF LeaveTells
    <2>10. /\ Sound(N)
           /\ \A c \in Browsers :
                 OwnSharesStep(c, N[c]) /\ OwnViewsStep(c, N[c]) /\ OwnViewersStep(c, N[c])
      BY <1>2, <2>2, <2>7, <2>8, <2>9, LeavingSteps
    <2> QED BY <2>5, <2>10, GatewayMove
  <1> QED BY <1>1, <1>2

LEMMA RelayStays ==
    ASSUME IInv, NEW b \in Browsers, NEW m, Handling(b, m), NEW s \in Streams, NEW x,
           \/ m.type = "offer" /\ RelayOffer(b, s)
           \/ m.type = "answer" /\ RelayAnswer(b, s, x)
    PROVE  IInv'
  <1>0. UNCHANGED <<shares, watchers, stray>> /\ StrayAt(b) /\ stray[b] \subseteq stray'[b]
    <2>1. UNCHANGED <<shares, watchers, stray>>
      BY DEF RelayOffer, RelayAnswer
    <2> QED BY <2>1, StrayStays
  <1>1. CASE down' = Error(b)
    BY <1>0, <1>1, ErrorStays
  <1>2. CASE down' = down
    BY <1>0, <1>2, Undelivered
  <1>3. CASE /\ m.type = "offer" /\ b \in watchers[s]
             /\ down' = Tell(down, {Owner(s)}, About("signal", s, b))
    <2>1. \A c \in {Owner(s)} \cap Browsers : s \in Own(c) /\ About("signal", s, b) \in Told(c)
      <3>1. \A c \in {Owner(s)} \cap Browsers : s \in Own(c)
        BY Names
      <3> QED BY <3>1 DEF Told
    <2>2. About("signal", s, b).type = "signal"
      BY Messages
    <2>3. \A c \in {Owner(s)} \cap Browsers : \A r \in Own(c) : \A y :
             About("signal", s, b) = About("signal", r, y) => y \in watchers[r]
      BY <1>3, Distinct
    <2> QED BY <1>0, <1>3, <2>1, <2>2, <2>3, AnsweredStays
  <1> QED BY <1>1, <1>2, <1>3 DEF RelayOffer, RelayAnswer

LEMMA HandleStays ==
    ASSUME IInv, NEW b \in Browsers, Handle(b)
    PROVE  IInv'
  <1>1. PICK m : m = Head(up[b])
    OBVIOUS
  <1>2. Handling(b, m)
    BY <1>1 DEF Handle, Handling
  <1>3. m \in Sent(b)
    BY <1>2, HandlingUp
  <1>4. CASE b \notin ready /\ NotReady(b, m)
    BY <1>2, <1>4, NotReadyStays
  <1>5. CASE /\ m.type = "list" /\ down' = Tell(down, {b}, List(shares \cup Natives))
             /\ UNCHANGED <<shares, watchers, stray>>
    BY <1>2, <1>5, ListedStays
  <1>6. CASE b \in ready /\ m.type = "start" /\ Start(b, m.stream)
    BY <1>2, <1>3, <1>6, SentOf, StartStays
  <1>7. CASE /\ m.type \notin {"list", "start"} /\ m.stream \notin shares \cup Natives
             /\ down' = Error(b) /\ UNCHANGED <<shares, watchers, stray>>
    <2>1. m.type = "leave" => b \notin watchers[m.stream]
      BY <1>3, <1>7, SentOf DEF IInv, GatewayInv
    <2> QED BY <1>2, <1>7, <2>1, ErrorStays
  <1>8. CASE /\ b \in ready /\ m.stream \in shares \cup Natives
             /\ m.type = "stop" /\ StopStream(m.stream) /\ UNCHANGED stray
    BY <1>2, <1>3, <1>8, SentOf, StopStreamStays
  <1>9. CASE /\ b \in ready /\ m.stream \in shares \cup Natives
             /\ m.type = "join" /\ JoinStream(b, m.stream)
    BY <1>2, <1>3, <1>9, SentOf, JoinStreamStays
  <1>10. CASE m.type = "leave" /\ LeaveStream(b, m.stream) /\ UNCHANGED <<shares, stray>>
    BY <1>2, <1>3, <1>10, SentOf, LeaveStreamStays
  <1>11. CASE \/ m.type = "offer" /\ RelayOffer(b, m.stream)
              \/ m.type = "answer" /\ RelayAnswer(b, m.stream, m.peer)
    BY <1>2, <1>3, <1>11, SentOf, RelayStays
  <1> QED BY <1>1, <1>4, <1>5, <1>6, <1>7, <1>8, <1>9, <1>10, <1>11 DEF Handle

-----------------------------------------------------------------------------
(* The connections of the gateway, and TeamSpeak behind it. *)

\* Something is sent to browser b while nothing else changes.
LEMMA ToldStays ==
    ASSUME IInv, NEW b \in Browsers, NEW n \in Told(b), down' = Tell(down, {b}, n),
           UNCHANGED <<ui, up, shares, watchers, stray>>,
           ready' \subseteq Browsers, ready \subseteq ready',
           n.type \in {"signal", "close", "connected", "reset"},
           \A s \in Own(b) : \A x : n # About("signal", s, x),
           n = ResetMsg => b \notin ready
    PROVE  IInv'
  <1>1. PICK N : N = To({b}, {n})
    OBVIOUS
  <1>2. \A c \in Browsers : N[c] = IF c = b THEN {n} ELSE {}
    BY <1>1 DEF To
  <1>3. Queues(down') /\ Grown(down, down', N)
    BY <1>1, QueuesDown, TellGrows
  <1>4. Serves(N)
    BY <1>3 DEF Serves, IInv, Typed
  <1>5. \A t, s : Msg(t, s) = n => t \in {"signal", "close", "connected", "reset"}
    BY Messages
  <1>6. /\ \A c \in Browsers : \A s :
              /\ Msg("confirmed", s) \notin N[c] /\ Msg("stopped", s) \notin N[c]
              /\ Msg("joined", s) \notin N[c]
              /\ \A x : s \in Own(c) /\ About("signal", s, x) \in N[c] => x \in watchers[s]
        /\ \A c \in Browsers : ResetMsg \in N[c] => c \notin ready
    BY <1>2, <1>5
  <1> QED BY <1>4, <1>6, TellingMove

LEMMA AttemptStays ==
    ASSUME IInv, NEW b \in Browsers, Attempt(b)
    PROVE  IInv'
  <1>1. ResetMsg \in Told(b) /\ ResetMsg.type = "reset" /\ \A s, x : ResetMsg # About("signal", s, x)
    BY Messages DEF Told, ResetMsg
  <1>2. /\ down' = Tell(down, {b}, ResetMsg) /\ UNCHANGED <<ui, up, ready, shares, watchers, stray>>
        /\ b \notin ready
    BY DEF Attempt, ResetMsg
  <1>3. ready' \subseteq Browsers /\ ready \subseteq ready'
    BY <1>2 DEF IInv, Typed
  <1> QED BY <1>1, <1>2, <1>3, ToldStays

LEMMA SessionReadyStays ==
    ASSUME IInv, NEW b \in Browsers, SessionReady(b)
    PROVE  IInv'
  <1>1. PICK n : n = Msg("connected", None)
    OBVIOUS
  <1>2. n \in Told(b) /\ n.type = "connected" /\ n # ResetMsg /\ \A s, x : n # About("signal", s, x)
    BY <1>1, Messages DEF Told, ResetMsg
  <1>3. /\ down' = Tell(down, {b}, n) /\ UNCHANGED <<ui, up, shares, watchers, stray>>
        /\ ready' \subseteq Browsers /\ ready \subseteq ready'
    BY <1>1 DEF SessionReady, IInv, Typed
  <1> QED BY <1>2, <1>3, ToldStays

LEMMA NativeAnswersStays ==
    ASSUME IInv, NEW b \in Browsers, NEW s \in Natives, NativeAnswers(b, s)
    PROVE  IInv'
  <1>1. PICK type \in {"signal", "close"} : down' = Tell(down, {b}, About(type, s, s))
    BY DEF NativeAnswers
  <1>2. PICK n : n = About(type, s, s)
    OBVIOUS
  <1>3. n \in Told(b) /\ n.type \in {"signal", "close"} /\ n # ResetMsg
    BY <1>2, Messages DEF Told, ResetMsg
  <1>4. \A r \in Own(b) : \A x : n # About("signal", r, x)
    BY <1>2, Distinct, Names
  <1> QED BY <1>1, <1>2, <1>3, <1>4, ToldStays DEF NativeAnswers, IInv, Typed

LEMMA NativeRefusesStays ==
    ASSUME IInv, NEW b \in Browsers, NEW s \in Natives, NativeRefuses(b, s)
    PROVE  IInv'
  <1>0. s \in Streams /\ b \in watchers[s]
    BY Names DEF NativeRefuses
  <1>1. PICK N : N = And(StepNews(FALSE, b, s), To({b}, {ErrorMsg}))
    OBVIOUS
  <1>2. PICK q : q = LeaveTold(down, b, s)
    OBVIOUS
  <1>3. Queues(q) /\ Grown(down, q, StepNews(FALSE, b, s))
    BY <1>0, <1>2, QueuesDown, LeaveGrows
  <1>4. Queues(Tell(q, {b}, ErrorMsg)) /\ Grown(q, Tell(q, {b}, ErrorMsg), To({b}, {ErrorMsg}))
    <2>1. ErrorMsg \in Told(b)
      BY DEF Told
    <2> QED BY <1>3, <2>1, TellGrows
  <1>5. down' = Tell(q, {b}, ErrorMsg)
    BY <1>2 DEF NativeRefuses, ErrorMsg
  <1>6. Queues(down') /\ Grown(down, down', N)
    BY <1>1, <1>3, <1>4, <1>5, GrownTwice
  <1>7. watchers' = [watchers EXCEPT ![s] = @ \ {b}] /\ UNCHANGED <<ui, up, ready, shares, stray>>
    BY DEF NativeRefuses
  <1>8. Serves(N)
    <2>1. watchers' \in [Streams -> SUBSET Browsers]
      BY <1>7 DEF IInv, Typed
    <2> QED BY <1>6, <1>7, <2>1 DEF Serves, IInv, Typed
  <1>9. /\ \A c \in Browsers : \A t, r : Msg(t, r) \in N[c] => t \in {"left", "viewerLeft", "error"}
        /\ \A c \in Browsers : \A r, x : About("signal", r, x) \notin N[c]
    <2>1. \A c \in Browsers : \A m \in N[c] :
             m = Msg("left", s) \/ m = About("viewerLeft", s, b) \/ m = Msg("error", None)
      BY <1>1, LeaveNews DEF And, To, ErrorMsg
    <2> QED BY <2>1, Distinct
  <1>10. LeaveTells(b, s, N) /\ LeaveTakes(b, s)
    BY <1>1, <1>7, <1>9 DEF And, LeaveTells, LeaveTakes
  <1>11. /\ Sound(N)
         /\ \A c \in Browsers :
               OwnSharesStep(c, N[c]) /\ OwnViewsStep(c, N[c]) /\ OwnViewersStep(c, N[c])
    BY <1>0, <1>7, <1>10, LeavingSteps
  <1> QED BY <1>8, <1>11, GatewayMove

LEMMA RemovalNewsOf ==
    ASSUME IInv, NEW b \in Browsers, NEW c \in Browsers
    PROVE  /\ \A m \in RemovalNews(b)[c] :
                 \/ \E s \in OwnShares(b) : m = Msg("stopped", s)
                 \/ c = b /\ \E s \in Watched(b) : m = Msg("left", s)
                 \/ \E s \in Watched(b) : m = About("viewerLeft", s, b)
           /\ \A s \in OwnShares(b) : c \in ready => Msg("stopped", s) \in RemovalNews(b)[c]
           /\ \A s \in Own(c) : s \in Watched(b) => About("viewerLeft", s, b) \in RemovalNews(b)[c]
  <1>1. /\ \A m \in RemovalNews(b)[c] :
              \/ \E s \in OwnShares(b) : m \in StepNews(TRUE, None, s)[c]
              \/ \E s \in Watched(b) : m \in StepNews(FALSE, b, s)[c]
        /\ \A s \in OwnShares(b) : StepNews(TRUE, None, s)[c] \subseteq RemovalNews(b)[c]
        /\ \A s \in Watched(b) : StepNews(FALSE, b, s)[c] \subseteq RemovalNews(b)[c]
    BY DEF RemovalNews, And, News
  <1>2. \A s : StepNews(TRUE, None, s)[c] = IF c \in ready THEN {Msg("stopped", s)} ELSE {}
    BY DEF StepNews, To
  <1>3. \A s : \A m \in StepNews(FALSE, b, s)[c] :
           (c = b /\ m = Msg("left", s)) \/ m = About("viewerLeft", s, b)
    BY LeaveNews
  <1>4. \A s \in Own(c) : About("viewerLeft", s, b) \in StepNews(FALSE, b, s)[c]
    <2>1. \A s \in Own(c) : s \notin Natives /\ s[1] = c
      BY Names
    <2> QED BY <2>1 DEF StepNews, And, To
  <1>5. ASSUME NEW m \in RemovalNews(b)[c]
        PROVE  \/ \E s \in OwnShares(b) : m = Msg("stopped", s)
               \/ c = b /\ \E s \in Watched(b) : m = Msg("left", s)
               \/ \E s \in Watched(b) : m = About("viewerLeft", s, b)
    <2>1. ASSUME NEW s \in OwnShares(b), m \in StepNews(TRUE, None, s)[c]
          PROVE  m = Msg("stopped", s)
      BY <1>2, <2>1
    <2>2. ASSUME NEW s \in Watched(b), m \in StepNews(FALSE, b, s)[c]
          PROVE  (c = b /\ m = Msg("left", s)) \/ m = About("viewerLeft", s, b)
      BY <1>3, <2>2
    <2>3. \/ \E s \in OwnShares(b) : m \in StepNews(TRUE, None, s)[c]
          \/ \E s \in Watched(b) : m \in StepNews(FALSE, b, s)[c]
      BY <1>1, <1>5
    <2> QED BY <2>1, <2>2, <2>3
  <1>6. ASSUME NEW s \in OwnShares(b), c \in ready PROVE Msg("stopped", s) \in RemovalNews(b)[c]
    BY <1>1, <1>2, <1>6
  <1>7. ASSUME NEW s \in Own(c), s \in Watched(b)
        PROVE  About("viewerLeft", s, b) \in RemovalNews(b)[c]
    BY <1>1, <1>4, <1>7
  <1> QED BY <1>5, <1>6, <1>7

\* The gateway forgets the share and the views of b.
LEMMA RemovalSteps ==
    ASSUME IInv, NEW b \in Browsers, PeerRemoved(b), ready' = ready \ {b}, NEW N,
           \A c \in Browsers : RemovalNews(b)[c] \subseteq N[c],
           \A c \in Browsers : \A m \in N[c] : m \in RemovalNews(b)[c] \/ (c = b /\ m = ResetMsg),
           \A c \in Browsers \ {b} : up'[c] = up[c]
    PROVE  /\ shares' \subseteq Shares /\ watchers' \in [Streams -> SUBSET Browsers]
           /\ Sound(N)
           /\ \A c \in Browsers \ {b} :
                 OwnSharesStep(c, N[c]) /\ OwnViewsStep(c, N[c]) /\ OwnViewersStep(c, N[c])
           /\ \A s \in Own(b) : s \notin shares'
           /\ \A s \in Streams : b \notin watchers'[s]
  <1>0. GatewayInv
    BY DEF IInv
  <1>1. /\ shares' = shares \ OwnShares(b) /\ shares' \subseteq Shares
        /\ watchers' \in [Streams -> SUBSET Browsers]
        /\ \A s \in Streams : watchers'[s] = IF s \in OwnShares(b) THEN {} ELSE watchers[s] \ {b}
    BY DEF PeerRemoved, IInv, Typed
  <1>2. /\ \A s : s \in OwnShares(b) <=> s \in shares /\ s \in Own(b)
        /\ \A s : s \in Watched(b) <=> s \in Streams /\ b \in watchers[s]
    <2>1. \A s \in shares : s \in Own(b) <=> s[1] = b
      BY Names DEF IInv, Typed
    <2> QED BY <2>1 DEF OwnShares, Watched
  <1>3. \A c \in Browsers : \A t, r :
           /\ Msg(t, r) \in N[c] =>
                 \/ t = "stopped" /\ r \in OwnShares(b)
                 \/ t = "left" /\ c = b
                 \/ t = "viewerLeft"
                 \/ t = "reset" /\ c = b
           /\ \A x : About(t, r, x) \in N[c] => t \in {"stopped", "left", "viewerLeft", "reset"}
    <2>1. ASSUME NEW c \in Browsers, NEW m \in N[c]
          PROVE  \/ \E s \in OwnShares(b) : m = Msg("stopped", s)
                 \/ c = b /\ \E s \in Watched(b) : m = Msg("left", s)
                 \/ \E s \in Watched(b) : m = About("viewerLeft", s, b)
                 \/ c = b /\ m = Msg("reset", None)
      BY <2>1, RemovalNewsOf DEF ResetMsg
    <2>2. ASSUME NEW c \in Browsers, NEW t, NEW r, Msg(t, r) \in N[c]
          PROVE  \/ t = "stopped" /\ r \in OwnShares(b)
                 \/ t = "left" /\ c = b
                 \/ t = "viewerLeft"
                 \/ t = "reset" /\ c = b
      BY <2>1, <2>2, Distinct
    <2>3. ASSUME NEW c \in Browsers, NEW t, NEW r, NEW x, About(t, r, x) \in N[c]
          PROVE  t \in {"stopped", "left", "viewerLeft", "reset"}
      BY <2>1, <2>3, Distinct
    <2> QED BY <2>2, <2>3
  <1>4. Sound(N)
    <2>1. \A s \in Streams : watchers'[s] \subseteq ready' /\ (s \notin shares' \cup Natives => watchers'[s] = {})
      BY <1>0, <1>1, <1>2 DEF GatewayInv
    <2>2. \A c \in Browsers : \A s \in Own(c) : s \in Streams
      BY Names
    <2>3. \A c \in Browsers : \A s \in Own(c) : (s \in shares' => c \in ready') /\ c \notin watchers'[s]
      BY <1>0, <1>1, <1>2, <2>2 DEF GatewayInv
    <2> QED BY <1>1, <1>2, <1>3, <2>1, <2>3 DEF Sound
  <1>5. ASSUME NEW c \in Browsers \ {b}
        PROVE  OwnSharesStep(c, N[c]) /\ OwnViewsStep(c, N[c]) /\ OwnViewersStep(c, N[c])
    <2>1. \A s \in Own(c) : s \in Streams /\ s \notin OwnShares(b)
      BY <1>2, Names
    <2>2. ResetMsg \notin N[c] /\ up'[c] = up[c]
      BY <1>3 DEF ResetMsg
    <2>3. OwnSharesStep(c, N[c])
      BY <1>1, <1>3, <2>1, <2>2 DEF OwnSharesStep
    <2>4. OwnViewsStep(c, N[c])
      <3>1. ASSUME NEW s \in Streams, c \in watchers[s], c \notin watchers'[s]
            PROVE  Msg("stopped", s) \in N[c]
        <4>1. s \in OwnShares(b) /\ c \in ready
          BY <1>0, <1>1, <3>1 DEF GatewayInv
        <4> QED BY <4>1, RemovalNewsOf
      <3>2. \A s \in Streams : c \in watchers'[s] => c \in watchers[s]
        BY <1>1
      <3>3. \A s : Msg("joined", s) \notin N[c]
        BY <1>3
      <3> QED BY <2>2, <3>1, <3>2, <3>3 DEF OwnViewsStep
    <2>5. OwnViewersStep(c, N[c])
      <3>1. ASSUME NEW s \in Own(c), NEW x \in Peers, x \in watchers[s], x \notin watchers'[s]
            PROVE  About("viewerLeft", s, x) \in N[c]
        <4>1. x = b /\ s \in Watched(b)
          BY <1>1, <1>2, <2>1, <3>1
        <4> QED BY <4>1, RemovalNewsOf
      <3>2. \A s, x : About("signal", s, x) \notin N[c]
        BY <1>3
      <3> QED BY <3>1, <3>2 DEF OwnViewersStep
    <2> QED BY <2>3, <2>4, <2>5
  <1> QED BY <1>1, <1>2, <1>4, <1>5

LEMMA SessionDropsStays ==
    ASSUME IInv, NEW b \in Browsers, SessionDrops(b)
    PROVE  IInv'
  <1>1. /\ b \in ready /\ ready' = ready \ {b} /\ PeerRemoved(b)
        /\ down' = Tell(RemovalTold(b), {b}, ResetMsg) /\ UNCHANGED <<ui, up, stray>>
    BY DEF SessionDrops, ResetMsg
  <1>2. PICK N : N = And(RemovalNews(b), To({b}, {ResetMsg}))
    OBVIOUS
  <1>3. \A c \in Browsers : N[c] = RemovalNews(b)[c] \cup (IF c = b THEN {ResetMsg} ELSE {})
    BY <1>2 DEF And, To
  <1>4. Queues(down') /\ Grown(down, down', N)
    <2>1. PICK q : q = RemovalTold(b)
      OBVIOUS
    <2>2. Queues(q) /\ Grown(down, q, RemovalNews(b))
      BY <2>1, RemovalGrows DEF IInv
    <2>3. ResetMsg \in Told(b)
      BY DEF Told
    <2>4. Queues(Tell(q, {b}, ResetMsg)) /\ Grown(q, Tell(q, {b}, ResetMsg), To({b}, {ResetMsg}))
      BY <2>2, <2>3, TellGrows
    <2> QED BY <1>1, <1>2, <2>1, <2>2, <2>4, GrownTwice
  <1>5. /\ \A c \in Browsers : RemovalNews(b)[c] \subseteq N[c]
        /\ \A c \in Browsers : \A m \in N[c] : m \in RemovalNews(b)[c] \/ (c = b /\ m = ResetMsg)
        /\ \A c \in Browsers \ {b} : up'[c] = up[c]
    BY <1>1, <1>3
  <1>6. /\ shares' \subseteq Shares /\ watchers' \in [Streams -> SUBSET Browsers]
        /\ Sound(N)
        /\ \A c \in Browsers \ {b} :
              OwnSharesStep(c, N[c]) /\ OwnViewsStep(c, N[c]) /\ OwnViewersStep(c, N[c])
        /\ \A s \in Own(b) : s \notin shares'
        /\ \A s \in Streams : b \notin watchers'[s]
    BY <1>1, <1>5, RemovalSteps
  <1>7. Serves(N)
    BY <1>1, <1>4, <1>6 DEF Serves, IInv, Typed
  <1>8. OwnSharesStep(b, N[b]) /\ OwnViewsStep(b, N[b]) /\ OwnViewersStep(b, N[b])
    <2>1. ResetMsg \in N[b] /\ up'[b] = up[b]
      BY <1>1, <1>3
    <2>2. ASSUME NEW m \in N[b], NEW s \in Streams
          PROVE  m # Msg("confirmed", s) /\ m # Msg("joined", s) /\ \A x : m # About("signal", s, x)
      <3>1. \/ \E r \in OwnShares(b) : m = Msg("stopped", r)
            \/ \E r \in Watched(b) : m = Msg("left", r)
            \/ \E r \in Watched(b) : m = About("viewerLeft", r, b)
            \/ m = Msg("reset", None)
        BY <1>5, <2>2, RemovalNewsOf DEF ResetMsg
      <3>2. m.type \in {"stopped", "left", "viewerLeft", "reset"}
        BY <3>1, Messages
      <3> QED BY <3>2, Messages
    <2>3. \A s \in Own(b) : s \in Streams
      BY Names
    <2>4. OwnSharesStep(b, N[b])
      BY <1>6, <2>1, <2>2, <2>3 DEF OwnSharesStep
    <2>5. OwnViewsStep(b, N[b])
      BY <1>6, <2>1, <2>2 DEF OwnViewsStep
    <2>6. OwnViewersStep(b, N[b])
      BY <2>1, <2>2, <2>3 DEF OwnViewersStep
    <2> QED BY <2>4, <2>5, <2>6
  <1> QED BY <1>6, <1>7, <1>8, GatewayMove

LEMMA ConnectionLostStays ==
    ASSUME IInv, NEW b \in Browsers, ConnectionLost(b)
    PROVE  IInv'
  <1>1. /\ ready' = ready \ {b} /\ PeerRemoved(b)
        /\ ui' = [ui EXCEPT ![b] = Asleep] /\ up' = [up EXCEPT ![b] = <<>>]
        /\ down' = [RemovalTold(b) EXCEPT ![b] = <<>>]
        /\ stray' = [stray EXCEPT ![b] = {}]
    BY DEF ConnectionLost, Becomes
  <1>2. PICK N : N = RemovalNews(b)
    OBVIOUS
  <1>3. Queues(RemovalTold(b)) /\ Grown(down, RemovalTold(b), N)
    BY <1>2, RemovalGrows DEF IInv
  <1>4. /\ ui'[b] = Asleep /\ up'[b] = <<>> /\ down'[b] = <<>> /\ stray'[b] = {}
        /\ DOMAIN ui' = Browsers /\ DOMAIN up' = Browsers /\ DOMAIN down' = Browsers
        /\ stray' \in [Browsers -> SUBSET Streams]
        /\ \A c \in Browsers \ {b} :
              /\ ui'[c] = ui[c] /\ up'[c] = up[c] /\ stray'[c] = stray[c]
              /\ down'[c] = RemovalTold(b)[c]
    BY <1>1, <1>3 DEF Queues, IInv, Typed
  <1>5. /\ shares' \subseteq Shares /\ watchers' \in [Streams -> SUBSET Browsers]
        /\ Sound(N)
        /\ \A c \in Browsers \ {b} :
              OwnSharesStep(c, N[c]) /\ OwnViewsStep(c, N[c]) /\ OwnViewersStep(c, N[c])
        /\ \A s \in Own(b) : s \notin shares'
        /\ \A s \in Streams : b \notin watchers'[s]
    BY <1>1, <1>2, <1>4, RemovalSteps
  <1>6. Msgs(<<>>) = {} /\ \A m : Follow(<<>>, m) = {} /\ \A S : <<>> \in Seq(S)
    BY Emptied
  <1>7. Typed'
    <2>1. Asleep \in Controller(b)
      BY DEF Asleep, Controller
    <2>2. \A c \in Browsers : ui'[c] \in Controller(c)
      BY <1>4, <2>1 DEF IInv, Typed
    <2>3. \A c \in Browsers : up'[c] \in Seq(Sent(c)) /\ down'[c] \in Seq(Told(c))
      BY <1>3, <1>4, <1>6 DEF Queues, IInv, Typed
    <2>4. ready' \subseteq Browsers
      BY <1>1 DEF IInv, Typed
    <2> QED BY <1>4, <1>5, <2>2, <2>3, <2>4 DEF Typed
  <1>8. \A c \in Browsers : Msgs(down'[c]) \subseteq Msgs(down[c]) \cup N[c]
    BY <1>3, <1>4, <1>6 DEF Grown, Extended
  <1>9. /\ GatewayInv'
        /\ \A d \in Browsers : \A c \in Browsers : \A s \in Own(d) :
              Msg("stopped", s) \in Msgs(down'[c]) => Msg("stopped", s) \in Msgs(down[c]) \/ s \in shares
    BY <1>5, <1>8, SoundStays DEF IInv
  <1>10. ASSUME NEW c \in Browsers \ {b} PROVE EndInv(c)'
    <2>1. GatewayStep(c, N[c])
      BY <1>3, <1>4, <1>5 DEF Grown, GatewayStep
    <2> QED BY <1>9, <2>1, EndStays
  <1>11. EndInv(b)'
    <2>1. Msgs(up'[b]) = {} /\ Msgs(down'[b]) = {} /\ \A m : Follow(down'[b], m) = {}
      BY <1>4, <1>6
    <2>2. /\ ui'[b].active = None /\ ui'[b].pending = None /\ ui'[b].viewing = None
          /\ ui'[b].peers = {}
      BY <1>4 DEF Asleep
    <2>3. None \notin Own(b) /\ None \notin Streams
      BY Names
    <2>4. StartInv(b)'
      BY <2>1 DEF StartInv
    <2>5. ShareInv(b)'
      BY <1>5, <2>1, <2>2, <2>3 DEF ShareInv
    <2>6. PendingInv(b)'
      BY <2>2, <2>3 DEF PendingInv
    <2>7. ViewInv(b)'
      BY <1>5, <2>1, <2>2, <2>3 DEF ViewInv
    <2>8. PeerInv(b)'
      BY <2>1, <2>2 DEF PeerInv
    <2> QED BY <2>4, <2>5, <2>6, <2>7, <2>8 DEF EndInv
  <1> QED BY <1>7, <1>9, <1>10, <1>11 DEF IInv

-----------------------------------------------------------------------------
(* Theorems. *)

LEMMA InitInv == Init => IInv
  <1> SUFFICES ASSUME Init PROVE IInv
    OBVIOUS
  <1>1. Msgs(<<>>) = {} /\ \A m : Follow(<<>>, m) = {} /\ \A S : <<>> \in Seq(S)
    BY Emptied
  <1>2. /\ \A b \in Browsers : ui[b] = Asleep /\ up[b] = <<>> /\ down[b] = <<>> /\ stray[b] = {}
        /\ shares = {} /\ \A s \in Streams : watchers[s] = {}
    BY DEF Init
  <1>3. \A b \in Browsers : Asleep \in Controller(b)
    BY DEF Asleep, Controller
  <1>4. Typed
    <2>1. \A b \in Browsers : up[b] \in Seq(Sent(b)) /\ down[b] \in Seq(Told(b))
      BY <1>1, <1>2
    <2> QED BY <1>2, <1>3, <2>1 DEF Init, Typed
  <1>5. GatewayInv
    <2>1. \A b \in Browsers : \A s \in Own(b) : s \in Streams
      BY Names
    <2> QED BY <1>2, <2>1 DEF GatewayInv
  <1>6. ASSUME NEW b \in Browsers PROVE EndInv(b)
    <2>1. Msgs(up[b]) = {} /\ Msgs(down[b]) = {} /\ \A m : Follow(down[b], m) = {}
      BY <1>1, <1>2
    <2>2. /\ ui[b].active = None /\ ui[b].pending = None /\ ui[b].viewing = None
          /\ ui[b].peers = {}
      BY <1>2 DEF Asleep
    <2>3. None \notin Own(b) /\ None \notin Streams
      BY Names
    <2>4. StartInv(b) /\ ShareInv(b) /\ PendingInv(b)
      BY <1>2, <2>1, <2>2, <2>3 DEF StartInv, ShareInv, PendingInv
    <2>5. ViewInv(b) /\ PeerInv(b)
      BY <1>2, <2>1, <2>2, <2>3 DEF ViewInv, PeerInv
    <2> QED BY <2>4, <2>5 DEF EndInv
  <1> QED BY <1>4, <1>5, <1>6 DEF IInv

LEMMA StutterStays ==
    ASSUME IInv, UNCHANGED vars
    PROVE  IInv'
  <1>1. Typed' /\ GatewayInv'
    BY DEF vars, IInv, Typed, GatewayInv
  <1>2. ASSUME NEW b \in Browsers PROVE EndInv(b)'
    <2>1. EndInv(b)
      BY DEF IInv
    <2>2. StartInv(b)' /\ ShareInv(b)' /\ PendingInv(b)'
      BY <2>1 DEF vars, EndInv, StartInv, ShareInv, KnownShare, ShareKnown, PendingInv
    <2>3. ViewInv(b)' /\ PeerInv(b)'
      BY <2>1 DEF vars, EndInv, ViewInv, KnownView, ViewKnown, PeerInv, Served
    <2> QED BY <2>2, <2>3 DEF EndInv
  <1> QED BY <1>1, <1>2 DEF IInv

\* Whatever stops, errors, reconnects and second starts cross each other on the way, both
\* ends of every share and view, and the messages between them, account for each other.
THEOREM Inductive == Spec => []IInv
  <1>1. ASSUME IInv, Next PROVE IInv'
    <2>1. PICK b \in Browsers :
             \/ Share(b) \/ Grant(b) \/ Deny(b) \/ StopShare(b) \/ Leave(b)
             \/ \E s \in Streams : Join(b, s)
             \/ \E x \in Peers : PeerFails(b, x)
             \/ Receive(b) \/ Handle(b)
             \/ SessionDrops(b) \/ Attempt(b) \/ SessionReady(b) \/ ConnectionLost(b)
             \/ \E s \in Natives : NativeAnswers(b, s) \/ NativeRefuses(b, s)
      BY <1>1 DEF Next
    <2>2. CASE Share(b) \/ Grant(b) \/ Deny(b) \/ StopShare(b) \/ Leave(b)
      BY <1>1, <2>2, ShareStays, GrantStays, DenyStays, StopShareStays, LeaveStays
    <2>3. CASE \E s \in Streams : Join(b, s)
      BY <1>1, <2>3, JoinStays
    <2>4. CASE \E x \in Peers : PeerFails(b, x)
      BY <1>1, <2>4, PeerFailsStays
    <2>5. CASE Receive(b) \/ Handle(b)
      BY <1>1, <2>5, ReceiveStays, HandleStays
    <2>6. CASE SessionDrops(b) \/ Attempt(b) \/ SessionReady(b) \/ ConnectionLost(b)
      BY <1>1, <2>6, SessionDropsStays, AttemptStays, SessionReadyStays, ConnectionLostStays
    <2>7. CASE \E s \in Natives : NativeAnswers(b, s) \/ NativeRefuses(b, s)
      BY <1>1, <2>7, NativeAnswersStays, NativeRefusesStays
    <2> QED BY <2>1, <2>2, <2>3, <2>4, <2>5, <2>6, <2>7
  <1>2. IInv /\ [Next]_vars => IInv'
    BY <1>1, StutterStays
  <1> QED BY <1>2, InitInv, PTL DEF Spec

LEMMA QuietShares ==
    ASSUME IInv
    PROVE  SharesAgree
  <1> SUFFICES ASSUME NEW b \in Browsers
      PROVE  /\ ui[b].capturing <=> (ui[b].pending # None \/ ui[b].active # None)
             /\ Quiet(b) => /\ OwnShares(b) = {ui[b].active} \ {None}
                            /\ ui[b].pending \in stray[b] \cup {None}
    BY DEF SharesAgree
  <1>1. ui[b].capturing <=> (ui[b].pending # None \/ ui[b].active # None)
    BY DEF IInv, Typed, Controller
  <1>2. ASSUME Quiet(b) PROVE OwnShares(b) = {ui[b].active} \ {None}
    <2>1. Msgs(up[b]) = {} /\ Msgs(down[b]) = {} /\ \A m : Follow(down[b], m) = {}
      BY <1>2, Emptied DEF Quiet
    <2>2. \A s \in Own(b) : s \in shares <=> ui[b].active = s
      BY <2>1 DEF IInv, EndInv, ShareInv, KnownShare, ShareKnown
    <2>3. \A s : s \in OwnShares(b) <=> s \in shares /\ s \in Own(b)
      <3>1. \A s \in shares : s \in Own(b) <=> s[1] = b
        BY Names DEF IInv, Typed
      <3> QED BY <3>1 DEF OwnShares
    <2> QED BY <2>2, <2>3, ControllerFields
  <1>3. ASSUME Quiet(b) PROVE ui[b].pending \in stray[b] \cup {None}
    <2>1. Msgs(up[b]) = {} /\ Msgs(down[b]) = {}
      BY <1>3, Emptied DEF Quiet
    <2> QED BY <2>1, ControllerFields DEF IInv, EndInv, PendingInv
  <1> QED BY <1>1, <1>2, <1>3

LEMMA QuietViews ==
    ASSUME IInv
    PROVE  ViewersAgree
  <1> SUFFICES ASSUME NEW b \in Browsers, Quiet(b)
      PROVE  /\ {ui[b].viewing} \ {None} \subseteq Watched(b)
             /\ Watched(b) \subseteq {ui[b].viewing} \cup stray[b]
             /\ \A x \in ui[b].peers :
                   \/ ui[b].viewing # None /\ Owner(ui[b].viewing) = x
                   \/ \E s \in OwnShares(b) : x \in watchers[s]
    BY DEF ViewersAgree
  <1>1. Msgs(up[b]) = {} /\ Msgs(down[b]) = {} /\ \A m : Follow(down[b], m) = {}
    BY Emptied DEF Quiet
  <1>2. /\ \A s \in Streams : ui[b].viewing = s => b \in watchers[s]
        /\ \A s \in Streams : b \in watchers[s] => ui[b].viewing = s \/ s \in stray[b]
    BY <1>1 DEF IInv, EndInv, ViewInv, KnownView, ViewKnown
  <1>3. /\ {ui[b].viewing} \ {None} \subseteq Watched(b)
        /\ Watched(b) \subseteq {ui[b].viewing} \cup stray[b]
    BY <1>2, ControllerFields DEF Watched
  <1>4. ASSUME NEW x \in ui[b].peers
        PROVE  \/ ui[b].viewing # None /\ Owner(ui[b].viewing) = x
               \/ \E s \in OwnShares(b) : x \in watchers[s]
    <2>1. CASE ui[b].viewing # None /\ Owner(ui[b].viewing) = x
      BY <2>1
    <2>2. CASE ui[b].active # None /\ Served(ui[b].active, x, Msgs(down[b]))
      <3>1. PICK s \in Own(b) : s = ui[b].active
        BY <2>2, ControllerFields
      <3>2. x \in watchers[s]
        BY <1>1, <2>2, <3>1 DEF Served
      <3>3. s \in shares /\ s[1] = b
        BY <1>1, <3>1, Names DEF IInv, EndInv, ShareInv, KnownShare
      <3> QED BY <3>2, <3>3 DEF OwnShares
    <2> QED BY <1>4, <2>1, <2>2 DEF IInv, EndInv, PeerInv
  <1> QED BY <1>3, <1>4

\* A capture lasts no longer than its share, and a browser and the gateway between which
\* nothing is on its way agree on the share the channel is offered, but for a start that
\* was refused because the session was not connected, of which the browser is not told.
THEOREM SharesTruth == Spec => []SharesAgree
  BY Inductive, QuietShares, PTL

\* They agree likewise on the stream the browser watches, and its connections are those of
\* that stream's source and of the viewers of its own share. Left out are memberships the
\* browser gives up untold: a second join answered before the first view is left, and a
\* native source's decline.
THEOREM ViewersTruth == Spec => []ViewersAgree
  BY Inductive, QuietViews, PTL
=============================================================================
