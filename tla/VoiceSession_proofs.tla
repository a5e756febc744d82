------------------------ MODULE VoiceSession_proofs ------------------------
(***************************************************************************)
(* Proofs about VoiceSession, for any number of sessions and keys.         *)
(***************************************************************************)
EXTENDS VoiceSession, FiniteSetTheorems, TLAPS

-----------------------------------------------------------------------------
(* The inductive invariant: the shapes a session's record takes. *)

\* The outstanding connect() and the TeamSpeak client agree.
CallMatchesLink(r) ==
    /\ r.call \in {"prepare", "handshake"} => r.link = "down"
    /\ r.call \in {"join", "restore"} => r.link = "up"
    /\ r.call = "dead" => r.link # "up"
    /\ r.link = "closing" => r.stage = "leaving"

Attempting(r) ==
    /\ r.conn = "authenticating"
    /\ r.call \in {"prepare", "handshake", "join", "restore"}
    /\ r.call = "restore" => r.directory
    /\ r.call \in {"prepare", "handshake"} => ~r.directory
    /\ ~r.ready /\ ~r.published /\ ~r.timer
    /\ r.ever <=> r.window # "unset"
    /\ r.sock => r.told = IF r.ever THEN "recovering" ELSE "nothing"

Talking(r) ==
    /\ r.conn = "connected"
    /\ r.call = "none" /\ r.link = "up"
    /\ r.ready /\ r.directory /\ r.published /\ r.ever /\ ~r.timer
    /\ r.window = "unset"
    /\ r.sock => r.told = "connected"

Waiting(r) ==
    /\ r.conn = "reconnecting"
    /\ r.call \in {"none", "dead"} /\ r.link = "down"
    /\ ~r.ready /\ ~r.directory /\ ~r.published /\ r.ever /\ r.timer
    /\ r.window # "unset"
    /\ r.sock => r.told = "recovering"

Departing(r) ==
    /\ r.stage \in {"stopping", "leaving"}
    /\ r.conn = "disconnecting"
    /\ ~r.timer

Gone(r) ==
    /\ r.stage = "absent"
    /\ r.conn = "idle"
    /\ ~r.sock /\ ~r.timer
    /\ r.window = "unset"

RecordInv(r) ==
    /\ r \in SessionRecord
    /\ CallMatchesLink(r)
    /\ \/ r.stage = "live" /\ (Attempting(r) \/ Talking(r) \/ Waiting(r))
       \/ Departing(r)
       \/ Gone(r)

\* A session without an awaited preparation leaves nothing behind.
DirectInv(r) ==
    /\ r.call # "prepare"
    /\ r.stage \in {"leaving", "absent"} => r.call \in {"none", "dead"} /\ r.link # "up"

IInv ==
    /\ TypeOK
    /\ \A s \in Sessions : RecordInv(session[s])
    /\ \A s \in Sessions \ Prepared : DirectInv(session[s])
    /\ LeaseMatchesSession
    /\ CapacityRespected

(* What any handler respects: call and link change only where the action says
   so, a stage is left only by a teardown, a removed session is told nothing,
   and neither the recovery window nor hasConnectedOnce changes except by
   becoming connected. *)
Follows(r, q) ==
    /\ q.call = r.call
    /\ q.link = r.link
    /\ q.stage = r.stage \/ (r.stage = "live" /\ q.stage = "stopping")
    /\ r.stage # "live" => q.told = r.told
    /\ r.window = "expired" => q.window = "expired" \/ q.conn = "connected"
    /\ q.stage = "live" => q.ever = r.ever \/ q.conn = "connected"

(* The same of a whole step, which may also move calls and links on. *)
Respects(r, q) ==
    /\ \/ q.stage = r.stage
       \/ r.stage = "live" /\ q.stage = "stopping"
       \/ r.stage = "stopping" /\ q.stage = "leaving"
    /\ r.stage # "live" => q.told = r.told
    /\ r.window = "expired" => q.window = "expired" \/ q.conn = "connected"
    /\ q.stage = "live" => q.ever = r.ever \/ q.conn = "connected"

LEMMA FollowsRespects ==
    ASSUME NEW r, NEW p, NEW q, Follows(p, q),
           p.stage = r.stage, p.told = r.told, p.window = r.window, p.ever = r.ever
    PROVE  Respects(r, q)
BY DEF Follows, Respects

LEMMA Disconnectable ==
    ASSUME NEW c \in ConnectionState, c # "disconnecting"
    PROVE  <<c, "disconnecting">> \in ALLOWED_TRANSITIONS
BY DEF ConnectionState, ALLOWED_TRANSITIONS

LEMMA TeardownDeparts ==
    ASSUME NEW r \in SessionRecord, r.stage = "live", r.link # "closing", CallMatchesLink(r)
    PROVE  RecordInv(Teardown(r)) /\ Follows(r, Teardown(r))
<1>1. Transition(r, "disconnecting") = [r EXCEPT !.conn = "disconnecting"]
  BY Disconnectable DEF Transition, SessionRecord, ConnectionState
<1> QED
  BY <1>1 DEF Teardown, SessionRecord, RecordInv, CallMatchesLink, Departing, ConnectionState, Follows

LEMMA FailReconnectDeparts ==
    ASSUME NEW r \in SessionRecord, r.stage = "live", r.link # "closing", CallMatchesLink(r)
    PROVE  RecordInv(FailReconnect(r)) /\ Follows(r, FailReconnect(r))
<1> DEFINE q == [r EXCEPT !.timer = FALSE]
           p == Transition(q, "failed")
           o == Tell(p, "failed")
<1>1. q \in SessionRecord /\ q.stage = "live" /\ q.call = r.call /\ q.link = r.link
      /\ q.window = r.window /\ q.ever = r.ever
  BY DEF SessionRecord
<1>2. p \in SessionRecord /\ p.stage = "live" /\ p.call = r.call /\ p.link = r.link
      /\ p.window = r.window /\ p.ever = r.ever
  <2> HIDE DEF q
  <2> QED BY <1>1 DEF Transition, SessionRecord, ConnectionState
<1>3. o \in SessionRecord /\ o.stage = "live" /\ o.call = r.call /\ o.link = r.link
      /\ o.window = r.window /\ o.ever = r.ever
  <2> HIDE DEF p
  <2> QED BY <1>2 DEF Tell, SessionRecord
<1>4. CallMatchesLink(o)
  BY <1>3 DEF CallMatchesLink
<1>5. FailReconnect(r) = Teardown(o)
  BY DEF FailReconnect
<1> QED
  <2> HIDE DEF o
  <2> QED BY <1>3, <1>4, <1>5, TeardownDeparts DEF Follows

AfterDrop(r) ==
    [r EXCEPT !.link = "down", !.call = IF @ = "none" THEN @ ELSE "dead"]

Settled(r) == [r EXCEPT !.call = "none"]

LEMMA FailConnectDeparts ==
    ASSUME NEW r \in SessionRecord, r.stage = "live", r.link # "closing", CallMatchesLink(r),
           r.conn \notin Ended
    PROVE  RecordInv(FailConnect(r)) /\ Follows(r, FailConnect(r))
<1> DEFINE q == [r EXCEPT !.timer = FALSE]
           p == Transition(q, "failed")
           o == Tell(p, "failed")
           n == [o EXCEPT !.sock = FALSE]
<1>1. q \in SessionRecord /\ q.stage = "live" /\ q.call = r.call /\ q.link = r.link
      /\ q.window = r.window /\ q.ever = r.ever
  BY DEF SessionRecord
<1>2. p \in SessionRecord /\ p.stage = "live" /\ p.call = r.call /\ p.link = r.link
      /\ p.window = r.window /\ p.ever = r.ever
  <2> HIDE DEF q
  <2> QED BY <1>1 DEF Transition, SessionRecord, ConnectionState
<1>3. o \in SessionRecord /\ o.stage = "live" /\ o.call = r.call /\ o.link = r.link
      /\ o.window = r.window /\ o.ever = r.ever
  <2> HIDE DEF p
  <2> QED BY <1>2 DEF Tell, SessionRecord
<1>4. n \in SessionRecord /\ n.stage = "live" /\ n.call = r.call /\ n.link = r.link
      /\ n.window = r.window /\ n.ever = r.ever
  <2> HIDE DEF o
  <2> QED BY <1>3 DEF SessionRecord
<1>5. CallMatchesLink(n)
  BY <1>4 DEF CallMatchesLink
<1>6. FailConnect(r) = Teardown(n)
  BY DEF FailConnect
<1> QED
  <2> HIDE DEF n
  <2> QED BY <1>4, <1>5, <1>6, TeardownDeparts DEF Follows

LEMMA ScheduleReconnectWaits ==
    ASSUME NEW r \in SessionRecord, NEW recoverable \in BOOLEAN,
           r.stage = "live", r.conn \in {"connected", "reconnecting"},
           r.call \in {"none", "dead"}, r.link = "down",
           ~r.ready, ~r.directory, ~r.published, r.ever,
           r.timer /\ r.sock => r.told = "recovering"
    PROVE  /\ RecordInv(ScheduleReconnect(r, recoverable))
           /\ Follows(r, ScheduleReconnect(r, recoverable))
<1>1. CallMatchesLink(r)
  BY DEF CallMatchesLink
<1>2. CASE ~recoverable \/ r.window = "expired"
  BY <1>1, <1>2, FailReconnectDeparts DEF ScheduleReconnect, Ended
<1>3. CASE recoverable /\ r.window # "expired"
  <2> DEFINE p == IF r.conn = "connected"
                  THEN Transition(Transition(r, "interrupted"), "reconnecting")
                  ELSE r
             q == [p EXCEPT !.window = "open"]
  <2>1. p = [r EXCEPT !.conn = "reconnecting"]
    BY DEF Transition, SessionRecord, ALLOWED_TRANSITIONS
  <2>2. q = [r EXCEPT !.conn = "reconnecting", !.window = "open"]
    BY <2>1 DEF SessionRecord
  <2>3. ScheduleReconnect(r, recoverable) =
          IF r.timer THEN q ELSE Tell([q EXCEPT !.timer = TRUE], "recovering")
    BY <1>3 DEF ScheduleReconnect, Ended
  <2>4. CASE r.timer
    <3> DEFINE w == [r EXCEPT !.conn = "reconnecting", !.window = "open"]
    <3>1. ScheduleReconnect(r, recoverable) = w
      BY <2>2, <2>3, <2>4
    <3>2. w \in SessionRecord /\ Waiting(w) /\ Follows(r, w) /\ w.stage = "live"
      BY <1>3, <2>4 DEF Waiting, Follows, SessionRecord, ConnectionState
    <3>3. CallMatchesLink(w)
      BY <1>1, <3>2 DEF Follows, CallMatchesLink
    <3> QED BY <3>1, <3>2, <3>3 DEF RecordInv
  <2>5. CASE ~r.timer
    <3> DEFINE v == [r EXCEPT !.conn = "reconnecting", !.window = "open", !.timer = TRUE]
               w == Tell(v, "recovering")
    <3>1. ScheduleReconnect(r, recoverable) = w
      BY <2>2, <2>3, <2>5 DEF SessionRecord
    <3>2. w \in SessionRecord /\ Waiting(w) /\ Follows(r, w) /\ w.stage = "live"
      BY <1>3 DEF Tell, Waiting, Follows, SessionRecord, ConnectionState
    <3>3. CallMatchesLink(w)
      BY <1>1, <3>2 DEF Follows, CallMatchesLink
    <3> QED BY <3>1, <3>2, <3>3 DEF RecordInv
  <2> QED BY <2>4, <2>5 DEF SessionRecord
<1> QED BY <1>2, <1>3

LEMMA SnapshotKeeps ==
    ASSUME NEW r, RecordInv(r)
    PROVE  OnDirectorySnapshot(r) =
             IF IsCurrent(r) /\ AcceptsDirectory(r) THEN [r EXCEPT !.directory = TRUE] ELSE r
<1>1. CASE IsCurrent(r) /\ AcceptsDirectory(r)
  <2>1. r.stage = "live" /\ (~r.ready \/ r.published)
    BY <1>1 DEF RecordInv, IsCurrent, AcceptsDirectory, Attempting, Talking, Waiting,
                Departing, Gone
  <2> QED BY <1>1, <2>1 DEF OnDirectorySnapshot, SendInitialState, RecordInv, SessionRecord
<1>2. CASE ~(IsCurrent(r) /\ AcceptsDirectory(r))
  BY <1>2 DEF OnDirectorySnapshot
<1> QED BY <1>1, <1>2

LEMMA ViewReadInv ==
    ASSUME NEW r, RecordInv(r), r.call = "join"
    PROVE  RecordInv([OnDirectorySnapshot(r) EXCEPT !.call = "restore"])
<1>1. CASE r.stage = "live"
  <2>1. Attempting(r)
    BY <1>1 DEF RecordInv, Attempting, Talking, Waiting, Departing, Gone
  <2>2. OnDirectorySnapshot(r) = [r EXCEPT !.directory = TRUE]
    BY <1>1, <2>1, SnapshotKeeps DEF IsCurrent, AcceptsDirectory, Attempting, Ended
  <2> DEFINE q == [r EXCEPT !.directory = TRUE, !.call = "restore"]
  <2>3. [OnDirectorySnapshot(r) EXCEPT !.call = "restore"] = q
    BY <2>2 DEF RecordInv, SessionRecord
  <2>4. q \in SessionRecord /\ q.stage = "live" /\ CallMatchesLink(q) /\ Attempting(q)
    BY <1>1, <2>1 DEF RecordInv, Attempting, CallMatchesLink, SessionRecord
  <2> QED BY <2>3, <2>4 DEF RecordInv
<1>2. CASE r.stage # "live"
  <2>1. OnDirectorySnapshot(r) = r
    BY <1>2, SnapshotKeeps DEF IsCurrent
  <2> DEFINE q == [r EXCEPT !.call = "restore"]
  <2>2. q \in SessionRecord /\ CallMatchesLink(q) /\ (Departing(q) \/ Gone(q))
    BY <1>2 DEF RecordInv, Departing, Gone, CallMatchesLink, SessionRecord
  <2> QED BY <2>1, <2>2 DEF RecordInv
<1> QED BY <1>1, <1>2

LEMMA ViewChangedInv ==
    ASSUME NEW r, RecordInv(r), r.link = "up"
    PROVE  RecordInv(OnDirectorySnapshot(r)) /\ Follows(r, OnDirectorySnapshot(r))
<1>1. CASE IsCurrent(r) /\ AcceptsDirectory(r)
  <2> DEFINE q == [r EXCEPT !.directory = TRUE]
  <2>1. OnDirectorySnapshot(r) = q
    BY <1>1, SnapshotKeeps
  <2>2. r.stage = "live" /\ (Attempting(r) \/ Talking(r))
    BY <1>1 DEF IsCurrent, AcceptsDirectory, RecordInv, Waiting, Departing, Gone
  <2>3. q \in SessionRecord /\ Follows(r, q) /\ CallMatchesLink(q)
    BY DEF RecordInv, SessionRecord, Follows, CallMatchesLink
  <2>4. Attempting(q) \/ Talking(q)
    BY <2>2 DEF RecordInv, SessionRecord, CallMatchesLink, Attempting, Talking
  <2>5. q.stage = "live"
    BY <2>2 DEF RecordInv, SessionRecord
  <2> QED BY <2>1, <2>3, <2>4, <2>5 DEF RecordInv
<1>2. CASE ~(IsCurrent(r) /\ AcceptsDirectory(r))
  BY <1>2, SnapshotKeeps DEF Follows
<1> QED BY <1>1, <1>2

LEMMA ConnectFulfilledInv ==
    ASSUME NEW r, RecordInv(r), r.call \in {"restore", "dead"}
    PROVE  /\ RecordInv(ConnectFulfilled(Settled(r)))
           /\ Follows(Settled(r), ConnectFulfilled(Settled(r)))
<1> DEFINE q == Settled(r)
<1>1. q \in SessionRecord /\ q.stage = r.stage /\ q.conn = r.conn /\ q.call = "none"
      /\ q.link = r.link /\ CallMatchesLink(q)
  BY DEF Settled, RecordInv, SessionRecord, CallMatchesLink
<1>2. CASE r.conn = "authenticating"
  <2>1. r.stage = "live" /\ Attempting(r) /\ r.call = "restore" /\ r.link = "up"
    BY <1>2 DEF RecordInv, Attempting, Talking, Waiting, Departing, Gone, CallMatchesLink
  <2> DEFINE p == [q EXCEPT !.conn = "syncing", !.ready = TRUE]
             v == [q EXCEPT !.conn = "connected", !.ready = TRUE, !.published = TRUE,
                            !.ever = TRUE, !.window = "unset"]
             w == Tell(v, "connected")
  <2>2. [Transition(q, "syncing") EXCEPT !.ready = TRUE] = p
    BY <1>1, <1>2 DEF Transition, ALLOWED_TRANSITIONS, SessionRecord
  <2>3. ConnectFulfilled(q) = SendInitialState(p)
    BY <1>1, <1>2, <2>2 DEF ConnectFulfilled
  <2>4. p \in SessionRecord /\ ~p.published /\ p.ready /\ p.directory /\ p.conn = "syncing"
    BY <1>1, <2>1 DEF Attempting, Settled, RecordInv, SessionRecord, ConnectionState
  <2>5. Transition([p EXCEPT !.published = TRUE, !.ever = TRUE, !.window = "unset"],
                   "connected") = v
    BY <1>1 DEF Transition, ALLOWED_TRANSITIONS, SessionRecord
  <2>6. ConnectFulfilled(q) = w
    BY <2>3, <2>4, <2>5 DEF SendInitialState
  <2>7. v \in SessionRecord /\ v.stage = "live" /\ v.call = "none" /\ v.link = "up"
        /\ v.conn = "connected" /\ v.ready /\ v.directory /\ v.published /\ v.ever
        /\ ~v.timer /\ v.window = "unset"
    BY <1>1, <2>1 DEF Attempting, Settled, RecordInv, SessionRecord, ConnectionState
  <2>8. w \in SessionRecord /\ w.stage = "live" /\ Talking(w) /\ CallMatchesLink(w)
    <3> HIDE DEF v
    <3> QED BY <2>7 DEF Tell, Talking, CallMatchesLink, SessionRecord
  <2>9. Follows(q, w)
    BY <1>1, <2>1, <2>8 DEF Follows, Talking
  <2> QED BY <2>6, <2>8, <2>9 DEF RecordInv
<1>3. CASE r.conn # "authenticating"
  <2>1. ConnectFulfilled(q) = q
    BY <1>1, <1>3 DEF ConnectFulfilled
  <2>2. Waiting(r) => Waiting(q)
    BY DEF Settled, RecordInv, SessionRecord, Waiting
  <2>3. Departing(r) => Departing(q)
    BY DEF Settled, RecordInv, SessionRecord, Departing
  <2>4. Gone(r) => Gone(q)
    BY DEF Settled, RecordInv, SessionRecord, Gone
  <2>5. ~Talking(r)
    BY DEF Talking
  <2> QED
    BY <1>1, <1>3, <2>1, <2>2, <2>3, <2>4, <2>5 DEF RecordInv, Follows, Attempting
<1> QED BY <1>2, <1>3

LEMMA ConnectRejectedInv ==
    ASSUME NEW r, RecordInv(r), NEW recoverable \in BOOLEAN,
           r.call \in {"prepare", "handshake", "dead"}
    PROVE  /\ RecordInv(ConnectRejected(Settled(r), recoverable))
           /\ Follows(Settled(r), ConnectRejected(Settled(r), recoverable))
<1> DEFINE q == Settled(r)
<1>1. q \in SessionRecord /\ q = [r EXCEPT !.call = "none"] /\ CallMatchesLink(q)
  BY DEF Settled, RecordInv, SessionRecord, CallMatchesLink
<1>2. CASE r.stage = "live"
  <2>1. r.link = "down" /\ (Attempting(r) \/ Waiting(r))
    BY <1>2 DEF RecordInv, Attempting, Talking, Waiting, Departing, Gone, CallMatchesLink
  <2>2. /\ q.stage = "live" /\ q.link = "down" /\ q.call = "none"
        /\ q.conn = r.conn /\ q.ever = r.ever
    BY <1>1, <1>2, <2>1 DEF SessionRecord, RecordInv
  <2>3. CASE ~r.ever
    BY <1>1, <2>1, <2>2, <2>3, FailConnectDeparts
    DEF ConnectRejected, Ended, Attempting, Waiting
  <2>4. CASE r.ever /\ ~recoverable
    BY <1>1, <2>2, <2>4, FailReconnectDeparts DEF ConnectRejected
  <2>5. CASE r.ever /\ recoverable
    <3> DEFINE p == Transition(q, "reconnecting")
    <3>1. p = [q EXCEPT !.conn = "reconnecting"]
      BY <1>1, <2>1, <2>2
      DEF Transition, ALLOWED_TRANSITIONS, SessionRecord, Attempting, Waiting
    <3>2. ConnectRejected(q, recoverable) = ScheduleReconnect(p, TRUE)
      BY <2>2, <2>5 DEF ConnectRejected
    <3>3. p \in SessionRecord /\ p.stage = "live" /\ p.conn = "reconnecting"
          /\ p.call = "none" /\ p.link = "down" /\ p.ever /\ p.sock = q.sock
          /\ p.told = q.told /\ p.timer = q.timer /\ p.ready = q.ready
          /\ p.directory = q.directory /\ p.published = q.published
          /\ p.window = q.window /\ p.ever = q.ever
      <4> HIDE DEF q
      <4> QED BY <1>1, <2>2, <2>5, <3>1 DEF SessionRecord, ConnectionState
    <3>4. /\ q.sock = r.sock /\ q.told = r.told /\ q.timer = r.timer /\ q.ready = r.ready
          /\ q.directory = r.directory /\ q.published = r.published
      BY <1>1 DEF RecordInv, SessionRecord
    <3>5. /\ ~p.ready /\ ~p.directory /\ ~p.published
          /\ p.timer /\ p.sock => p.told = "recovering"
      BY <2>1, <3>3, <3>4 DEF Attempting, Waiting
    <3>6. RecordInv(ScheduleReconnect(p, TRUE)) /\ Follows(p, ScheduleReconnect(p, TRUE))
      BY <3>3, <3>5, ScheduleReconnectWaits
    <3>7. Follows(q, ScheduleReconnect(p, TRUE))
      BY <1>1, <2>2, <3>3, <3>6 DEF Follows, SessionRecord
    <3> QED BY <3>2, <3>6, <3>7
  <2> QED BY <2>3, <2>4, <2>5 DEF RecordInv, SessionRecord
<1>3. CASE r.stage # "live"
  <2>1. q.stage # "live" /\ ~q.timer /\ q.conn \in {"disconnecting", "idle"}
    BY <1>1, <1>3 DEF RecordInv, Departing, Gone, SessionRecord
  <2>2. [q EXCEPT !.timer = FALSE] = q
    BY <1>1, <2>1 DEF SessionRecord
  <2>3. Transition(q, "failed") = q /\ Transition(q, "reconnecting") = q
    BY <2>1 DEF Transition, ALLOWED_TRANSITIONS
  <2>4. FailReconnect(q) = q
    BY <2>1, <2>2, <2>3 DEF FailReconnect, Tell, Teardown
  <2>5. FailConnect(q) = q /\ ScheduleReconnect(q, TRUE) = q
    BY <2>1 DEF FailConnect, ScheduleReconnect, Ended
  <2>6. ConnectRejected(q, recoverable) = q
    BY <2>3, <2>4, <2>5 DEF ConnectRejected
  <2>7. Follows(q, q) /\ RecordInv(q)
    BY <1>1, <1>3 DEF Follows, RecordInv, Departing, Gone, SessionRecord
  <2> QED BY <2>6, <2>7
<1> QED BY <1>2, <1>3

LEMMA AfterDropFields ==
    ASSUME NEW r, RecordInv(r)
    PROVE  LET q == AfterDrop(r)
           IN /\ q \in SessionRecord /\ CallMatchesLink(q)
              /\ q.call \in {"none", "dead"} /\ q.link = "down"
              /\ q.stage = r.stage /\ q.conn = r.conn /\ q.ever = r.ever
              /\ q.sock = r.sock /\ q.told = r.told
              /\ q.timer = r.timer /\ q.window = r.window
<1> DEFINE q == AfterDrop(r)
<1>1. q = [r EXCEPT !.link = "down", !.call = IF r.call = "none" THEN "none" ELSE "dead"]
  BY DEF AfterDrop, RecordInv, SessionRecord
<1> HIDE DEF q
<1>2. /\ q \in SessionRecord /\ q.call \in {"none", "dead"} /\ q.link = "down"
      /\ q.stage = r.stage /\ q.conn = r.conn /\ q.ever = r.ever
      /\ q.sock = r.sock /\ q.told = r.told /\ q.timer = r.timer /\ q.window = r.window
  BY <1>1 DEF RecordInv, SessionRecord
<1>3. CallMatchesLink(q)
  BY <1>2 DEF CallMatchesLink
<1> QED BY <1>2, <1>3 DEF q

LEMMA DropInv ==
    ASSUME NEW r, RecordInv(r), NEW recoverable \in BOOLEAN,
           r.link = "up" \/ r.call = "handshake"
    PROVE  /\ RecordInv(OnDisconnect(AfterDrop(r), recoverable))
           /\ Follows(AfterDrop(r), OnDisconnect(AfterDrop(r), recoverable))
<1> DEFINE q == AfterDrop(r)
<1>1. /\ q \in SessionRecord /\ CallMatchesLink(q)
      /\ q.call \in {"none", "dead"} /\ q.link = "down"
      /\ q.stage = r.stage /\ q.conn = r.conn /\ q.ever = r.ever
      /\ q.sock = r.sock /\ q.told = r.told /\ q.timer = r.timer /\ q.window = r.window
  BY AfterDropFields
<1> SUFFICES /\ RecordInv(OnDisconnect(q, recoverable))
             /\ Follows(q, OnDisconnect(q, recoverable))
  OBVIOUS
<1> HIDE DEF q
<1>2. CASE r.stage = "live"
  <2>1. Attempting(r) \/ Talking(r)
    BY <1>2 DEF RecordInv, Attempting, Talking, Waiting, Departing, Gone, CallMatchesLink
  <2>2. q.stage = "live"
    BY <1>1, <1>2
  <2>3. IsCurrent(q)
    BY <1>1, <2>1, <2>2 DEF IsCurrent, Ended, Attempting, Talking
  <2> DEFINE p == ResetDirectoryForReconnect(q)
  <2>4. /\ p \in SessionRecord /\ p.stage = "live" /\ p.conn = q.conn /\ p.ever = q.ever
        /\ p.sock = q.sock /\ p.told = q.told /\ p.timer = q.timer /\ p.window = q.window
        /\ p.call = q.call /\ p.link = q.link
        /\ ~p.ready /\ ~p.directory /\ ~p.published
    BY <1>1, <2>2 DEF ResetDirectoryForReconnect, SessionRecord
  <2>5. CASE Attempting(r) /\ ~r.ever
    <3>1. OnDisconnect(q, recoverable) = FailConnect(q)
      BY <1>1, <2>3, <2>5 DEF OnDisconnect, IsSettling, Attempting
    <3> QED BY <1>1, <2>2, <2>5, <3>1, FailConnectDeparts DEF Attempting, Ended
  <2>6. CASE Attempting(r) /\ r.ever
    <3> DEFINE v == Transition(p, "reconnecting")
    <3>1. OnDisconnect(q, recoverable) = ScheduleReconnect(v, recoverable)
      BY <1>1, <2>3, <2>6 DEF OnDisconnect, IsSettling, Attempting
    <3>2. <<"authenticating", "reconnecting">> \in ALLOWED_TRANSITIONS
      BY DEF ALLOWED_TRANSITIONS
    <3>3. p.conn = "authenticating"
      BY <1>1, <2>4, <2>6 DEF Attempting
    <3> HIDE DEF p
    <3>4. v = [p EXCEPT !.conn = "reconnecting"]
      BY <3>2, <3>3 DEF Transition
    <3>5. /\ v \in SessionRecord /\ v.stage = "live" /\ v.conn = "reconnecting"
          /\ v.call = q.call /\ v.link = q.link /\ v.ever = q.ever
          /\ v.sock = q.sock /\ v.told = q.told /\ v.timer = q.timer /\ v.window = q.window
          /\ ~v.ready /\ ~v.directory /\ ~v.published
      BY <2>4, <3>4 DEF SessionRecord, ConnectionState
    <3>6. ~v.timer /\ v.ever
      BY <1>1, <2>6, <3>5 DEF Attempting
    <3> HIDE DEF v
    <3>7. /\ RecordInv(ScheduleReconnect(v, recoverable))
          /\ Follows(v, ScheduleReconnect(v, recoverable))
      BY <1>1, <3>5, <3>6, ScheduleReconnectWaits
    <3> QED BY <2>2, <3>1, <3>5, <3>7 DEF Follows
  <2>7. CASE Talking(r)
    <3> DEFINE v == Tell(p, "recovering")
    <3>1. OnDisconnect(q, recoverable) = ScheduleReconnect(v, recoverable)
      BY <1>1, <2>3, <2>7 DEF OnDisconnect, IsSettling, Talking
    <3> HIDE DEF p
    <3>2. /\ v \in SessionRecord /\ v.stage = "live" /\ v.conn = q.conn
          /\ v.call = q.call /\ v.link = q.link /\ v.ever = q.ever
          /\ v.timer = q.timer /\ v.window = q.window
          /\ ~v.ready /\ ~v.directory /\ ~v.published
      BY <2>4 DEF Tell, SessionRecord
    <3>3. v.conn = "connected" /\ v.ever /\ ~v.timer
      BY <1>1, <2>7, <3>2 DEF Talking
    <3> HIDE DEF v
    <3>4. /\ RecordInv(ScheduleReconnect(v, recoverable))
          /\ Follows(v, ScheduleReconnect(v, recoverable))
      BY <1>1, <3>2, <3>3, ScheduleReconnectWaits
    <3> QED BY <2>2, <3>1, <3>2, <3>4 DEF Follows
  <2> QED BY <2>1, <2>5, <2>6, <2>7
<1>3. CASE r.stage # "live"
  <2>2. OnDisconnect(q, recoverable) = q
    BY <1>1, <1>3 DEF OnDisconnect, IsCurrent
  <2>3. RecordInv(q)
    BY <1>1, <1>3 DEF RecordInv, Departing, Gone, SessionRecord
  <2> QED BY <2>2, <2>3 DEF Follows
<1> QED BY <1>2, <1>3

LEMMA KickInv ==
    ASSUME NEW r, RecordInv(r), r.link = "up" \/ r.conn = "reconnecting"
    PROVE  /\ RecordInv(OnKick(AfterDrop(r)))
           /\ Follows(AfterDrop(r), OnKick(AfterDrop(r)))
<1> DEFINE q == AfterDrop(r)
<1>1. /\ q \in SessionRecord /\ CallMatchesLink(q)
      /\ q.call \in {"none", "dead"} /\ q.link = "down"
      /\ q.stage = r.stage /\ q.conn = r.conn /\ q.ever = r.ever
      /\ q.sock = r.sock /\ q.told = r.told /\ q.timer = r.timer /\ q.window = r.window
  BY AfterDropFields
<1> SUFFICES RecordInv(OnKick(q)) /\ Follows(q, OnKick(q))
  OBVIOUS
<1> HIDE DEF q
<1>2. CASE r.stage = "live"
  <2>1. q.stage = "live"
    BY <1>1, <1>2
  <2>2. IsCurrent(q) /\ (q.ever \/ IsSettling(q))
    BY <1>1, <1>2, <2>1
    DEF RecordInv, IsCurrent, IsSettling, Ended, Attempting, Talking, Waiting, Departing, Gone
  <2> DEFINE v == Tell(ResetDirectoryForReconnect(q), "failed")
  <2>3. /\ v \in SessionRecord /\ v.stage = "live" /\ v.call = q.call /\ v.link = q.link
        /\ v.window = q.window /\ v.ever = q.ever
    BY <1>1, <2>1 DEF Tell, ResetDirectoryForReconnect, SessionRecord
  <2>4. OnKick(q) = Teardown(v)
    BY <2>2 DEF OnKick
  <2> HIDE DEF v
  <2>5. CallMatchesLink(v)
    BY <1>1, <2>3 DEF CallMatchesLink
  <2> QED BY <1>1, <2>1, <2>3, <2>4, <2>5, TeardownDeparts DEF Follows
<1>3. CASE r.stage # "live"
  <2>2. OnKick(q) = q
    BY <1>1, <1>3 DEF OnKick, IsCurrent
  <2>3. RecordInv(q)
    BY <1>1, <1>3 DEF RecordInv, Departing, Gone, SessionRecord
  <2> QED BY <2>2, <2>3 DEF Follows
<1> QED BY <1>2, <1>3

LEMMA TornDownInv ==
    ASSUME NEW r, RecordInv(r)
    PROVE  RecordInv(Teardown(r)) /\ Follows(r, Teardown(r))
<1>1. CASE r.stage = "live"
  BY <1>1, TeardownDeparts DEF RecordInv, CallMatchesLink
<1>2. CASE r.stage # "live"
  BY <1>2 DEF Teardown, Follows
<1> QED BY <1>1, <1>2

LEMMA SocketClosedInv ==
    ASSUME NEW r, RecordInv(r)
    PROVE  LET q == [r EXCEPT !.sock = FALSE]
           IN  /\ RecordInv(q) /\ Follows(r, q)
               /\ q.told = r.told /\ q.window = r.window /\ q.ever = r.ever
<1> DEFINE q == [r EXCEPT !.sock = FALSE]
<1>1. /\ q \in SessionRecord /\ CallMatchesLink(q) /\ Follows(r, q)
      /\ q.told = r.told /\ q.window = r.window /\ q.ever = r.ever
  BY DEF RecordInv, SessionRecord, CallMatchesLink, Follows
<1>2. r.stage = "live" => q.stage = "live" /\ (Attempting(q) \/ Talking(q) \/ Waiting(q))
  BY DEF RecordInv, SessionRecord, Attempting, Talking, Waiting, Departing, Gone
<1>3. r.stage # "live" => Departing(q) \/ Gone(q)
  BY DEF RecordInv, SessionRecord, Departing, Gone
<1> QED BY <1>1, <1>2, <1>3 DEF RecordInv

LEMMA SilenceInv ==
    ASSUME NEW r, RecordInv(r), r.stage = "live", NEW n \in 0..MaxMissed
    PROVE  LET q == [r EXCEPT !.silent = n]
           IN  RecordInv(q) /\ Follows(r, q)
<1> DEFINE q == [r EXCEPT !.silent = n]
<1>1. q \in SessionRecord /\ CallMatchesLink(q) /\ Follows(r, q) /\ q.stage = "live"
  BY DEF RecordInv, SessionRecord, CallMatchesLink, Follows
<1>2. Attempting(q) \/ Talking(q) \/ Waiting(q)
  BY DEF RecordInv, SessionRecord, Attempting, Talking, Waiting, Departing, Gone
<1> QED BY <1>1, <1>2 DEF RecordInv

LEMMA BeatInv ==
    ASSUME NEW r, RecordInv(r)
    PROVE  RecordInv(Beat(r)) /\ Follows(r, Beat(r))
<1>1. CASE r.stage # "live" \/ ~r.sock
  BY <1>1 DEF Beat, Follows
<1>2. CASE r.stage = "live" /\ r.sock /\ r.silent < MaxMissed
  <2>1. r.silent + 1 \in 0..MaxMissed
    BY <1>2, LimitsAssumption DEF RecordInv, SessionRecord
  <2>2. Beat(r) = [r EXCEPT !.silent = r.silent + 1]
    BY <1>2 DEF Beat
  <2> QED BY <1>2, <2>1, <2>2, SilenceInv
<1>3. CASE r.stage = "live" /\ r.sock /\ ~(r.silent < MaxMissed)
  <2> DEFINE q == [r EXCEPT !.sock = FALSE]
  <2>1. Beat(r) = Teardown(q)
    BY <1>3 DEF Beat
  <2>2. /\ RecordInv(q) /\ Follows(r, q)
        /\ q.told = r.told /\ q.window = r.window /\ q.ever = r.ever
    BY SocketClosedInv
  <2> HIDE DEF q
  <2>3. RecordInv(Teardown(q)) /\ Follows(q, Teardown(q))
    BY <2>2, TornDownInv
  <2> QED BY <2>1, <2>2, <2>3 DEF Follows
<1> QED BY <1>1, <1>2, <1>3

LEMMA WindowExpiryInv ==
    ASSUME NEW r, RecordInv(r), r.window = "open"
    PROVE  LET q == [r EXCEPT !.window = "expired"]
           IN  RecordInv(q) /\ Follows(r, q)
<1> DEFINE q == [r EXCEPT !.window = "expired"]
<1>1. q \in SessionRecord /\ CallMatchesLink(q) /\ Follows(r, q)
  BY DEF RecordInv, SessionRecord, CallMatchesLink, Follows
<1>2. r.stage = "live" => q.stage = "live" /\ (Attempting(q) \/ Waiting(q))
  BY DEF RecordInv, SessionRecord, Attempting, Talking, Waiting, Departing, Gone
<1>3. r.stage # "live" => Departing(q)
  BY DEF RecordInv, SessionRecord, Departing, Gone
<1> QED BY <1>1, <1>2, <1>3 DEF RecordInv

LEMMA RetryInv ==
    ASSUME NEW s, NEW r, RecordInv(r), r.timer, r.call = "none"
    PROVE  LET t == [r EXCEPT !.timer = FALSE]
               q == Connecting(s, Transition(Transition(t, "connecting"), "authenticating"))
           IN  /\ t.conn = "reconnecting"
               /\ RecordInv(q)
               /\ Respects(r, q) /\ q.stage = "live"
               /\ q.call = "prepare" => s \in Prepared
<1> DEFINE t == [r EXCEPT !.timer = FALSE]
           p == Transition(Transition(t, "connecting"), "authenticating")
           q == Connecting(s, p)
<1>1. r.stage = "live" /\ Waiting(r)
  BY DEF RecordInv, Attempting, Talking, Departing, Gone
<1>2. t.conn = "reconnecting"
  BY <1>1 DEF RecordInv, SessionRecord, Waiting
<1>3. p = [r EXCEPT !.timer = FALSE, !.conn = "authenticating"]
  BY <1>2 DEF Transition, ALLOWED_TRANSITIONS, RecordInv, SessionRecord
<1>4. q = [r EXCEPT !.timer = FALSE, !.conn = "authenticating",
                    !.call = IF s \in Prepared THEN "prepare" ELSE "handshake"]
  BY <1>3 DEF Connecting, RecordInv, SessionRecord
<1> HIDE DEF p, q
<1>5. q \in SessionRecord /\ CallMatchesLink(q) /\ Attempting(q) /\ q.stage = "live"
      /\ (q.call = "prepare" => s \in Prepared) /\ Respects(r, q)
  BY <1>1, <1>4
  DEF RecordInv, Respects, SessionRecord, ConnectionState, Waiting, Attempting, CallMatchesLink
<1> QED BY <1>1, <1>2, <1>5 DEF RecordInv, p, q

LEMMA CallProgressInv ==
    ASSUME NEW r, RecordInv(r)
    PROVE  /\ r.call = "prepare" => RecordInv([r EXCEPT !.call = "handshake"])
           /\ r.call = "handshake" => RecordInv([r EXCEPT !.call = "join", !.link = "up"])
<1>1. ASSUME r.call = "prepare"
      PROVE  RecordInv([r EXCEPT !.call = "handshake"])
  <2> DEFINE q == [r EXCEPT !.call = "handshake"]
  <2>1. q \in SessionRecord /\ CallMatchesLink(q)
    BY <1>1 DEF RecordInv, SessionRecord, CallMatchesLink
  <2>2. \/ q.stage = "live" /\ Attempting(q)
        \/ Departing(q) \/ Gone(q)
    BY <1>1 DEF RecordInv, SessionRecord, Attempting, Talking, Waiting, Departing, Gone
  <2> QED BY <2>1, <2>2 DEF RecordInv
<1>2. ASSUME r.call = "handshake"
      PROVE  RecordInv([r EXCEPT !.call = "join", !.link = "up"])
  <2> DEFINE q == [r EXCEPT !.call = "join", !.link = "up"]
  <2>1. q \in SessionRecord /\ CallMatchesLink(q)
    BY <1>2 DEF RecordInv, SessionRecord, CallMatchesLink
  <2>2. \/ q.stage = "live" /\ Attempting(q)
        \/ Departing(q) \/ Gone(q)
    BY <1>2 DEF RecordInv, SessionRecord, Attempting, Talking, Waiting, Departing, Gone
  <2> QED BY <2>1, <2>2 DEF RecordInv
<1> QED BY <1>1, <1>2

-----------------------------------------------------------------------------
(* The invariant is inductive. *)

LEMMA FollowsDirect ==
    ASSUME NEW r, NEW q, DirectInv(r), Follows(r, q)
    PROVE  DirectInv(q)
BY DEF DirectInv, Follows

(* A step of one session, which neither admits nor removes it. *)
Quiet(s) ==
    \E q \in SessionRecord :
        /\ Update(s, q) /\ UNCHANGED <<accepting, lease>>
        /\ Respects(session[s], q)

LEMMA UpdateInv ==
    ASSUME IInv, NEW s \in Sessions, NEW q,
           Update(s, q), UNCHANGED <<accepting, lease>>,
           RecordInv(q),
           s \notin Prepared => DirectInv(q),
           Respects(session[s], q)
    PROVE  IInv' /\ Quiet(s)
<1>1. session' \in [Sessions -> SessionRecord]
  BY DEF Update, IInv, TypeOK, RecordInv
<1>2. \A t \in Sessions : session'[t] = IF t = s THEN q ELSE session[t]
  BY DEF Update, IInv, TypeOK
<1>3. TypeOK'
  BY <1>1 DEF IInv, TypeOK
<1>4. Managed' = Managed
  BY <1>2 DEF Managed, Respects
<1>5. LeaseMatchesSession'
  BY <1>4 DEF IInv, LeaseMatchesSession
<1>6. CapacityRespected'
  BY <1>4 DEF IInv, CapacityRespected
<1>7. IInv'
  BY <1>2, <1>3, <1>5, <1>6 DEF IInv
<1> QED
  BY <1>7 DEF Quiet, RecordInv

LEMMA EverySessionInv ==
    ASSUME IInv, NEW F,
           F \in [Sessions -> SessionRecord],
           \A s \in Sessions : RecordInv(F[s]) /\ Follows(session[s], F[s]),
           session' = F, accepting' \in BOOLEAN, UNCHANGED lease
    PROVE  IInv'
<1>1. TypeOK'
  BY DEF IInv, TypeOK
<1>2. \A s \in Sessions : RecordInv(session'[s])
  OBVIOUS
<1>3. \A s \in Sessions \ Prepared : DirectInv(session'[s])
  BY FollowsDirect DEF IInv
<1>4. Managed' = Managed
  BY DEF Managed, Follows
<1>5. LeaseMatchesSession'
  BY <1>4 DEF IInv, LeaseMatchesSession
<1>6. CapacityRespected'
  BY <1>4 DEF IInv, CapacityRespected
<1> QED
  BY <1>1, <1>2, <1>3, <1>5, <1>6 DEF IInv

LEMMA BlankType == Blank \in SessionRecord
<1>1. 0 \in 0..MaxMissed
  BY LimitsAssumption
<1> QED BY <1>1 DEF Blank, SessionRecord, ConnectionState

LEMMA ManagedFinite ==
    /\ IsFiniteSet(Managed) /\ Cardinality(Managed) \in Nat
    /\ \A s : s \notin Managed => Cardinality(Managed \cup {s}) = Cardinality(Managed) + 1
    /\ \A s : s \in Managed => Cardinality(Managed \ {s}) = Cardinality(Managed) - 1
<1>1. IsFiniteSet(Managed)
  BY SessionsAssumption, FS_Subset DEF Managed
<1> QED
  BY <1>1, FS_CardinalityType, FS_AddElement, FS_RemoveElement

LEMMA AdmissionInv ==
    ASSUME IInv, NEW s \in Sessions, Admit(s) \/ EncoderUnavailable(s)
    PROVE  IInv'
<1> DEFINE fresh == [Blank EXCEPT !.stage = "live", !.sock = TRUE]
           joined == Connecting(s, Transition(Transition(fresh, "connecting"),
                                              "authenticating"))
<1>1. /\ Admissible(s) /\ LeaseFree(s) /\ Acquire(s)
      /\ \/ Update(s, joined)
         \/ Update(s, Teardown(fresh))
      /\ UNCHANGED accepting
  BY DEF Admit, EncoderUnavailable
<1>2. fresh \in SessionRecord /\ fresh.stage = "live" /\ fresh.conn = "idle"
      /\ fresh.call = "none" /\ fresh.link = "down"
  <2>1. fresh \in SessionRecord
    BY BlankType DEF SessionRecord
  <2> QED BY <2>1 DEF Blank
<1>3. /\ RecordInv(Teardown(fresh)) /\ Teardown(fresh).stage # "absent"
      /\ DirectInv(Teardown(fresh))
  <2> HIDE DEF fresh
  <2>1. CallMatchesLink(fresh)
    BY <1>2 DEF CallMatchesLink
  <2>2. RecordInv(Teardown(fresh)) /\ Follows(fresh, Teardown(fresh))
    BY <1>2, <2>1, TeardownDeparts
  <2>3. DirectInv(fresh)
    BY <1>2 DEF DirectInv
  <2> QED BY <1>2, <2>2, <2>3, FollowsDirect DEF Follows
<1>4. /\ RecordInv(joined) /\ joined.stage # "absent"
      /\ s \notin Prepared => DirectInv(joined)
  <2>1. Transition(Transition(fresh, "connecting"), "authenticating")
          = [fresh EXCEPT !.conn = "authenticating"]
    BY DEF Blank, Transition, ALLOWED_TRANSITIONS
  <2> DEFINE q == [fresh EXCEPT !.conn = "authenticating",
                                !.call = IF s \in Prepared THEN "prepare" ELSE "handshake"]
  <2>2. joined = q
    BY <2>1 DEF Connecting, Blank
  <2>3. q \in SessionRecord
    BY <1>2 DEF SessionRecord, ConnectionState
  <2>4. /\ q.stage = "live" /\ CallMatchesLink(q) /\ Attempting(q)
        /\ s \notin Prepared => DirectInv(q)
    BY DEF Blank, CallMatchesLink, Attempting, DirectInv
  <2> HIDE DEF q
  <2> QED BY <2>2, <2>3, <2>4 DEF RecordInv
<1> HIDE DEF fresh, joined
<1>5. PICK q : /\ Update(s, q) /\ RecordInv(q) /\ q.stage # "absent"
               /\ s \notin Prepared => DirectInv(q)
  BY <1>1, <1>3, <1>4
<1>6. /\ session' \in [Sessions -> SessionRecord]
      /\ \A t \in Sessions : session'[t] = IF t = s THEN q ELSE session[t]
  BY <1>5 DEF Update, IInv, TypeOK, RecordInv
<1>7. lease' \in [Keys -> Sessions \cup {NoOwner}]
  BY <1>1 DEF Acquire, IInv, TypeOK
<1>8. TypeOK'
  BY <1>1, <1>6, <1>7 DEF IInv, TypeOK
<1>9. session[s].stage = "absent" /\ Managed' = Managed \cup {s} /\ s \notin Managed
  BY <1>1, <1>5, <1>6 DEF Admissible, Managed, Blank
<1>10. LeaseMatchesSession'
  <2>1. \A t \in Managed' : t \in Managed \/ t = s
    BY <1>9
  <2>2. \A k \in Keys : lease'[k] = IF k = KeyOf[s] THEN s ELSE lease[k]
    BY <1>1 DEF Acquire
  <2>3. ASSUME NEW t \in Managed, NEW k \in Keys, k = KeyOf[t]
        PROVE  k # KeyOf[s] /\ lease[k] = t
    <3>1. lease[k] = t /\ t # NoOwner /\ t # s
      BY <1>9, <2>3, SessionsAssumption DEF IInv, LeaseMatchesSession, Managed
    <3> QED BY <1>1, <3>1 DEF LeaseFree
  <2>4. \A t \in Managed', k \in Keys : k = KeyOf[t] => lease'[k] = t
    BY <2>1, <2>2, <2>3
  <2>5. \A k \in Keys :
           lease'[k] # NoOwner => lease'[k] \in Managed' /\ KeyOf[lease'[k]] = k
    BY <1>9, <2>2 DEF IInv, LeaseMatchesSession
  <2> QED BY <2>4, <2>5 DEF LeaseMatchesSession
<1>11. CapacityRespected'
  BY <1>1, <1>9, ManagedFinite, LimitsAssumption DEF Admissible, CapacityRespected
<1> QED
  BY <1>5, <1>6, <1>8, <1>10, <1>11 DEF IInv

LEMMA RemovedInv ==
    ASSUME IInv, NEW s \in Sessions, Removed(s)
    PROVE  IInv'
<1> DEFINE r == session[s]
           q == [Blank EXCEPT !.call = r.call,
                              !.link = IF r.link = "closing" THEN "down" ELSE r.link]
<1>1. /\ r.stage = "leaving" /\ Update(s, q) /\ UNCHANGED accepting
      /\ lease' = [k \in Keys |-> IF k = KeyOf[s] /\ lease[k] = s THEN NoOwner ELSE lease[k]]
  BY DEF Removed
<1>2. RecordInv(r) /\ (s \notin Prepared => DirectInv(r))
  BY DEF IInv
<1> HIDE DEF r
<1>3. q \in SessionRecord
  BY <1>2, BlankType DEF RecordInv, SessionRecord
<1>4. RecordInv(q) /\ q.stage = "absent" /\ (s \notin Prepared => DirectInv(q))
  <2>1. q.stage = "absent" /\ Gone(q) /\ CallMatchesLink(q)
    BY <1>1, <1>2 DEF RecordInv, Blank, Gone, CallMatchesLink
  <2>2. s \notin Prepared => DirectInv(q)
    BY <1>1, <1>2 DEF Blank, DirectInv
  <2> HIDE DEF q
  <2> QED BY <1>3, <2>1, <2>2 DEF RecordInv
<1> HIDE DEF q
<1>5. /\ session' \in [Sessions -> SessionRecord]
      /\ \A t \in Sessions : session'[t] = IF t = s THEN q ELSE session[t]
  BY <1>1, <1>3 DEF Update, IInv, TypeOK
<1>6. TypeOK'
  BY <1>1, <1>5 DEF IInv, TypeOK
<1>7. Managed' = Managed \ {s} /\ s \in Managed
  BY <1>1, <1>4, <1>5 DEF Managed, r
<1>8. LeaseMatchesSession'
  <2>1. \A t \in Managed', k \in Keys : k = KeyOf[t] => lease'[k] = t
    BY <1>1, <1>7 DEF LeaseMatchesSession, IInv
  <2>2. \A k \in Keys :
           lease'[k] # NoOwner => lease'[k] \in Managed' /\ KeyOf[lease'[k]] = k
    <3> SUFFICES ASSUME NEW k \in Keys, lease'[k] # NoOwner
                 PROVE  lease'[k] \in Managed' /\ KeyOf[lease'[k]] = k
      OBVIOUS
    <3>1. lease'[k] = lease[k] /\ (k = KeyOf[s] => lease[k] # s)
      BY <1>1
    <3>2. lease[k] \in Managed /\ KeyOf[lease[k]] = k
      BY <3>1 DEF LeaseMatchesSession, IInv
    <3>3. lease[k] # s
      BY <3>1, <3>2
    <3> QED BY <1>7, <3>1, <3>2, <3>3
  <2> QED BY <2>1, <2>2 DEF LeaseMatchesSession
<1>9. CapacityRespected'
  BY <1>7, ManagedFinite, LimitsAssumption DEF IInv, CapacityRespected
<1> QED
  BY <1>4, <1>5, <1>6, <1>8, <1>9 DEF IInv

LEMMA SessionStepInv ==
    ASSUME IInv, NEW s \in Sessions, SessionStep(s)
    PROVE  IInv' /\ (Quiet(s) \/ Admit(s) \/ EncoderUnavailable(s) \/ Removed(s))
<1> DEFINE r == session[s]
<1>1. RecordInv(r) /\ (s \notin Prepared => DirectInv(r))
  BY DEF IInv
<1>2. CASE Admit(s) \/ EncoderUnavailable(s)
  BY <1>2, AdmissionInv
<1>3. CASE PrepareDone(s)
  <2> DEFINE q == [r EXCEPT !.call = "handshake"]
  <2>1. r.call = "prepare" /\ Update(s, q) /\ UNCHANGED <<accepting, lease>>
    BY <1>3 DEF PrepareDone
  <2>2. RecordInv(q)
    BY <1>1, <2>1, CallProgressInv
  <2>3. Respects(r, q) /\ s \in Prepared
    BY <1>1, <2>1 DEF RecordInv, SessionRecord, DirectInv, Respects
  <2> HIDE DEF q
  <2> QED BY <2>1, <2>2, <2>3, UpdateInv
<1>4. CASE HandshakeAccepted(s)
  <2> DEFINE q == [r EXCEPT !.call = "join", !.link = "up"]
  <2>1. r.call = "handshake" /\ Update(s, q) /\ UNCHANGED <<accepting, lease>>
    BY <1>4 DEF HandshakeAccepted
  <2>2. RecordInv(q)
    BY <1>1, <2>1, CallProgressInv
  <2>3. Respects(r, q) /\ (s \notin Prepared => DirectInv(q))
    BY <1>1, <2>1 DEF RecordInv, SessionRecord, DirectInv, Respects
  <2> HIDE DEF q
  <2> QED BY <2>1, <2>2, <2>3, UpdateInv
<1>5. CASE ViewRead(s)
  <2> DEFINE p == OnDirectorySnapshot(r)
             q == [p EXCEPT !.call = "restore"]
  <2>1. r.call = "join" /\ Update(s, q) /\ UNCHANGED <<accepting, lease>>
    BY <1>5 DEF ViewRead
  <2>2. RecordInv(q)
    BY <1>1, <2>1, ViewReadInv
  <2>3. /\ p \in SessionRecord /\ p.stage = r.stage /\ p.told = r.told
        /\ p.window = r.window /\ p.ever = r.ever
    <3>1. p = [r EXCEPT !.directory = TRUE] \/ p = r
      BY <1>1, SnapshotKeeps
    <3> HIDE DEF p, r
    <3> QED BY <1>1, <3>1 DEF RecordInv, SessionRecord
  <2>4. q.stage = r.stage /\ q.call = "restore" /\ Respects(r, q)
    <3> HIDE DEF p
    <3> QED BY <2>3 DEF SessionRecord, Respects
  <2>5. s \notin Prepared => DirectInv(q)
    BY <1>1, <2>1, <2>4 DEF DirectInv
  <2> HIDE DEF q
  <2> QED BY <2>1, <2>2, <2>4, <2>5, UpdateInv
<1>6. CASE ViewChanged(s)
  <2> DEFINE q == OnDirectorySnapshot(r)
  <2>1. r.link = "up" /\ Update(s, q) /\ UNCHANGED <<accepting, lease>>
    BY <1>6 DEF ViewChanged
  <2>2. RecordInv(q) /\ Follows(r, q)
    BY <1>1, <2>1, ViewChangedInv
  <2> HIDE DEF q
  <2>3. Respects(r, q)
    BY <2>2, FollowsRespects
  <2> QED BY <1>1, <2>1, <2>2, <2>3, FollowsDirect, UpdateInv
<1>7. CASE ConnectFulfils(s)
  <2> DEFINE p == Settled(r)
             q == ConnectFulfilled(p)
  <2>1. /\ r.call \in {"restore", "dead"} /\ Update(s, q)
        /\ UNCHANGED <<accepting, lease>>
    BY <1>7 DEF ConnectFulfils, Settled
  <2>2. RecordInv(q) /\ Follows(p, q)
    BY <1>1, <2>1, ConnectFulfilledInv
  <2>3. /\ p.stage = r.stage /\ p.told = r.told /\ p.window = r.window /\ p.ever = r.ever
        /\ s \notin Prepared => DirectInv(p)
    BY <1>1 DEF Settled, RecordInv, SessionRecord, DirectInv
  <2> HIDE DEF p, q
  <2>4. Respects(r, q)
    BY <2>2, <2>3, FollowsRespects
  <2> QED BY <2>1, <2>2, <2>3, <2>4, FollowsDirect, UpdateInv
<1>8. CASE ConnectRejects(s)
  <2> DEFINE p == Settled(r)
  <2>1. PICK recoverable \in BOOLEAN :
           /\ r.call \in {"prepare", "handshake", "dead"}
           /\ Update(s, ConnectRejected(p, recoverable))
           /\ UNCHANGED <<accepting, lease>>
    BY <1>8 DEF ConnectRejects, Settled
  <2> DEFINE q == ConnectRejected(p, recoverable)
  <2>2. RecordInv(q) /\ Follows(p, q)
    BY <1>1, <2>1, ConnectRejectedInv
  <2>3. /\ p.stage = r.stage /\ p.told = r.told /\ p.window = r.window /\ p.ever = r.ever
        /\ s \notin Prepared => DirectInv(p)
    BY <1>1 DEF Settled, RecordInv, SessionRecord, DirectInv
  <2> HIDE DEF p
  <2>4. Update(s, q) /\ UNCHANGED <<accepting, lease>>
    BY <2>1
  <2> HIDE DEF q
  <2>5. Respects(r, q)
    BY <2>2, <2>3, FollowsRespects
  <2> QED BY <2>2, <2>3, <2>4, <2>5, FollowsDirect, UpdateInv
<1>9. CASE TransportLost(s)
  <2> DEFINE p == AfterDrop(r)
  <2>1. PICK recoverable \in BOOLEAN :
           /\ r.link = "up" \/ r.call = "handshake"
           /\ Update(s, OnDisconnect(p, recoverable))
           /\ UNCHANGED <<accepting, lease>>
    BY <1>9 DEF TransportLost, AfterDrop
  <2> DEFINE q == OnDisconnect(p, recoverable)
  <2>2. RecordInv(q) /\ Follows(p, q)
    BY <1>1, <2>1, DropInv
  <2>3. /\ p.stage = r.stage /\ p.told = r.told /\ p.window = r.window /\ p.ever = r.ever
        /\ p.link = "down" /\ p.call \in {"none", "dead"}
    BY <1>1, AfterDropFields
  <2> HIDE DEF p
  <2>4. DirectInv(p)
    BY <2>3 DEF DirectInv
  <2>5. Update(s, q) /\ UNCHANGED <<accepting, lease>>
    BY <2>1
  <2> HIDE DEF q
  <2>6. Respects(r, q)
    BY <2>2, <2>3, FollowsRespects
  <2> QED BY <2>2, <2>4, <2>5, <2>6, FollowsDirect, UpdateInv
<1>10. CASE Kicked(s)
  <2> DEFINE p == AfterDrop(r)
             q == OnKick(p)
  <2>1. /\ r.link = "up" \/ r.conn = "reconnecting"
        /\ Update(s, q) /\ UNCHANGED <<accepting, lease>>
    BY <1>10 DEF Kicked, AfterDrop
  <2>2. RecordInv(q) /\ Follows(p, q)
    BY <1>1, <2>1, KickInv
  <2>3. /\ p.stage = r.stage /\ p.told = r.told /\ p.window = r.window /\ p.ever = r.ever
        /\ p.link = "down" /\ p.call \in {"none", "dead"}
    BY <1>1, AfterDropFields
  <2> HIDE DEF p
  <2>4. DirectInv(p)
    BY <2>3 DEF DirectInv
  <2> HIDE DEF q
  <2>5. Respects(r, q)
    BY <2>2, <2>3, FollowsRespects
  <2> QED BY <2>1, <2>2, <2>4, <2>5, FollowsDirect, UpdateInv
<1>11. CASE ReconnectTimerFires(s)
  <2> DEFINE t == [r EXCEPT !.timer = FALSE]
             q == Connecting(s, Transition(Transition(t, "connecting"), "authenticating"))
  <2>1. r.timer /\ r.call = "none"
    BY <1>11 DEF ReconnectTimerFires
  <2>2. /\ t.conn = "reconnecting" /\ RecordInv(q)
        /\ Respects(r, q) /\ q.stage = "live"
        /\ q.call = "prepare" => s \in Prepared
    BY <1>1, <2>1, RetryInv
  <2>3. Update(s, q) /\ UNCHANGED <<accepting, lease>>
    BY <1>11, <2>2 DEF ReconnectTimerFires
  <2> HIDE DEF q
  <2>4. s \notin Prepared => DirectInv(q)
    BY <2>2 DEF DirectInv
  <2> QED BY <2>2, <2>3, <2>4, UpdateInv
<1>12. CASE ReconnectWindowExpires(s)
  <2> DEFINE q == [r EXCEPT !.window = "expired"]
  <2>1. r.window = "open" /\ Update(s, q) /\ UNCHANGED <<accepting, lease>>
    BY <1>12 DEF ReconnectWindowExpires
  <2>2. RecordInv(q) /\ Follows(r, q)
    BY <1>1, <2>1, WindowExpiryInv
  <2> HIDE DEF q
  <2>3. Respects(r, q)
    BY <2>2, FollowsRespects
  <2> QED BY <1>1, <2>1, <2>2, <2>3, FollowsDirect, UpdateInv
<1>13. CASE Pong(s)
  <2> DEFINE q == [r EXCEPT !.silent = 0]
  <2>1. r.stage = "live" /\ Update(s, q) /\ UNCHANGED <<accepting, lease>>
    BY <1>13 DEF Pong
  <2>2. RecordInv(q) /\ Follows(r, q)
    <3>1. 0 \in 0..MaxMissed
      BY LimitsAssumption
    <3> QED BY <1>1, <2>1, <3>1, SilenceInv
  <2> HIDE DEF q
  <2>3. Respects(r, q)
    BY <2>2, FollowsRespects
  <2> QED BY <1>1, <2>1, <2>2, <2>3, FollowsDirect, UpdateInv
<1>14. CASE BrowserCloses(s)
  <2> DEFINE p == [r EXCEPT !.sock = FALSE]
             q == Teardown(p)
  <2>1. Update(s, q) /\ UNCHANGED <<accepting, lease>>
    BY <1>14 DEF BrowserCloses
  <2>2. /\ RecordInv(p) /\ Follows(r, p)
        /\ p.told = r.told /\ p.window = r.window /\ p.ever = r.ever
    BY <1>1, SocketClosedInv
  <2> HIDE DEF p
  <2>3. RecordInv(q) /\ Follows(p, q)
    BY <2>2, TornDownInv
  <2> HIDE DEF q
  <2>4. Follows(r, q)
    BY <2>2, <2>3 DEF Follows
  <2>5. Respects(r, q)
    BY <2>4, FollowsRespects
  <2> QED BY <1>1, <2>1, <2>3, <2>4, <2>5, FollowsDirect, UpdateInv
<1>15. CASE Terminated(s)
  <2> DEFINE q == Teardown(r)
  <2>1. Update(s, q) /\ UNCHANGED <<accepting, lease>>
    BY <1>15 DEF Terminated
  <2>2. RecordInv(q) /\ Follows(r, q)
    BY <1>1, TornDownInv
  <2> HIDE DEF q
  <2>3. Respects(r, q)
    BY <2>2, FollowsRespects
  <2> QED BY <1>1, <2>1, <2>2, <2>3, FollowsDirect, UpdateInv
<1>16. CASE MediaStopped(s)
  <2> DEFINE q == [r EXCEPT !.stage = "leaving",
                            !.link = IF r.link = "up" THEN "closing" ELSE r.link,
                            !.call = IF r.call \in {"none", "prepare"} THEN r.call ELSE "dead"]
  <2>1. r.stage = "stopping" /\ Update(s, q) /\ UNCHANGED <<accepting, lease>>
    BY <1>16, <1>1 DEF MediaStopped, RecordInv, SessionRecord
  <2> HIDE DEF r
  <2>2. q \in SessionRecord
    BY <1>1 DEF RecordInv, SessionRecord
  <2>3. CallMatchesLink(q)
    BY <1>1, <2>1 DEF RecordInv, SessionRecord, CallMatchesLink
  <2>4. Departing(q) /\ Respects(r, q)
    BY <1>1, <2>1 DEF RecordInv, SessionRecord, Departing, Gone, Respects
  <2>5. s \notin Prepared => DirectInv(q)
    BY <1>1 DEF RecordInv, SessionRecord, DirectInv
  <2> HIDE DEF q
  <2>6. RecordInv(q)
    BY <2>2, <2>3, <2>4 DEF RecordInv
  <2> QED BY <2>1, <2>4, <2>5, <2>6, UpdateInv DEF r
<1>17. CASE Removed(s)
  BY <1>17, RemovedInv
<1> QED
  BY <1>2, <1>3, <1>4, <1>5, <1>6, <1>7, <1>8, <1>9, <1>10, <1>11, <1>12, <1>13,
     <1>14, <1>15, <1>16, <1>17 DEF SessionStep

LEMMA NextInv == IInv /\ [Next]_vars => IInv'
<1> SUFFICES ASSUME IInv, [Next]_vars
             PROVE  IInv'
  OBVIOUS
<1>1. CASE Heartbeat
  <2> DEFINE F == [s \in Sessions |-> Beat(session[s])]
  <2>1. \A s \in Sessions : RecordInv(F[s]) /\ Follows(session[s], F[s])
    BY BeatInv DEF IInv
  <2>2. F \in [Sessions -> SessionRecord]
    BY <2>1 DEF RecordInv
  <2>3. session' = F /\ accepting' \in BOOLEAN /\ UNCHANGED lease
    BY <1>1 DEF Heartbeat, IInv, TypeOK
  <2> HIDE DEF F
  <2> QED BY <2>1, <2>2, <2>3, EverySessionInv
<1>2. CASE Shutdown
  <2> DEFINE F == [s \in Sessions |-> Teardown(session[s])]
  <2>1. \A s \in Sessions : RecordInv(F[s]) /\ Follows(session[s], F[s])
    BY TornDownInv DEF IInv
  <2>2. F \in [Sessions -> SessionRecord]
    BY <2>1 DEF RecordInv
  <2>3. session' = F /\ accepting' \in BOOLEAN /\ UNCHANGED lease
    BY <1>2 DEF Shutdown
  <2> HIDE DEF F
  <2> QED BY <2>1, <2>2, <2>3, EverySessionInv
<1>3. CASE \E s \in Sessions : SessionStep(s)
  BY <1>3, SessionStepInv
<1>4. CASE UNCHANGED vars
  BY <1>4 DEF vars, IInv, TypeOK, LeaseMatchesSession, CapacityRespected, Managed
<1> QED BY <1>1, <1>2, <1>3, <1>4 DEF Next

LEMMA InitInv == Init => IInv
<1> SUFFICES ASSUME Init PROVE IInv
  OBVIOUS
<1>1. RecordInv(Blank) /\ DirectInv(Blank)
  <2>1. CallMatchesLink(Blank) /\ Gone(Blank) /\ DirectInv(Blank)
    BY DEF Blank, CallMatchesLink, Gone, DirectInv
  <2> QED BY <2>1, BlankType DEF RecordInv
<1>2. TypeOK
  BY BlankType DEF Init, TypeOK
<1>3. LeaseMatchesSession
  BY DEF Init, LeaseMatchesSession, Managed, Blank
<1>4. CapacityRespected
  <2>1. Managed = {}
    BY DEF Init, Managed, Blank
  <2> QED BY <2>1, FS_EmptySet, LimitsAssumption DEF CapacityRespected
<1> QED BY <1>1, <1>2, <1>3, <1>4 DEF Init, IInv

(* The invariant holds throughout: whatever handlers, timers, drops and
   teardowns of voice-bridge.ts interleave, each session is attempting,
   talking, waiting, departing or gone, with all that belongs to it. *)
THEOREM Invariance == Spec => []IInv
<1> QED BY InitInv, NextInv, PTL DEF Spec

-----------------------------------------------------------------------------
(* What the invariant says of the code. *)

(* Every variable keeps holding a value of its kind. *)
THEOREM TypeCorrect == Spec => []TypeOK
<1>1. IInv => TypeOK
  BY DEF IInv
<1> QED BY <1>1, Invariance, PTL

(* No registered session is left without a pending connect(), an armed
   reconnect timer or a live connection (scheduleReconnect, failConnect,
   onDisconnect and onKick of voice-bridge.ts). *)
THEOREM Unparked == Spec => []NeverParked
<1>1. ASSUME NEW r, RecordInv(r)
      PROVE  NotParked(r)
  BY <1>1 DEF RecordInv, NotParked, Live, Attempting, Talking, Waiting, Departing, Gone
<1>2. IInv => NeverParked
  BY <1>1 DEF IInv, NeverParked
<1> QED BY <1>2, Invariance, PTL

(* Browser commands are let through only to a session whose published
   directory and transport belong to the same, current connection. *)
THEOREM GateCorrect == Spec => []CommandGate
<1>1. ASSUME NEW r, RecordInv(r)
      PROVE  GateTruthful(r)
  BY <1>1
  DEF RecordInv, GateTruthful, GateOpen, Live, Attempting, Talking, Waiting, Departing, Gone
<1>2. IInv => CommandGate
  BY <1>1 DEF IInv, CommandGate
<1> QED BY <1>2, Invariance, PTL

(* The browser is never shown a state its session is not in. *)
THEOREM Informed == Spec => []BrowserInformed
<1>1. ASSUME NEW r, RecordInv(r)
      PROVE  ToldTruth(r)
  BY <1>1 DEF RecordInv, ToldTruth, Live, Attempting, Talking, Waiting, Departing, Gone
<1>2. IInv => BrowserInformed
  BY <1>1 DEF IInv, BrowserInformed
<1> QED BY <1>2, Invariance, PTL

(* Leases and managed sessions agree throughout. *)
THEOREM LeasesExact == Spec => []LeaseMatchesSession
<1>1. IInv => LeaseMatchesSession
  BY DEF IInv
<1> QED BY <1>1, Invariance, PTL

(* The gateway never manages more sessions than it has slots. *)
THEOREM CapacityHeld == Spec => []CapacityRespected
<1>1. IInv => CapacityRespected
  BY DEF IInv
<1> QED BY <1>1, Invariance, PTL

(* Without an awaited preparation nothing is left on the TeamSpeak server. *)
THEOREM NoDirectOrphans == Spec => []OrphansOnlyFromPrepare
<1>1. ASSUME NEW s \in Sessions \ Prepared, RecordInv(session[s]), DirectInv(session[s]),
             session[s].stage = "absent"
      PROVE  session[s].link = "down"
  BY <1>1 DEF RecordInv, CallMatchesLink, DirectInv, SessionRecord
<1>2. IInv => OrphansOnlyFromPrepare
  BY <1>1 DEF IInv, OrphansOnlyFromPrepare, OnServer
<1> QED BY <1>2, Invariance, PTL

(* And then a remembered identity is on the server at most once: its lease
   outlives its TeamSpeak client. *)
THEOREM IdentitySafe == Prepared = {} => (Spec => []IdentityUsedOnce)
<1> SUFFICES ASSUME Prepared = {}
             PROVE  Spec => []IdentityUsedOnce
  OBVIOUS
<1>1. IInv => IdentityUsedOnce
  <2> SUFFICES ASSUME IInv, NEW s \in Sessions, NEW t \in Sessions,
                      KeyOf[s] = KeyOf[t], KeyOf[s] # NoKey, OnServer(s), OnServer(t)
               PROVE  s = t
    BY DEF IdentityUsedOnce
  <2>1. s \in Managed /\ t \in Managed
    BY DEF IInv, RecordInv, CallMatchesLink, DirectInv, SessionRecord, OnServer, Managed
  <2>2. KeyOf[s] \in Keys
    BY KeysAssumption
  <2> QED BY <2>1, <2>2 DEF IInv, LeaseMatchesSession
<1> QED BY <1>1, Invariance, PTL

-----------------------------------------------------------------------------
(* What a step may never do. *)

LEMMA FollowsItself ==
    ASSUME NEW r
    PROVE  Respects(r, r)
BY DEF Respects

LEMMA StepRespects ==
    ASSUME IInv, [Next]_vars, NEW t \in Sessions
    PROVE  \/ Respects(session[t], session'[t])
           \/ session[t] = Blank
           \/ session'[t].stage = "absent"
<1>1. CASE Heartbeat
  <2>1. Follows(session[t], Beat(session[t]))
    BY BeatInv DEF IInv
  <2> QED BY <1>1, <2>1, FollowsRespects DEF Heartbeat
<1>2. CASE Shutdown
  <2>1. Follows(session[t], Teardown(session[t]))
    BY TornDownInv DEF IInv
  <2> QED BY <1>2, <2>1, FollowsRespects DEF Shutdown
<1>3. CASE \E s \in Sessions : SessionStep(s)
  <2>1. PICK s \in Sessions : Quiet(s) \/ Admit(s) \/ EncoderUnavailable(s) \/ Removed(s)
    BY <1>3, SessionStepInv
  <2>2. CASE Quiet(s)
    BY <2>2, FollowsItself DEF Quiet, Update, IInv, TypeOK
  <2>3. CASE Admit(s) \/ EncoderUnavailable(s)
    BY <2>3, FollowsItself DEF Admit, EncoderUnavailable, Admissible, Update, IInv, TypeOK
  <2>4. CASE Removed(s)
    BY <2>4, FollowsItself DEF Removed, Update, Blank, IInv, TypeOK
  <2> QED BY <2>1, <2>2, <2>3, <2>4
<1>4. CASE UNCHANGED vars
  BY <1>4, FollowsItself DEF vars
<1> QED BY <1>1, <1>2, <1>3, <1>4 DEF Next

(* A recovery window that has run out is not started again: only becoming
   connected resets reconnectStartedAt. *)
THEOREM OneWindow == Spec => WindowNotRestarted
<1>1. ASSUME IInv, [Next]_vars
      PROVE  \A s \in Sessions : KeepsWindow(s)
  <2> SUFFICES ASSUME NEW s \in Sessions PROVE KeepsWindow(s)
    OBVIOUS
  <2> QED BY <1>1, StepRespects DEF KeepsWindow, Respects, Blank
<1> QED BY <1>1, Invariance, PTL DEF Spec, WindowNotRestarted

(* A session that is being torn down is told nothing more and does not come
   back, whatever late callbacks and continuations still run. *)
THEOREM OneWay == Spec => TeardownIsOneWay
<1>1. ASSUME IInv, IInv', [Next]_vars
      PROVE  \A s \in Sessions : StaysTornDown(s)
  <2> SUFFICES ASSUME NEW s \in Sessions PROVE StaysTornDown(s)
    OBVIOUS
  <2>1. RecordInv(session'[s])
    BY <1>1 DEF IInv
  <2> QED
    BY <1>1, <2>1, StepRespects
    DEF StaysTornDown, Respects, Blank, RecordInv, Departing, Gone
<1> QED BY <1>1, Invariance, PTL DEF Spec, TeardownIsOneWay

-----------------------------------------------------------------------------
(* The gateway implements its contract. *)

phase == [s \in Sessions |-> Phase(session[s])]

Active == {"joining", "talking", "recovering"}

LEMMA PhaseOf ==
    ASSUME NEW r, RecordInv(r)
    PROVE  /\ Phase(r) = "out" <=> r.stage = "absent"
           /\ Phase(r) = "ending" <=> r.stage \in {"stopping", "leaving"}
           /\ Phase(r) \in Active <=> r.stage = "live"
           /\ Phase(r) = "talking" <=> r.stage = "live" /\ r.conn = "connected"
           /\ Phase(r) = "recovering" <=> r.stage = "live" /\ r.conn # "connected" /\ r.ever
           /\ Phase(r) = "joining" <=> r.stage = "live" /\ r.conn # "connected" /\ ~r.ever
BY DEF RecordInv, SessionRecord, Phase, Live, Active

LEMMA PhaseStep ==
    ASSUME NEW r, NEW q, RecordInv(r), RecordInv(q), Respects(r, q)
    PROVE  \/ Phase(q) = Phase(r)
           \/ Phase(r) \in {"joining", "recovering"} /\ Phase(q) = "talking"
           \/ Phase(r) = "talking" /\ Phase(q) = "recovering"
           \/ Phase(r) \in Active /\ Phase(q) = "ending"
<1>1. r.stage = "live" /\ q.stage = "live" /\ r.conn = "connected" => r.ever
  BY DEF RecordInv, Attempting, Talking, Waiting, Departing, Gone
<1> QED BY <1>1, PhaseOf DEF Respects, RecordInv, SessionRecord, Active

LEMMA BeatPhase ==
    ASSUME NEW r, RecordInv(r)
    PROVE  \/ Phase(Beat(r)) = Phase(r)
           \/ Phase(r) \in Active /\ Phase(Beat(r)) = "ending"
<1>1. RecordInv(Beat(r)) /\ Follows(r, Beat(r))
  BY BeatInv
<1>2. CASE r.stage # "live"
  BY <1>2 DEF Beat
<1>3. CASE r.stage = "live" /\ r.sock /\ ~(r.silent < MaxMissed)
  <2> DEFINE q == [r EXCEPT !.sock = FALSE]
  <2>1. q.stage = "live"
    BY <1>3 DEF RecordInv, SessionRecord
  <2>2. Beat(r) = Teardown(q)
    BY <1>3 DEF Beat
  <2> HIDE DEF q
  <2>3. q \in SessionRecord
    BY DEF q, RecordInv, SessionRecord
  <2>4. Transition(q, "disconnecting") \in SessionRecord
    BY <2>3 DEF Transition, SessionRecord, ConnectionState
  <2>5. Beat(r).stage = "stopping"
    BY <2>1, <2>2, <2>4 DEF Teardown, SessionRecord
  <2> QED BY <1>1, <1>3, <2>5, PhaseOf
<1>4. CASE r.stage = "live" /\ (~r.sock \/ r.silent < MaxMissed)
  <2>1. Beat(r) = r \/ Beat(r) = [r EXCEPT !.silent = r.silent + 1]
    BY <1>4 DEF Beat
  <2>2. Beat(r).stage = r.stage /\ Beat(r).conn = r.conn /\ Beat(r).ever = r.ever
    BY <2>1 DEF RecordInv, SessionRecord
  <2> QED BY <1>1, <1>4, <2>2, PhaseOf DEF Active
<1> QED BY <1>2, <1>3, <1>4


LEMMA PhaseUpdate ==
    ASSUME IInv, NEW s \in Sessions, NEW q, Update(s, q)
    PROVE  phase' = [phase EXCEPT ![s] = Phase(q)]
BY DEF IInv, TypeOK, Update, phase

LEMMA InsideManaged ==
    ASSUME IInv
    PROVE  Contract!Inside = Managed
BY PhaseOf DEF IInv, Contract!Inside, Managed

LEMMA AdmitJoins ==
    ASSUME IInv, IInv', NEW s \in Sessions, Admit(s) \/ EncoderUnavailable(s)
    PROVE  Contract!Join(s)
<1> DEFINE fresh == [Blank EXCEPT !.stage = "live", !.sock = TRUE]
           joined == Connecting(s, Transition(Transition(fresh, "connecting"),
                                              "authenticating"))
<1>1. /\ Admissible(s) /\ LeaseFree(s) /\ Acquire(s)
      /\ Update(s, joined) \/ Update(s, Teardown(fresh))
      /\ UNCHANGED accepting
  BY DEF Admit, EncoderUnavailable
<1>2. joined.stage = "live" /\ ~joined.ever
  BY DEF Blank, Transition, ALLOWED_TRANSITIONS, Connecting
<1>3. Teardown(fresh).stage = "stopping"
  BY DEF Blank, Transition, ALLOWED_TRANSITIONS, Teardown
<1> HIDE DEF fresh, joined
<1>4. PICK q : /\ Update(s, q)
               /\ (q.stage = "live" /\ ~q.ever) \/ q.stage = "stopping"
  BY <1>1, <1>2, <1>3
<1>5. session'[s] = q /\ RecordInv(q)
  BY <1>4 DEF Update, IInv, TypeOK
<1>6. Phase(q) \in {"joining", "ending"}
  <2>1. q.stage = "live" /\ q.conn = "connected" => q.ever
    BY <1>5 DEF RecordInv, Attempting, Talking, Waiting, Departing, Gone
  <2> QED BY <1>4, <1>5, <2>1, PhaseOf
<1>7. phase' = [phase EXCEPT ![s] = Phase(q)]
  BY <1>4, PhaseUpdate
<1>8. session[s].stage = "absent" /\ s \notin Managed
  BY <1>1 DEF Admissible, Blank, Managed
<1>9. phase[s] = "out"
  BY <1>8, PhaseOf DEF IInv, phase
<1>10. \A k \in Keys : k = KeyOf[s] => lease[k] = NoOwner
  BY <1>1, <1>8 DEF LeaseFree, IInv, LeaseMatchesSession
<1>11. Contract!Cardinality(Contract!Inside) < MaxActive
  <2>1. Contract!Cardinality(Managed) = Cardinality(Managed)
    BY DEF Cardinality, Contract!Cardinality
  <2> QED BY <1>1, <2>1, InsideManaged DEF Admissible
<1>12. \E next \in {"joining", "ending"} : phase' = [phase EXCEPT ![s] = next]
  BY <1>6, <1>7
<1> QED
  BY <1>1, <1>9, <1>10, <1>11, <1>12
  DEF Admissible, Acquire, Contract!Join, phase

LEMMA RemovedEnds ==
    ASSUME IInv, NEW s \in Sessions, Removed(s)
    PROVE  Contract!End(s)
<1> DEFINE r == [Blank EXCEPT !.call = session[s].call,
                              !.link = IF session[s].link = "closing" THEN "down"
                                       ELSE session[s].link]
<1>1. PICK q : Update(s, q) /\ q.stage = "absent"
  <2>1. Update(s, r)
    BY DEF Removed
  <2>2. r.stage = "absent"
    BY DEF Blank
  <2> HIDE DEF r
  <2> QED BY <2>1, <2>2
<1>2. Phase(q) = "out"
  BY <1>1 DEF Phase, Live
<1>3. phase' = [phase EXCEPT ![s] = "out"]
  BY <1>1, <1>2, PhaseUpdate
<1>4. phase[s] = "ending"
  BY PhaseOf DEF Removed, IInv, phase
<1>5. lease' = [k \in Keys |-> IF lease[k] = s THEN NoOwner ELSE lease[k]]
  BY SessionsAssumption DEF Removed, IInv, LeaseMatchesSession
<1> QED BY <1>3, <1>4, <1>5 DEF Contract!End, phase, Removed

LEMMA QuietImplements ==
    ASSUME IInv, IInv', NEW s \in Sessions, Quiet(s)
    PROVE  [Contract!Next]_(Contract!cvars)
<1>1. PICK q : /\ Update(s, q) /\ UNCHANGED <<accepting, lease>>
               /\ Respects(session[s], q)
  BY DEF Quiet
<1>2. RecordInv(session[s]) /\ RecordInv(q)
  BY <1>1 DEF Update, IInv, TypeOK
<1>3. phase' = [phase EXCEPT ![s] = Phase(q)]
  BY <1>1, PhaseUpdate
<1>4. phase[s] = Phase(session[s]) /\ phase = [t \in Sessions |-> phase[t]]
  BY DEF phase
<1>5. CASE Phase(q) = Phase(session[s])
  <2>1. phase' = phase
    BY <1>3, <1>4, <1>5
  <2> QED BY <1>1, <2>1 DEF Contract!cvars, phase
<1>6. CASE phase[s] \in {"joining", "recovering"} /\ Phase(q) = "talking"
  <2>1. Contract!Establish(s)
    BY <1>1, <1>3, <1>6 DEF Contract!Establish, phase
  <2> QED BY <2>1 DEF Contract!Next
<1>7. CASE phase[s] = "talking" /\ Phase(q) = "recovering"
  <2>1. Contract!Interrupt(s)
    BY <1>1, <1>3, <1>7 DEF Contract!Interrupt, phase
  <2> QED BY <2>1 DEF Contract!Next
<1>8. CASE phase[s] \in Active /\ Phase(q) = "ending"
  <2>1. {s} \in SUBSET Contract!Present
    BY <1>8 DEF Contract!Present, Active, phase
  <2>2. phase' = [t \in Sessions |-> IF t \in {s} THEN "ending" ELSE phase[t]]
    BY <1>3, <1>4, <1>8
  <2>3. Contract!Depart
    BY <1>1, <2>1, <2>2 DEF Contract!Depart, phase
  <2> QED BY <2>3 DEF Contract!Next
<1> QED BY <1>2, <1>1, <1>4, <1>5, <1>6, <1>7, <1>8, PhaseStep

LEMMA HeartbeatDeparts ==
    ASSUME IInv, Heartbeat
    PROVE  Contract!Depart
<1> DEFINE leaving == {s \in Sessions : phase[s] \in Active /\ phase'[s] = "ending"}
<1>1. \A s \in Sessions : phase'[s] = Phase(Beat(session[s])) /\ phase[s] = Phase(session[s])
  BY DEF Heartbeat, phase
<1>2. \A s \in Sessions : phase'[s] = IF s \in leaving THEN "ending" ELSE phase[s]
  BY <1>1, BeatPhase DEF IInv
<1>3. leaving \in SUBSET Contract!Present
  BY DEF Contract!Present, Active, phase
<1>4. phase' = [s \in Sessions |-> IF s \in leaving THEN "ending" ELSE phase[s]]
  <2> HIDE DEF leaving
  <2> QED BY <1>2 DEF phase
<1> HIDE DEF leaving
<1> QED BY <1>3, <1>4 DEF Contract!Depart, Heartbeat, phase

LEMMA ShutdownCloses ==
    ASSUME IInv, IInv', Shutdown
    PROVE  Contract!Close
<1>1. ASSUME NEW s \in Sessions
      PROVE  phase'[s] = IF s \in Contract!Present THEN "ending" ELSE phase[s]
  <2>1. /\ RecordInv(session[s]) /\ RecordInv(Teardown(session[s]))
        /\ session'[s] = Teardown(session[s])
    BY TornDownInv DEF IInv, Shutdown
  <2>2. s \in Contract!Present <=> session[s].stage = "live"
    BY <2>1, PhaseOf DEF Contract!Present, Active
  <2>3. CASE session[s].stage = "live"
    <3>1. session'[s].stage = "stopping"
      BY <2>1, <2>3 DEF Teardown, Transition, RecordInv, SessionRecord
    <3> QED BY <2>1, <2>2, <2>3, <3>1, PhaseOf DEF phase
  <2>4. CASE session[s].stage # "live"
    BY <2>1, <2>2, <2>4 DEF Teardown, phase
  <2> QED BY <2>3, <2>4
<1>2. phase' = [s \in Sessions |-> IF s \in Contract!Present THEN "ending" ELSE phase[s]]
  BY <1>1 DEF phase
<1> QED BY <1>2 DEF Contract!Close, Shutdown, phase

(* Every behaviour of the gateway is one its contract allows: slot and
   identity belong to a session from the join to the last step of cleanupEntry,
   and a recovering session (scheduleReconnect) never joins afresh. *)
THEOREM Refinement == Spec => ImplementsContract
<1>1. Init => Contract!Init
  <2> SUFFICES ASSUME Init PROVE Contract!Init
    OBVIOUS
  <2>1. \A s \in Sessions : Phase(session[s]) = "out"
    BY InitInv, PhaseOf DEF Init, IInv, Blank
  <2> QED BY <2>1 DEF Init, Contract!Init
<1>2. ASSUME IInv, IInv', [Next]_vars
      PROVE  [Contract!Next]_(Contract!cvars)
  <2>1. CASE Heartbeat
    BY <1>2, <2>1, HeartbeatDeparts DEF Contract!Next
  <2>2. CASE Shutdown
    BY <1>2, <2>2, ShutdownCloses DEF Contract!Next
  <2>3. CASE \E s \in Sessions : SessionStep(s)
    <3>1. PICK s \in Sessions : Quiet(s) \/ Admit(s) \/ EncoderUnavailable(s) \/ Removed(s)
      BY <1>2, <2>3, SessionStepInv
    <3>2. CASE Quiet(s)
      BY <1>2, <3>2, QuietImplements
    <3>3. CASE Admit(s) \/ EncoderUnavailable(s)
      BY <1>2, <3>3, AdmitJoins DEF Contract!Next
    <3>4. CASE Removed(s)
      BY <1>2, <3>4, RemovedEnds DEF Contract!Next
    <3> QED BY <3>1, <3>2, <3>3, <3>4
  <2>4. CASE UNCHANGED vars
    BY <2>4 DEF vars, Contract!cvars
  <2> QED BY <1>2, <2>1, <2>2, <2>3, <2>4 DEF Next
<1> QED BY <1>1, <1>2, Invariance, PTL DEF Spec, ImplementsContract, Contract!Spec

=============================================================================
