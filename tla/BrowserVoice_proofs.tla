------------------------ MODULE BrowserVoice_proofs ------------------------
(***************************************************************************)
(* Proofs about BrowserVoice, for any devices and any number of replies    *)
(* on their way.                                                           *)
(***************************************************************************)
EXTENDS BrowserVoice, TLAPS

-----------------------------------------------------------------------------
(* The inductive invariant. m is media, o the gateway's offer, q the replies. *)

Typed ==
    /\ session \in Sessions
    /\ requests \subseteq Owners
    /\ sockets \subseteq Owners
    /\ server \in {"none", "joining", "live", "retrying", "over"}
    /\ offer \in Offer \cup {None}
    /\ replies \in Seq(Reply) /\ Len(replies) <= MaxReplies
    /\ media \in Media
    /\ settings \in BOOLEAN

(* What the session of the page and that of the gateway have in common, and which
   request or socket stands behind them. *)
ConnectionInv ==
    /\ session = "connecting" <=> "current" \in requests \/ server = "joining"
    /\ session = "connected" <=> server = "live"
    /\ session = "reconnecting" <=> server = "retrying"
    /\ "current" \in requests => server = "none"
    /\ server \in {"joining", "live", "retrying"} => "current" \in sockets
    /\ "past" \notin sockets

AskedBy(m, caller) == m.asking # None /\ m.asking.by = caller

\* With a microphone there, only these callers ask for another one.
Takeover == {"change", "fallback"}

(* Who may be asking for a microphone, and who waits for the answer. *)
MicrophoneInv(m) ==
    /\ m.start = "asking" <=> AskedBy(m, "start")
    /\ m.start = "asking" => m.mic = None
    /\ m.start = "listing" => m.mic # None
    /\ m.change \in {"microphone", "restart"} <=> AskedBy(m, "change")
    /\ AskedBy(m, "change") => m.mic # None
    /\ m.mic # None /\ m.asking # None => m.asking.by \in Takeover
    /\ m.test = "preparing" /\ m.mic = None => AskedBy(m, "test")

(* The device asked for is the one shown, the device heard the one committed, and
   the two are the same unless a change or a fallback is undecided or failed. *)
DeviceInv(m) ==
    /\ m.asking # None => m.asking.overtaken \/ m.asking.device = m.selected
    /\ m.mic # None => m.mic.overtaken \/ m.mic.device = m.committed
    /\ m.mic # None =>
          \/ m.mic.overtaken
          \/ m.selected = m.committed
          \/ m.change # "list" /\ m.asking # None /\ m.asking.by \in Takeover
          \/ m.change # "list" /\ m.error = "fallback"

(* A negotiated attempt has the microphone to itself, and is fed by it unless a
   change had begun before; what PCM does not hand out, the attempt takes. *)
AttemptInv(m) ==
    /\ Active(m) => m.mic # None /\ m.start = "none"
    /\ m.rtc # None => ~AskedBy(m, "fallback")
    /\ m.change = "restart" => Active(m)
    /\ Active(m) /\ m.change = "microphone" => m.rtc.unseen
    /\ Active(m) => m.rtc.unseen \/ (m.rtc.input /\ ~m.mic.pcm)
    /\ m.mic # None /\ ~m.mic.pcm => Active(m) \/ m.asking # None \/ m.error # "none"

MediaInv(m) == m \in Media /\ MicrophoneInv(m) /\ DeviceInv(m) /\ AttemptInv(m)

(* What the page owns of the browser's audio in session s, its panel open or not. *)
SessionInv(m, s, open) ==
    /\ s # "connected" => m.rtc = None /\ m.start = "none" /\ ~AskedBy(m, "fallback")
    /\ s # "connected" /\ ~open => m.mic = None /\ m.asking = None /\ m.test = "none"
    /\ s = "connected" => m.mic # None \/ m.asking # None \/ m.error # "none"

Owned(q) == {n \in DOMAIN q : q[n].own}

Sent(m) == Active(m) /\ m.rtc.step = "offered"

(* The gateway's peer is dropped with the attempt; the attempt's own offer is with
   the gateway, or refused, and has one reply, waiting or applied. *)
NegotiationInv(m, o, q) ==
    /\ o # None => Active(m)
    /\ o # None /\ o.own => Sent(m)
    /\ Owned(q) # {} => Sent(m) /\ m.rtc.remote # "own"
    /\ o # None /\ o.own /\ ~o.answered => Owned(q) = {}
    /\ \A i, j \in Owned(q) : i = j
    /\ \A i \in Owned(q) : q[i].kind = "answer" => o # None /\ o.own /\ o.answered
    /\ Active(m) /\ m.rtc.remote = "own" => o # None /\ o.own /\ o.answered

IInv ==
    /\ Typed
    /\ ConnectionInv
    /\ MediaInv(media)
    /\ SessionInv(media, session, settings)
    /\ NegotiationInv(media, offer, replies)

-----------------------------------------------------------------------------
(* What the operators on media do, field by field. *)

LEMMA MediaFields ==
    ASSUME NEW m \in Media
    PROVE  /\ m.rtc \in Attempt \cup {None} /\ m.asking \in Asking \cup {None}
           /\ m.mic \in Microphone \cup {None} /\ m.error \in Callers \cup {"none"}
           /\ m.start \in {"none", "asking", "listing", "overtaken"}
           /\ m.selected \in Devices /\ m.committed \in Devices
           /\ m.change \in {"none", "microphone", "restart", "list"}
           /\ m.test \in {"none", "preparing", "overtaken", "recording"}
           /\ m.late \in BOOLEAN /\ m.open \subseteq Streams
  BY DEF Media

LEMMA NoneDiffers ==
    /\ \A r \in Offer : r # None
    /\ \A r \in Attempt : r # None
    /\ \A r \in Asking : r # None
    /\ \A r \in Microphone : r # None
  BY NoneAssumption

LEMMA OvertakeFields ==
    ASSUME NEW m \in Media
    PROVE  LET r == Overtake(m)
           IN  /\ r \in Media /\ r.asking = None
               /\ r.start = (IF m.start = "none" THEN "none" ELSE "overtaken")
               /\ r.change = (IF m.change \in {"microphone", "restart"} THEN "none" ELSE m.change)
               /\ r.test = (IF m.test = "preparing" THEN "overtaken" ELSE m.test)
               /\ r.rtc = m.rtc /\ r.mic = m.mic /\ r.error = m.error
               /\ r.selected = m.selected /\ r.committed = m.committed
               /\ r.open = m.open \ {"asked"} /\ (m.late => r.late)
  <1>1. PICK late \in BOOLEAN : late = (m.late \/ (m.asking # None /\ ~m.asking.granted))
    OBVIOUS
  <1>2. PICK open \in SUBSET Streams : open = m.open \ {"asked"}
    BY MediaFields
  <1>3. Overtake(m) =
           [m EXCEPT !.asking = None, !.open = open, !.late = late,
                     !.start = IF m.start = "none" THEN m.start ELSE "overtaken",
                     !.change = IF m.change \in {"microphone", "restart"} THEN "none" ELSE m.change,
                     !.test = IF m.test = "preparing" THEN "overtaken" ELSE m.test]
    BY <1>1, <1>2, Zenon DEF Overtake
  <1>4. m.late => late
    BY <1>1
  <1> QED BY <1>2, <1>3, <1>4 DEF Media

LEMMA StartMicrophoneFields ==
    ASSUME NEW m \in Media, NEW caller \in Callers
    PROVE  LET r == StartMicrophone(m, caller)
           IN  /\ r \in Media /\ r.asking \in Asking
               /\ r.asking.by = caller /\ r.asking.device = m.selected
               /\ ~r.asking.granted /\ ~r.asking.overtaken
               /\ r.start = (IF m.start = "none" THEN "none" ELSE "overtaken")
               /\ r.change = (IF m.change \in {"microphone", "restart"} THEN "none" ELSE m.change)
               /\ r.test = (IF m.test = "preparing" THEN "overtaken" ELSE m.test)
               /\ r.rtc = m.rtc /\ r.mic = m.mic /\ r.error = m.error
               /\ r.selected = m.selected /\ r.committed = m.committed
  <1> DEFINE asked == [by |-> caller, device |-> m.selected, granted |-> FALSE, overtaken |-> FALSE]
  <1>1. asked \in Asking
    BY MediaFields DEF Asking
  <1>2. PICK n \in Media : n = Overtake(m)
    BY OvertakeFields
  <1>3. StartMicrophone(m, caller) = [n EXCEPT !.asking = asked]
    BY <1>2 DEF StartMicrophone
  <1>4. [n EXCEPT !.asking = asked] \in Media
    BY <1>1 DEF Media
  <1>5. /\ asked.by = caller /\ asked.device = m.selected
        /\ ~asked.granted /\ ~asked.overtaken
    OBVIOUS
  <1> HIDE DEF asked
  <1>6. LET r == [n EXCEPT !.asking = asked]
        IN  /\ r.asking = asked /\ r.start = n.start /\ r.change = n.change /\ r.test = n.test
            /\ r.rtc = n.rtc /\ r.mic = n.mic /\ r.error = n.error
            /\ r.selected = n.selected /\ r.committed = n.committed
    BY DEF Media
  <1> QED BY <1>1, <1>2, <1>3, <1>4, <1>5, <1>6, OvertakeFields

\* An attempt that the microphone's graph no longer feeds.
LEMMA UnfedFields ==
    \A a \in Attempt : /\ [a EXCEPT !.input = FALSE] \in Attempt
                       /\ [a EXCEPT !.input = FALSE].step = a.step
                       /\ [a EXCEPT !.input = FALSE].remote = a.remote
                       /\ [a EXCEPT !.input = FALSE].unseen = a.unseen
                       /\ [a EXCEPT !.input = FALSE].input = FALSE
  BY DEF Attempt

LEMMA StopMicrophoneFields ==
    ASSUME NEW m \in Media
    PROVE  LET r == StopMicrophone(m)
           IN  /\ r \in Media /\ r.asking = None /\ r.mic = None /\ r.start = "none"
               /\ r.change = (IF m.change \in {"microphone", "restart"} THEN "none" ELSE m.change)
               /\ r.test = (IF m.test = "preparing" THEN "overtaken" ELSE m.test)
               /\ m.rtc = None => r.rtc = None
               /\ r.error = m.error
               /\ r.selected = m.selected /\ r.committed = m.committed
  <1> DEFINE unfed == IF m.rtc = None THEN None ELSE [m.rtc EXCEPT !.input = FALSE]
  <1>1. unfed \in Attempt \cup {None} /\ (m.rtc = None => unfed = None)
    BY UnfedFields, MediaFields, Zenon
  <1>2. PICK n \in Media : n = Overtake(m)
    BY OvertakeFields
  <1>3. n.rtc = m.rtc
    BY <1>2, OvertakeFields
  <1>8. PICK open \in SUBSET Streams : open = n.open \ {"kept"}
    BY MediaFields
  <1>4. StopMicrophone(m) = [n EXCEPT !.start = "none", !.mic = None, !.open = open,
                                      !.rtc = IF n.rtc = None THEN n.rtc
                                              ELSE [n.rtc EXCEPT !.input = FALSE]]
    BY <1>2, <1>8, Zenon DEF StopMicrophone
  <1>5. (IF n.rtc = None THEN n.rtc ELSE [n.rtc EXCEPT !.input = FALSE]) = unfed
    BY <1>3, Zenon
  <1>6. StopMicrophone(m) = [n EXCEPT !.start = "none", !.mic = None, !.open = open, !.rtc = unfed]
    BY <1>4, <1>5, Zenon
  <1> HIDE DEF unfed
  <1>7. LET r == [n EXCEPT !.start = "none", !.mic = None, !.open = open, !.rtc = unfed]
        IN  /\ r \in Media /\ r.asking = n.asking /\ r.mic = None /\ r.start = "none"
            /\ r.change = n.change /\ r.test = n.test /\ r.rtc = unfed /\ r.error = n.error
            /\ r.selected = n.selected /\ r.committed = n.committed
    BY <1>1 DEF Media
  <1> QED BY <1>1, <1>2, <1>6, <1>7, OvertakeFields

LEMMA EnsureMicrophoneFields ==
    ASSUME NEW m \in Media
    PROVE  LET r == EnsureMicrophone(m)
           IN  /\ m.start # "none" \/ m.mic # None => r = m
               /\ ~(m.start # "none" \/ m.mic # None) =>
                     /\ r \in Media /\ r.asking \in Asking /\ r.start = "asking"
                     /\ r.asking.by = "start" /\ r.asking.device = m.selected
                     /\ r.change = (IF m.change \in {"microphone", "restart"} THEN "none" ELSE m.change)
                     /\ r.test = (IF m.test = "preparing" THEN "overtaken" ELSE m.test)
                     /\ r.rtc = m.rtc /\ r.mic = m.mic /\ r.error = m.error
                     /\ r.selected = m.selected /\ r.committed = m.committed
  <1>1. "start" \in Callers
    BY DEF Callers
  <1>2. PICK n \in Media : n = StartMicrophone(m, "start")
    BY <1>1, StartMicrophoneFields
  <1>3. ~(m.start # "none" \/ m.mic # None) => EnsureMicrophone(m) = [n EXCEPT !.start = "asking"]
    BY <1>2, Zenon DEF EnsureMicrophone
  <1>4. m.start # "none" \/ m.mic # None => EnsureMicrophone(m) = m
    BY Zenon DEF EnsureMicrophone
  <1>5. LET r == [n EXCEPT !.start = "asking"]
        IN  /\ r \in Media /\ r.asking = n.asking /\ r.mic = n.mic /\ r.start = "asking"
            /\ r.change = n.change /\ r.test = n.test /\ r.rtc = n.rtc /\ r.error = n.error
            /\ r.selected = n.selected /\ r.committed = n.committed
    BY DEF Media
  <1>6. /\ n.asking \in Asking /\ n.asking.by = "start" /\ n.asking.device = m.selected
        /\ n.change = (IF m.change \in {"microphone", "restart"} THEN "none" ELSE m.change)
        /\ n.test = (IF m.test = "preparing" THEN "overtaken" ELSE m.test)
        /\ n.rtc = m.rtc /\ n.mic = m.mic /\ n.error = m.error
        /\ n.selected = m.selected /\ n.committed = m.committed
    BY <1>1, <1>2, StartMicrophoneFields
  <1>7. CASE m.start # "none" \/ m.mic # None
    BY <1>4, <1>7
  <1>8. CASE ~(m.start # "none" \/ m.mic # None)
    BY <1>3, <1>5, <1>6, <1>8
  <1> QED BY <1>7, <1>8

LEMMA EndTestFields ==
    ASSUME NEW m \in Media, NEW connected \in BOOLEAN
    PROVE  LET r == EndTest(m, connected)
           IN  /\ r \in Media /\ r.test = "none" /\ r.error = m.error
               /\ r.selected = m.selected /\ r.committed = m.committed
               /\ m.test = "none" \/ connected =>
                     /\ r.rtc = m.rtc /\ r.start = m.start /\ r.asking = m.asking
                     /\ r.mic = m.mic /\ r.change = m.change
               /\ ~(m.test = "none" \/ connected) =>
                     /\ r.start = "none" /\ r.asking = None /\ r.mic = None
                     /\ r.change = (IF m.change \in {"microphone", "restart"} THEN "none" ELSE m.change)
                     /\ m.rtc = None => r.rtc = None
  <1>1. PICK n \in Media : n = [m EXCEPT !.test = "none"]
    BY DEF Media
  <1>2. /\ n.test = "none" /\ n.error = m.error
        /\ n.selected = m.selected /\ n.committed = m.committed /\ n.rtc = m.rtc
        /\ n.start = m.start /\ n.asking = m.asking /\ n.mic = m.mic /\ n.change = m.change
    BY <1>1 DEF Media
  <1>3. /\ m.test = "none" \/ connected => EndTest(m, connected) = n
        /\ ~(m.test = "none" \/ connected) => EndTest(m, connected) = StopMicrophone(n)
    BY <1>1, Zenon DEF EndTest
  <1>4. CASE m.test = "none" \/ connected
    BY <1>2, <1>3, <1>4
  <1>5. CASE ~(m.test = "none" \/ connected)
    BY <1>2, <1>3, <1>5, StopMicrophoneFields
  <1> QED BY <1>4, <1>5

LEMMA ReleaseFields ==
    ASSUME NEW m \in Media
    PROVE  LET r == Release(m)
           IN  /\ r \in Media /\ r.rtc = None /\ r.start = "none" /\ r.asking = None
               /\ r.mic = None /\ r.change = "none" /\ r.test = "none"
               /\ [r EXCEPT !.error = "none"] \in Media
               /\ LET s == [r EXCEPT !.error = "none"]
                  IN  /\ s.rtc = None /\ s.start = "none" /\ s.asking = None
                      /\ s.mic = None /\ s.change = "none" /\ s.test = "none"
  <1>1. PICK n \in Media : n = [m EXCEPT !.rtc = None, !.selected = m.committed,
                                         !.change = "none", !.test = "none"]
    BY DEF Media
  <1>2. n.rtc = None /\ n.change = "none" /\ n.test = "none"
    BY <1>1 DEF Media
  <1>3. PICK r \in Media : r = StopMicrophone(n)
    BY StopMicrophoneFields
  <1>4. /\ r.rtc = None /\ r.start = "none" /\ r.asking = None
        /\ r.mic = None /\ r.change = "none" /\ r.test = "none"
    BY <1>2, <1>3, StopMicrophoneFields
  <1>5. Release(m) = r
    BY <1>1, <1>3, Zenon DEF Release
  <1>6. /\ [r EXCEPT !.error = "none"] \in Media
        /\ LET s == [r EXCEPT !.error = "none"]
           IN  /\ s.rtc = r.rtc /\ s.start = r.start /\ s.asking = r.asking
               /\ s.mic = r.mic /\ s.change = r.change /\ s.test = r.test
    BY DEF Media
  <1> QED BY <1>4, <1>5, <1>6

\* The record of a new attempt over m, with its microphone there.
Begun(m) == [step |-> "offering", remote |-> "none", input |-> TRUE,
             unseen |-> m.change = "microphone"]

LEMMA BeginOfferFields ==
    ASSUME NEW m \in Media, m.mic # None
    PROVE  LET r == BeginOffer(m)
           IN  /\ r \in Media /\ r.rtc \in Attempt
               /\ r.rtc.step = "offering" /\ r.rtc.remote = "none" /\ r.rtc.input
               /\ r.rtc.unseen = (m.change = "microphone")
               /\ r.mic \in Microphone /\ ~r.mic.pcm
               /\ r.mic.device = m.mic.device /\ r.mic.overtaken = m.mic.overtaken
               /\ r.start = m.start /\ r.asking = m.asking /\ r.error = m.error
               /\ r.selected = m.selected /\ r.committed = m.committed
               /\ r.change = m.change /\ r.test = m.test
  <1>0. Begun(m) \in Attempt
    BY DEF Attempt, Begun
  <1>1. PICK a \in Attempt : a = Begun(m)
    BY <1>0
  <1>2. /\ a.step = "offering" /\ a.remote = "none" /\ a.input
        /\ a.unseen = (m.change = "microphone")
    BY <1>1 DEF Begun
  <1>3. PICK d \in Microphone : d = [m.mic EXCEPT !.pcm = FALSE]
    <2>1. \A d \in Microphone : [d EXCEPT !.pcm = FALSE] \in Microphone
      BY DEF Microphone
    <2> QED BY <2>1, MediaFields, Zenon
  <1>4. ~d.pcm /\ d.device = m.mic.device /\ d.overtaken = m.mic.overtaken
    <2>1. \A e \in Microphone : LET r == [e EXCEPT !.pcm = FALSE]
                                IN  ~r.pcm /\ r.device = e.device /\ r.overtaken = e.overtaken
      BY DEF Microphone
    <2> QED BY <2>1, <1>3, MediaFields, Zenon
  <1>5. BeginOffer(m) = [m EXCEPT !.mic = d, !.rtc = a]
    BY <1>1, <1>3, Zenon DEF BeginOffer, Begun
  <1>6. LET r == [m EXCEPT !.mic = d, !.rtc = a]
        IN  /\ r \in Media /\ r.rtc = a /\ r.mic = d
            /\ r.start = m.start /\ r.asking = m.asking /\ r.error = m.error
            /\ r.selected = m.selected /\ r.committed = m.committed
            /\ r.change = m.change /\ r.test = m.test
    BY DEF Media
  <1> QED BY <1>2, <1>4, <1>5, <1>6

\* A new attempt over m: it waits for the microphone, or takes the one there is.
LEMMA StartRtcFields ==
    ASSUME NEW m \in Media
    PROVE  LET r == StartRtc(m)
           IN  /\ r \in Media /\ r.rtc \in Attempt /\ r.error = m.error
               /\ r.selected = m.selected /\ r.committed = m.committed
               /\ m.start = "none" /\ m.mic # None =>
                     /\ r.rtc.step = "offering" /\ r.rtc.remote = "none" /\ r.rtc.input
                     /\ r.rtc.unseen = (m.change = "microphone")
                     /\ r.mic \in Microphone /\ ~r.mic.pcm
                     /\ r.mic.device = m.mic.device /\ r.mic.overtaken = m.mic.overtaken
                     /\ r.start = "none" /\ r.asking = m.asking
                     /\ r.change = m.change /\ r.test = m.test
               /\ m.start # "none" =>
                     /\ r.rtc.step = "microphone"
                     /\ r.mic = m.mic /\ r.start = m.start /\ r.asking = m.asking
                     /\ r.change = m.change /\ r.test = m.test
               /\ m.start = "none" /\ m.mic = None =>
                     /\ r.rtc.step = "microphone"
                     /\ r.mic = None /\ r.start = "asking" /\ r.asking \in Asking
                     /\ r.asking.by = "start" /\ r.asking.device = m.selected
                     /\ r.change = (IF m.change \in {"microphone", "restart"} THEN "none" ELSE m.change)
                     /\ r.test = (IF m.test = "preparing" THEN "overtaken" ELSE m.test)
  <1> DEFINE waiting == [step |-> "microphone", remote |-> "none", input |-> FALSE, unseen |-> FALSE]
  <1>1. waiting \in Attempt /\ waiting.step = "microphone"
    BY DEF Attempt
  <1>2. PICK k \in Media : k = [m EXCEPT !.rtc = waiting]
    <2> HIDE DEF waiting
    <2> QED BY <1>1 DEF Media
  <1>3. PICK n : n = EnsureMicrophone(k)
    OBVIOUS
  <1>4. StartRtc(m) = (IF n.start = "none" THEN BeginOffer(n) ELSE n)
    BY <1>2, <1>3, Zenon DEF StartRtc
  <1> HIDE DEF waiting
  <1>5. /\ k.rtc = waiting /\ k.mic = m.mic /\ k.start = m.start /\ k.asking = m.asking
        /\ k.change = m.change /\ k.test = m.test /\ k.error = m.error
        /\ k.selected = m.selected /\ k.committed = m.committed
    BY <1>2 DEF Media
  <1>6. CASE m.start # "none"
    <2>1. n = k
      BY <1>3, <1>5, <1>6, EnsureMicrophoneFields
    <2>2. StartRtc(m) = k
      BY <1>4, <1>5, <1>6, <2>1
    <2> QED BY <1>1, <1>5, <1>6, <2>2
  <1>7. CASE m.start = "none" /\ m.mic # None
    <2>1. n = k
      BY <1>3, <1>5, <1>7, EnsureMicrophoneFields
    <2>2. StartRtc(m) = BeginOffer(k)
      BY <1>4, <1>5, <1>7, <2>1
    <2>3. k.mic # None
      BY <1>5, <1>7
    <2> QED BY <1>5, <1>7, <2>2, <2>3, BeginOfferFields
  <1>8. CASE m.start = "none" /\ m.mic = None
    <2>1. /\ n \in Media /\ n.asking \in Asking /\ n.start = "asking"
          /\ n.asking.by = "start" /\ n.asking.device = k.selected
          /\ n.change = (IF k.change \in {"microphone", "restart"} THEN "none" ELSE k.change)
          /\ n.test = (IF k.test = "preparing" THEN "overtaken" ELSE k.test)
          /\ n.rtc = k.rtc /\ n.mic = k.mic /\ n.error = k.error
          /\ n.selected = k.selected /\ n.committed = k.committed
      BY <1>3, <1>5, <1>8, EnsureMicrophoneFields
    <2>2. StartRtc(m) = n
      BY <1>4, <2>1
    <2> QED BY <1>1, <1>5, <1>8, <2>1, <2>2
  <1> QED BY <1>6, <1>7, <1>8

-----------------------------------------------------------------------------
(* What the parts of the invariant need of a step. *)

LEMMA TypesNext ==
    ASSUME Typed', MediaInv(media)'
    PROVE  TypeOK'
  BY DEF Typed, MediaInv, MicrophoneInv, AttemptInv, AskedBy, TypeOK

\* Without a microphone, an attempt or a request for either, all parts agree.
LEMMA SilentInv ==
    ASSUME NEW m \in Media, m.rtc = None, m.start = "none", m.asking = None,
           m.mic = None, m.change = "none", m.test = "none"
    PROVE  /\ MediaInv(m) /\ ~Active(m)
           /\ \A s, open : s # "connected" => SessionInv(m, s, open)
  BY DEF MediaInv, MicrophoneInv, DeviceInv, AttemptInv, SessionInv, Active, AskedBy

LEMMA NothingNegotiated ==
    ASSUME NEW m, NEW q, Owned(q) = {}, ~(Active(m) /\ m.rtc.remote = "own")
    PROVE  NegotiationInv(m, None, q)
  BY DEF NegotiationInv

LEMMA NegotiationKept ==
    ASSUME NEW m, NEW n, NEW o, NEW q, NegotiationInv(m, o, q), Active(n) <=> Active(m),
           Active(m) => n.rtc.step = m.rtc.step /\ n.rtc.remote = m.rtc.remote
    PROVE  NegotiationInv(n, o, q)
  BY DEF NegotiationInv, Sent

LEMMA EmptyOwned == Owned(<<>>) = {} /\ <<>> \in Seq(Reply) /\ Len(<<>>) = 0
  BY DEF Owned

LEMMA DisownedReplies ==
    ASSUME NEW q \in Seq(Reply)
    PROVE  /\ Disowned(q) \in Seq(Reply) /\ Len(Disowned(q)) = Len(q)
           /\ Owned(Disowned(q)) = {}
  <1>1. \A r \in Reply : [r EXCEPT !.own = FALSE] \in Reply /\ ~[r EXCEPT !.own = FALSE].own
    BY DEF Reply
  <1>2. DOMAIN q = 1 .. Len(q) /\ Len(q) \in Nat /\ \A r \in DOMAIN q : q[r] \in Reply
    OBVIOUS
  <1>3. \A r \in DOMAIN q : /\ [q[r] EXCEPT !.own = FALSE] \in Reply
                            /\ ~[q[r] EXCEPT !.own = FALSE].own
    BY <1>1, <1>2, Zenon
  <1>4. /\ DOMAIN Disowned(q) = DOMAIN q
        /\ \A r \in DOMAIN q : Disowned(q)[r] \in Reply /\ ~Disowned(q)[r].own
    BY <1>3, Zenon DEF Disowned
  <1>5. Disowned(q) = [r \in DOMAIN q |-> Disowned(q)[r]]
    BY Zenon DEF Disowned
  <1>6. Disowned(q) \in Seq(Reply) /\ Len(Disowned(q)) = Len(q)
    <2> DEFINE d == Disowned(q)
    <2>1. d = [r \in 1 .. Len(q) |-> d[r]] /\ \A r \in 1 .. Len(q) : d[r] \in Reply
      BY <1>2, <1>4, <1>5
    <2> HIDE DEF d
    <2>2. d \in [1 .. Len(q) -> Reply]
      BY <2>1
    <2>3. d \in Seq(Reply) /\ Len(d) = Len(q)
      BY <2>2, <1>2
    <2> QED BY <2>3 DEF d
  <1> QED BY <1>4, <1>6 DEF Owned

LEMMA TailReplies ==
    ASSUME NEW q \in Seq(Reply), q # <<>>
    PROVE  /\ Head(q) \in Reply /\ Tail(q) \in Seq(Reply)
           /\ Head(q) = q[1] /\ 1 \in DOMAIN q
           /\ Len(Tail(q)) = Len(q) - 1
           /\ \A n \in DOMAIN Tail(q) :
                 n \in Nat /\ n + 1 \in DOMAIN q /\ n + 1 # 1 /\ Tail(q)[n] = q[n + 1]
  OBVIOUS

LEMMA AppendReplies ==
    ASSUME NEW q \in Seq(Reply), NEW r \in Reply
    PROVE  /\ Append(q, r) \in Seq(Reply) /\ Len(Append(q, r)) = Len(q) + 1
           /\ \A n \in DOMAIN Append(q, r) :
                 \/ n \in DOMAIN q /\ Append(q, r)[n] = q[n]
                 \/ n = Len(q) + 1 /\ Append(q, r)[n] = r
  OBVIOUS

-----------------------------------------------------------------------------
(* The connection. *)

\* Whatever releases the media leaves nothing negotiated or owned.
LEMMA ReleasedInv ==
    ASSUME NEW m \in Media
    PROVE  LET r == Release(m)
               s == [r EXCEPT !.error = "none"]
           IN  /\ MediaInv(r) /\ MediaInv(s)
               /\ \A to, open : to # "connected" => SessionInv(r, to, open) /\ SessionInv(s, to, open)
               /\ NegotiationInv(r, None, <<>>) /\ NegotiationInv(s, None, <<>>)
  <1>1. PICK r \in Media : r = Release(m)
    BY ReleaseFields
  <1>2. PICK s \in Media : s = [r EXCEPT !.error = "none"]
    BY <1>1, ReleaseFields
  <1>3. /\ r.rtc = None /\ r.start = "none" /\ r.asking = None
        /\ r.mic = None /\ r.change = "none" /\ r.test = "none"
        /\ s.rtc = None /\ s.start = "none" /\ s.asking = None
        /\ s.mic = None /\ s.change = "none" /\ s.test = "none"
    BY <1>1, <1>2, ReleaseFields
  <1>4. MediaInv(r) /\ MediaInv(s) /\ ~Active(r) /\ ~Active(s)
    BY <1>3, SilentInv
  <1>5. \A to, open : to # "connected" => SessionInv(r, to, open) /\ SessionInv(s, to, open)
    BY <1>3, SilentInv
  <1>6. NegotiationInv(r, None, <<>>) /\ NegotiationInv(s, None, <<>>)
    BY <1>4, EmptyOwned, NothingNegotiated
  <1> QED BY <1>1, <1>2, <1>4, <1>5, <1>6

LEMMA HangupConnection ==
    ASSUME Typed, ConnectionInv, Hangup, session' \in {"idle", "failed"}
    PROVE  /\ ConnectionInv'
           /\ requests' \subseteq Owners /\ sockets' \subseteq Owners
           /\ server' = "none" /\ offer' = None /\ replies' = <<>>
  BY DEF Typed, ConnectionInv, Hangup, Owners

LEMMA ConnectStep ==
    ASSUME IInv, Connect
    PROVE  IInv'
  <1>1. media \in Media
    BY DEF IInv, Typed
  <1>2. MediaInv(media') /\ SessionInv(media', "connecting", settings)
        /\ NegotiationInv(media', None, <<>>)
    BY <1>1, ReleasedInv DEF Connect
  <1>3. media' \in Media
    BY <1>2 DEF MediaInv
  <1>4. Typed'
    BY <1>3, EmptyOwned, RepliesAssumption DEF IInv, Typed, Connect, Sessions, Owners
  <1>5. ConnectionInv'
    BY DEF IInv, ConnectionInv, Connect
  <1> QED BY <1>2, <1>4, <1>5 DEF IInv, Connect

LEMMA HangupStep ==
    ASSUME IInv, Disconnect \/ Closed
    PROVE  IInv'
  <1>1. media \in Media /\ Typed /\ ConnectionInv
    BY DEF IInv, Typed
  <1>2. /\ Hangup /\ session' \in {"idle", "failed"} /\ settings' = settings
        /\ media' = [Release(media) EXCEPT !.error = "none"]
    BY DEF Disconnect, Closed
  <1>3. MediaInv(media') /\ SessionInv(media', session', settings)
        /\ NegotiationInv(media', None, <<>>)
    BY <1>1, <1>2, ReleasedInv
  <1>4. media' \in Media
    BY <1>3 DEF MediaInv
  <1>5. /\ ConnectionInv'
        /\ requests' \subseteq Owners /\ sockets' \subseteq Owners
        /\ server' = "none" /\ offer' = None /\ replies' = <<>>
    BY <1>1, <1>2, HangupConnection
  <1>6. session' \in Sessions /\ settings' \in BOOLEAN
    BY <1>1, <1>2 DEF Sessions, Typed
  <1>7. Typed'
    BY <1>4, <1>5, <1>6, EmptyOwned, RepliesAssumption DEF Typed
  <1> QED BY <1>2, <1>3, <1>5, <1>7 DEF IInv

LEMMA TicketStep ==
    ASSUME IInv, \/ TicketTimeout
                 \/ \E owner \in Owners : TicketIssued(owner) \/ TicketFailed(owner)
    PROVE  IInv'
  <1>1. Typed /\ ConnectionInv /\ SessionInv(media, session, settings)
    BY DEF IInv
  <1>2. UNCHANGED <<offer, replies, media, settings>>
    BY DEF TicketTimeout, TicketIssued, TicketFailed
  <1>3. /\ ConnectionInv' /\ session' \in {session, "idle"}
        /\ session' # session => session # "connected"
        /\ requests' \subseteq Owners /\ sockets' \subseteq Owners
        /\ server' \in {server, "joining"}
    <2>1. CASE TicketTimeout
      BY <1>1, <2>1 DEF Typed, ConnectionInv, TicketTimeout, Owners
    <2>2. ASSUME NEW owner \in Owners, TicketIssued(owner)
          PROVE  /\ ConnectionInv' /\ session' \in {session, "idle"}
                 /\ session' # session => session # "connected"
                 /\ requests' \subseteq Owners /\ sockets' \subseteq Owners
                 /\ server' \in {server, "joining"}
      <3>1. CASE owner = "current"
        <4>1. /\ session = "connecting" /\ server = "none" /\ "past" \notin sockets
              /\ session' = session /\ server' = "joining"
              /\ requests' = requests \ {"current"} /\ sockets' = sockets \cup {"current"}
          BY <1>1, <2>2, <3>1 DEF ConnectionInv, TicketIssued
        <4>2. ConnectionInv'
          BY <4>1 DEF ConnectionInv
        <4>3. requests' \subseteq Owners /\ sockets' \subseteq Owners
          BY <1>1, <4>1 DEF Typed, Owners
        <4> QED BY <4>1, <4>2, <4>3
      <3>2. CASE owner = "past"
        BY <1>1, <2>2, <3>2 DEF Typed, ConnectionInv, TicketIssued, Owners
      <3> QED BY <3>1, <3>2 DEF Owners
    <2>3. ASSUME NEW owner \in Owners, TicketFailed(owner)
          PROVE  /\ ConnectionInv' /\ session' \in {session, "idle"}
                 /\ session' # session => session # "connected"
                 /\ requests' \subseteq Owners /\ sockets' \subseteq Owners
                 /\ server' \in {server, "joining"}
      <3>1. CASE owner = "current"
        BY <1>1, <2>3, <3>1 DEF Typed, ConnectionInv, TicketFailed, Owners
      <3>2. CASE owner = "past"
        BY <1>1, <2>3, <3>2 DEF Typed, ConnectionInv, TicketFailed, Owners
      <3> QED BY <3>1, <3>2 DEF Owners
    <2> QED BY <2>1, <2>2, <2>3
  <1>4. Typed'
    BY <1>1, <1>2, <1>3 DEF Typed, Sessions
  <1>5. SessionInv(media, session', settings)
    BY <1>1, <1>3 DEF SessionInv
  <1> QED BY <1>2, <1>3, <1>4, <1>5 DEF IInv

LEMMA JoinedStep ==
    ASSUME IInv, NEW rtc \in BOOLEAN, Joined(rtc)
    PROVE  IInv'
  <1> DEFINE m == media
  <1>1. /\ m \in Media /\ Typed /\ ConnectionInv /\ NegotiationInv(m, offer, replies)
        /\ MicrophoneInv(m) /\ DeviceInv(m) /\ AttemptInv(m)
    BY DEF IInv, MediaInv
  <1>2. /\ m.rtc = None /\ m.start = "none" /\ ~AskedBy(m, "fallback") /\ ~Active(m)
    BY DEF Joined, IInv, ConnectionInv, SessionInv, Active
  <1>3. m.change # "restart"
    BY <1>1, <1>2 DEF AttemptInv
  <1>4. offer = None /\ Owned(replies) = {}
    BY <1>1, <1>2 DEF NegotiationInv, Sent
  <1>5. /\ media' = IF rtc THEN StartRtc(m) ELSE EnsureMicrophone(m)
        /\ session' = "connected" /\ server' = "live"
        /\ UNCHANGED <<requests, sockets, offer, replies, settings>>
    BY DEF Joined
  <1>6. ConnectionInv'
    BY <1>1, <1>5 DEF ConnectionInv, Joined
  <1>7. /\ MediaInv(media') /\ (media'.mic # None \/ media'.asking # None)
        /\ ~(Active(media') /\ media'.rtc.remote = "own")
    <2>1. CASE rtc
      <3>1. CASE m.mic # None
        <4>1. /\ media' \in Media /\ media'.rtc \in Attempt
              /\ media'.rtc.step = "offering" /\ media'.rtc.remote = "none" /\ media'.rtc.input
              /\ media'.rtc.unseen = (m.change = "microphone")
              /\ media'.mic \in Microphone /\ ~media'.mic.pcm
              /\ media'.mic.device = m.mic.device /\ media'.mic.overtaken = m.mic.overtaken
              /\ media'.start = "none" /\ media'.asking = m.asking
              /\ media'.change = m.change /\ media'.test = m.test
              /\ media'.error = m.error
              /\ media'.selected = m.selected /\ media'.committed = m.committed
          BY <1>1, <1>2, <1>5, <2>1, <3>1, StartRtcFields
        <4> QED BY <1>1, <1>2, <1>3, <3>1, <4>1, NoneDiffers
                DEF MediaInv, MicrophoneInv, DeviceInv, AttemptInv, Active, AskedBy
      <3>2. CASE m.mic = None
        <4>1. /\ media' \in Media /\ media'.rtc \in Attempt
              /\ media'.rtc.step = "microphone" /\ media'.error = m.error
              /\ media'.selected = m.selected /\ media'.committed = m.committed
              /\ media'.mic = None /\ media'.start = "asking" /\ media'.asking \in Asking
              /\ media'.asking.by = "start" /\ media'.asking.device = m.selected
              /\ media'.change = (IF m.change \in {"microphone", "restart"} THEN "none" ELSE m.change)
              /\ media'.test = (IF m.test = "preparing" THEN "overtaken" ELSE m.test)
          BY <1>1, <1>2, <1>5, <2>1, <3>2, StartRtcFields
        <4> QED BY <1>1, <1>2, <1>3, <3>2, <4>1, NoneDiffers
                DEF MediaInv, MicrophoneInv, DeviceInv, AttemptInv, Active, AskedBy
      <3> QED BY <3>1, <3>2
    <2>2. CASE ~rtc
      <3>1. CASE m.mic # None
        <4>1. media' = m
          BY <1>1, <1>5, <2>2, <3>1, EnsureMicrophoneFields
        <4> QED BY <1>1, <1>2, <3>1, <4>1 DEF MediaInv
      <3>2. CASE m.mic = None
        <4>1. /\ media' \in Media /\ media'.asking \in Asking /\ media'.start = "asking"
              /\ media'.asking.by = "start" /\ media'.asking.device = m.selected
              /\ media'.change = (IF m.change \in {"microphone", "restart"} THEN "none" ELSE m.change)
              /\ media'.test = (IF m.test = "preparing" THEN "overtaken" ELSE m.test)
              /\ media'.rtc = m.rtc /\ media'.mic = m.mic /\ media'.error = m.error
              /\ media'.selected = m.selected /\ media'.committed = m.committed
          BY <1>1, <1>2, <1>5, <2>2, <3>2, EnsureMicrophoneFields
        <4> QED BY <1>1, <1>2, <1>3, <3>2, <4>1, NoneDiffers
                DEF MediaInv, MicrophoneInv, DeviceInv, AttemptInv, Active, AskedBy
      <3> QED BY <3>1, <3>2
    <2> QED BY <2>1, <2>2
  <1>8. SessionInv(media', "connected", settings)
    BY <1>7 DEF SessionInv
  <1>9. NegotiationInv(media', None, replies)
    BY <1>4, <1>7, NothingNegotiated
  <1>10. Typed'
    BY <1>1, <1>5, <1>7 DEF Typed, Sessions, MediaInv
  <1> QED BY <1>4, <1>5, <1>6, <1>7, <1>8, <1>9, <1>10 DEF IInv

\* A drop, and the end of a session at the gateway.
LEMMA LostStep ==
    ASSUME IInv, Dropped \/ Ended
    PROVE  IInv'
  <1>1. media \in Media /\ Typed /\ ConnectionInv
    BY DEF IInv, Typed
  <1>2. /\ session' \in Sessions \ {"connected"} /\ server' \in {"retrying", "over"}
        /\ media' = Release(media) /\ offer' = None /\ replies' = <<>>
        /\ UNCHANGED <<requests, sockets, settings>>
    BY DEF Dropped, Ended, Sessions
  <1>3. MediaInv(media') /\ SessionInv(media', session', settings)
        /\ NegotiationInv(media', None, <<>>)
    BY <1>1, <1>2, ReleasedInv
  <1>4. media' \in Media
    BY <1>3 DEF MediaInv
  <1>5. Typed'
    BY <1>1, <1>2, <1>4, EmptyOwned, RepliesAssumption DEF Typed
  <1>6. ConnectionInv'
    BY <1>1 DEF ConnectionInv, Dropped, Ended
  <1> QED BY <1>2, <1>3, <1>5, <1>6 DEF IInv

-----------------------------------------------------------------------------
(* The microphone's answers. *)

\* A step of the page's audio alone: what is left to show about it.
LEMMA AudioStep ==
    ASSUME IInv, UNCHANGED <<session, requests, sockets, server, offer, replies, settings>>,
           MediaInv(media'), SessionInv(media', session, settings),
           NegotiationInv(media', offer, replies)
    PROVE  IInv'
  <1>1. Typed'
    BY DEF IInv, Typed, MediaInv
  <1>2. ConnectionInv'
    BY DEF IInv, ConnectionInv
  <1> QED BY <1>1, <1>2 DEF IInv

LEMMA Parts ==
    ASSUME IInv
    PROVE  /\ media \in Media /\ Typed /\ ConnectionInv
           /\ MicrophoneInv(media) /\ DeviceInv(media) /\ AttemptInv(media)
           /\ SessionInv(media, session, settings)
           /\ NegotiationInv(media, offer, replies)
  BY DEF IInv, MediaInv

LEMMA GrantedStep ==
    ASSUME IInv, Granted
    PROVE  IInv'
  <1>1. PICK a \in Asking : a = media.asking
    BY Parts, MediaFields DEF Granted
  <1>2. PICK b \in Asking : b = [a EXCEPT !.granted = TRUE]
    BY DEF Asking
  <1>3. b.by = a.by /\ b.device = a.device /\ b.overtaken = a.overtaken
    BY <1>2 DEF Asking
  <1>10. PICK open \in SUBSET Streams : open = media.open \cup {"asked"}
    BY Parts, MediaFields DEF Streams
  <1>4. media' = [media EXCEPT !.asking = b, !.open = open]
    BY <1>1, <1>2, <1>10, Zenon DEF Granted
  <1>5. /\ media' \in Media /\ media'.asking = b /\ media'.rtc = media.rtc
        /\ media'.start = media.start /\ media'.mic = media.mic /\ media'.error = media.error
        /\ media'.selected = media.selected /\ media'.committed = media.committed
        /\ media'.change = media.change /\ media'.test = media.test
    BY <1>4, Parts DEF Media
  <1>6. media.asking # None /\ b # None
    BY <1>2, NoneDiffers DEF Granted
  <1>7. MediaInv(media')
    BY <1>1, <1>3, <1>5, <1>6, Parts
       DEF MediaInv, MicrophoneInv, DeviceInv, AttemptInv, Active, AskedBy
  <1>8. SessionInv(media', session, settings)
    BY <1>1, <1>3, <1>5, <1>6, Parts DEF SessionInv, AskedBy
  <1>9. NegotiationInv(media', offer, replies)
    BY <1>5, Parts, NegotiationKept DEF Active
  <1> QED BY <1>7, <1>8, <1>9, AudioStep DEF Granted

\* What comes of an aborted request concerns nobody else.
LEMMA LateStep ==
    ASSUME IInv, LateGranted \/ LateEnds
    PROVE  IInv'
  <1>1. PICK open \in SUBSET Streams, late \in BOOLEAN :
            media' = [media EXCEPT !.open = open, !.late = late]
    <2>1. CASE LateGranted
      <3>1. PICK open \in SUBSET Streams : open = media.open \cup {"late"}
        BY Parts, MediaFields DEF Streams
      <3>2. media' = [media EXCEPT !.open = open, !.late = media.late]
        BY <2>1, <3>1, Parts DEF LateGranted, Media
      <3> QED BY <3>2, Parts, MediaFields
    <2>2. CASE LateEnds
      <3>1. PICK open \in SUBSET Streams : open = media.open \ {"late"}
        BY Parts, MediaFields
      <3>2. PICK late \in BOOLEAN : media' = [media EXCEPT !.late = late, !.open = open]
        BY <2>2, <3>1, Zenon DEF LateEnds, LateReleased
      <3>3. media' = [media EXCEPT !.open = open, !.late = late]
        BY <3>2, Parts DEF Media
      <3> QED BY <3>3
    <2> QED BY <2>1, <2>2
  <1>2. /\ media' \in Media /\ media'.asking = media.asking /\ media'.rtc = media.rtc
        /\ media'.start = media.start /\ media'.mic = media.mic /\ media'.error = media.error
        /\ media'.selected = media.selected /\ media'.committed = media.committed
        /\ media'.change = media.change /\ media'.test = media.test
    BY <1>1, Parts DEF Media
  <1>3. MediaInv(media')
    BY <1>2, Parts DEF MediaInv, MicrophoneInv, DeviceInv, AttemptInv, Active, AskedBy
  <1>4. SessionInv(media', session, settings)
    BY <1>2, Parts DEF SessionInv, AskedBy
  <1>5. NegotiationInv(media', offer, replies)
    BY <1>2, Parts, NegotiationKept DEF Active
  <1> QED BY <1>3, <1>4, <1>5, AudioStep DEF LateGranted, LateEnds

\* An attempt whose microphone was not to be had.
LEMMA LeftFields ==
    \A a \in Attempt : /\ [a EXCEPT !.step = "left"] \in Attempt
                       /\ [a EXCEPT !.step = "left"].step = "left"
  BY DEF Attempt

LEMMA RefusedStep ==
    ASSUME IInv, Refused
    PROVE  IInv'
  <1> DEFINE d == media
  <1>1. PICK a \in Asking : a = d.asking
    BY Parts, MediaFields DEF Refused
  <1>2. PICK m \in Media : m = [d EXCEPT !.asking = None, !.open = @ \ {"asked"},
                                         !.error = d.asking.by]
    <2>1. PICK open \in SUBSET Streams : open = d.open \ {"asked"}
      BY Parts, MediaFields
    <2>2. [d EXCEPT !.asking = None, !.open = open, !.error = d.asking.by] \in Media
      BY <1>1, <2>1, Parts DEF Media, Asking
    <2> QED BY <2>1, <2>2, Zenon
  <1>3. /\ m.asking = None /\ m.error = a.by /\ m.rtc = d.rtc
        /\ m.start = d.start /\ m.mic = d.mic
        /\ m.selected = d.selected /\ m.committed = d.committed
        /\ m.change = d.change /\ m.test = d.test
    BY <1>1, <1>2, Parts DEF Media
  <1>4. a # None /\ d.asking # None /\ a.by # "none" /\ a.by \in Callers
    BY <1>1, NoneDiffers DEF Asking, Callers
  <1> DEFINE left == IF m.rtc = None THEN None ELSE [m.rtc EXCEPT !.step = "left"]
             away == [m EXCEPT !.start = "none", !.rtc = left]
             back == [m EXCEPT !.change = "none", !.selected = m.committed]
             done == EndTest(m, session = "connected")
  <1>5. media' = CASE m.start = "asking" -> away
                   [] m.change \in {"microphone", "restart"} -> back
                   [] a.by = "test" -> done
                   [] OTHER -> m
    BY <1>1, <1>2, Zenon DEF Refused
  <1>8. left \in Attempt \cup {None} /\ (left = None <=> m.rtc = None)
        /\ (left # None => left.step = "left")
    BY LeftFields, MediaFields, NoneDiffers, Zenon
  <1> HIDE DEF d, left
  <1>6. /\ d \in Media /\ MicrophoneInv(d) /\ DeviceInv(d) /\ AttemptInv(d)
        /\ SessionInv(d, session, settings) /\ NegotiationInv(d, offer, replies)
    BY Parts DEF d
  <1>9. /\ m.start = "asking" => media' = away
        /\ m.start # "asking" /\ m.change \in {"microphone", "restart"} => media' = back
        /\ m.start # "asking" /\ m.change \notin {"microphone", "restart"} /\ a.by = "test" =>
              media' = done
        /\ m.start # "asking" /\ m.change \notin {"microphone", "restart"} /\ a.by # "test" =>
              media' = m
    <2>1. /\ m.start = "asking" => a.by = "start"
          /\ m.change \in {"microphone", "restart"} => a.by = "change"
      BY <1>1, <1>3, <1>6 DEF MicrophoneInv, AskedBy
    <2> HIDE DEF away, back, done
    <2> QED BY <1>5, <2>1
  <1>7. /\ MediaInv(media') /\ SessionInv(media', session, settings)
        /\ NegotiationInv(media', offer, replies)
    <2>1. CASE m.start = "asking"
      <3>2. media' = [m EXCEPT !.start = "none", !.rtc = left]
        BY <1>9, <2>1
      <3>3. /\ media' \in Media /\ media'.rtc = left /\ media'.asking = None
            /\ media'.start = "none" /\ media'.mic = m.mic /\ media'.error = m.error
            /\ media'.selected = m.selected /\ media'.committed = m.committed
            /\ media'.change = m.change /\ media'.test = m.test
        BY <1>3, <1>8, <3>2 DEF Media
      <3>4. d.mic = None /\ ~Active(d) /\ a.by = "start" /\ ~Active(media')
        BY <1>1, <1>3, <1>6, <1>8, <2>1, <3>3 DEF MicrophoneInv, AttemptInv, AskedBy, Active
      <3>5. MediaInv(media')
        BY <1>1, <1>3, <1>4, <1>6, <1>8, <3>3, <3>4
           DEF MediaInv, MicrophoneInv, DeviceInv, AttemptInv, AskedBy
      <3>6. SessionInv(media', session, settings)
        BY <1>3, <1>4, <1>6, <1>8, <3>3 DEF SessionInv, AskedBy
      <3>7. NegotiationInv(media', offer, replies)
        BY <1>6, <3>4, NegotiationKept
      <3> QED BY <3>5, <3>6, <3>7
    <2>2. CASE m.start # "asking" /\ m.change \in {"microphone", "restart"}
      <3>1. media' = [m EXCEPT !.change = "none", !.selected = m.committed]
        BY <1>9, <2>2
      <3>2. /\ media' \in Media /\ media'.rtc = d.rtc /\ media'.asking = None
            /\ media'.start = m.start /\ media'.mic = m.mic /\ media'.error = m.error
            /\ media'.selected = m.committed /\ media'.committed = m.committed
            /\ media'.change = "none" /\ media'.test = m.test
        BY <1>3, <3>1 DEF Media
      <3>3. MediaInv(media')
        BY <1>1, <1>3, <1>4, <1>6, <2>2, <3>2
           DEF MediaInv, MicrophoneInv, DeviceInv, AttemptInv, AskedBy, Active
      <3>4. SessionInv(media', session, settings)
        BY <1>3, <1>4, <1>6, <3>2 DEF SessionInv, AskedBy
      <3>5. NegotiationInv(media', offer, replies)
        BY <1>6, <3>2, NegotiationKept DEF Active
      <3> QED BY <3>3, <3>4, <3>5
    <2>3. CASE m.start # "asking" /\ m.change \notin {"microphone", "restart"} /\ a.by = "test"
      <3>1. media' = EndTest(m, session = "connected")
        BY <1>9, <2>3
      <3>2. d.mic = None /\ ~Active(d) /\ (session = "connected") \in BOOLEAN
        BY <1>1, <1>4, <1>6, <2>3 DEF MicrophoneInv, AttemptInv, AskedBy, Takeover
      <3>3. /\ media' \in Media /\ media'.test = "none" /\ media'.error = m.error
            /\ media'.selected = m.selected /\ media'.committed = m.committed
            /\ media'.asking = None /\ media'.mic = None
            /\ \/ /\ media'.rtc = m.rtc /\ media'.start = m.start /\ media'.change = m.change
               \/ /\ session # "connected" /\ media'.start = "none"
                  /\ media'.change = m.change
                  /\ m.rtc = None => media'.rtc = None
        BY <1>3, <2>3, <3>1, <3>2, EndTestFields
      <3>4. ~Active(media')
        BY <1>3, <1>6, <3>2, <3>3 DEF Active, SessionInv
      <3>5. media'.rtc # None => media'.rtc = d.rtc
        BY <1>3, <1>6, <3>3 DEF SessionInv
      <3>6. MediaInv(media')
        BY <1>1, <1>3, <1>4, <1>6, <2>3, <3>2, <3>3, <3>4
           DEF MediaInv, MicrophoneInv, DeviceInv, AttemptInv, AskedBy
      <3>7. SessionInv(media', session, settings)
        BY <1>3, <1>4, <1>6, <3>3, <3>5 DEF SessionInv, AskedBy
      <3>8. NegotiationInv(media', offer, replies)
        BY <1>6, <3>2, <3>4, NegotiationKept
      <3> QED BY <3>6, <3>7, <3>8
    <2>4. CASE m.start # "asking" /\ m.change \notin {"microphone", "restart"} /\ a.by # "test"
      <3>1. media' = m
        BY <1>9, <2>4
      <3>2. MediaInv(media')
        BY <1>1, <1>3, <1>4, <1>6, <2>4, <3>1
           DEF MediaInv, MicrophoneInv, DeviceInv, AttemptInv, AskedBy, Active, Takeover
      <3>3. SessionInv(media', session, settings)
        BY <1>3, <1>4, <1>6, <3>1 DEF SessionInv, AskedBy
      <3>4. NegotiationInv(media', offer, replies)
        BY <1>3, <1>6, <3>1, NegotiationKept DEF Active
      <3> QED BY <3>2, <3>3, <3>4
    <2> QED BY <2>1, <2>2, <2>3, <2>4
  <1> QED BY <1>7, AudioStep DEF Refused

\* The state of a complete graph: mic replaces the former microphone.
Committed(d, mic, rtc, start, change) ==
    [d EXCEPT !.mic = mic, !.open = {"kept"}, !.rtc = rtc, !.asking = None, !.error = "none",
              !.committed = d.selected, !.start = start, !.change = change]

LEMMA CommittedFields ==
    ASSUME NEW d \in Media, NEW mic \in Microphone, NEW rtc \in Attempt \cup {None},
           NEW start \in {"none", "listing", "overtaken"}, NEW change \in {"none", "list"}
    PROVE  LET m == Committed(d, mic, rtc, start, change)
           IN  /\ m \in Media /\ m.mic = mic /\ m.rtc = rtc /\ m.asking = None
               /\ m.error = "none" /\ m.selected = d.selected /\ m.committed = d.selected
               /\ m.start = start /\ m.change = change /\ m.test = d.test
  BY DEF Media, Committed, Streams

LEMMA CommitStep ==
    ASSUME IInv, Commit
    PROVE  IInv'
  <1>0. PICK d \in Media : d = media
    BY Parts
  <1>1. PICK a \in Asking : a = d.asking
    BY <1>0, MediaFields DEF Commit
  <1> DEFINE mic == [device |-> d.asking.device, pcm |-> TRUE, overtaken |-> d.asking.overtaken]
             rtc == IF d.rtc = None THEN None ELSE [d.rtc EXCEPT !.input = FALSE]
             start == IF d.start = "asking" THEN "listing" ELSE d.start
             change == IF d.change = "list" THEN d.change ELSE "none"
             m == Committed(d, mic, rtc, start, change)
  <1>2. /\ mic \in Microphone /\ mic.pcm /\ mic # None
        /\ mic.device = a.device /\ mic.overtaken = a.overtaken
    BY <1>1, NoneDiffers DEF Asking, Microphone
  <1>3. /\ rtc \in Attempt \cup {None} /\ (rtc = None <=> d.rtc = None)
        /\ (rtc # None => /\ rtc.step = d.rtc.step /\ rtc.remote = d.rtc.remote
                          /\ rtc.unseen = d.rtc.unseen)
    BY <1>0, UnfedFields, MediaFields, NoneDiffers, Zenon
  <1>4. /\ d.change = "restart" =>
              /\ media' = StartRtc(m)
              /\ offer' = IF offer = None THEN None ELSE [offer EXCEPT !.own = FALSE]
              /\ replies' = Disowned(replies)
        /\ d.change # "restart" => media' = m /\ UNCHANGED <<offer, replies>>
    BY <1>0, Zenon DEF Commit, Committed
  <1>5. d.asking # None /\ UNCHANGED <<session, requests, sockets, server, settings>>
    BY <1>0 DEF Commit
  <1>6. /\ d \in Media /\ MicrophoneInv(d) /\ DeviceInv(d) /\ AttemptInv(d)
        /\ SessionInv(d, session, settings) /\ NegotiationInv(d, offer, replies)
        /\ Typed /\ ConnectionInv
    BY <1>0, Parts
  <1>12. /\ start \in {"none", "listing", "overtaken"} /\ change \in {"none", "list"}
         /\ start = (IF d.start = "asking" THEN "listing" ELSE d.start)
         /\ change = (IF d.change = "list" THEN "list" ELSE "none")
    BY <1>6, MediaFields
  <1> HIDE DEF mic, rtc, start, change
  <1>13. /\ m \in Media /\ m.mic = mic /\ m.rtc = rtc /\ m.asking = None /\ m.error = "none"
         /\ m.selected = d.selected /\ m.committed = d.selected
         /\ m.start = start /\ m.change = change /\ m.test = d.test
    <2>1. /\ d \in Media /\ mic \in Microphone /\ rtc \in Attempt \cup {None}
          /\ start \in {"none", "listing", "overtaken"} /\ change \in {"none", "list"}
      BY <1>0, <1>2, <1>3, <1>12
    <2> QED BY <2>1, CommittedFields
  <1>7. /\ m \in Media /\ m.mic = mic /\ m.rtc = rtc /\ m.asking = None /\ m.error = "none"
        /\ m.selected = d.selected /\ m.committed = d.selected
        /\ m.start = (IF d.start = "asking" THEN "listing" ELSE d.start)
        /\ m.change = (IF d.change = "list" THEN "list" ELSE "none") /\ m.test = d.test
    BY <1>12, <1>13
  <1> HIDE DEF m
  <1>8. /\ MicrophoneInv(m) /\ DeviceInv(m) /\ ~AskedBy(m, "fallback")
    BY <1>1, <1>2, <1>5, <1>6, <1>7 DEF MicrophoneInv, DeviceInv, AskedBy
  <1>9. ConnectionInv'
    BY <1>5, <1>6 DEF ConnectionInv
  <1>10. CASE d.change # "restart"
    <2>1. Active(m) <=> Active(d)
      BY <1>3, <1>7 DEF Active
    <2>2. Active(d) => d.rtc.unseen
      BY <1>1, <1>5, <1>6, <1>10 DEF AttemptInv, MicrophoneInv, AskedBy, Takeover, Active
    <2>3. Active(m) => m.mic # None /\ m.start = "none" /\ m.rtc.unseen
      BY <1>2, <1>3, <1>6, <1>7, <2>1, <2>2 DEF AttemptInv, Active
    <2>4. AttemptInv(m)
      BY <1>2, <1>7, <1>8, <2>3 DEF AttemptInv
    <2>5. SessionInv(m, session, settings)
      BY <1>2, <1>3, <1>5, <1>6, <1>7, <1>8 DEF SessionInv, MicrophoneInv
    <2>6. NegotiationInv(m, offer, replies)
      BY <1>3, <1>6, <1>7, <2>1, NegotiationKept DEF Active
    <2>7. media' = m /\ UNCHANGED <<offer, replies>>
      BY <1>4, <1>10
    <2>8. MediaInv(m)
      BY <1>7, <1>8, <2>4 DEF MediaInv
    <2> QED BY <1>5, <2>5, <2>6, <2>7, <2>8, AudioStep
  <1>11. CASE d.change = "restart"
    <2>1. m.start = "none" /\ m.mic # None /\ session = "connected"
      BY <1>2, <1>6, <1>7, <1>11 DEF AttemptInv, SessionInv, Active
    <2>2. /\ media' \in Media /\ media'.rtc \in Attempt /\ media'.error = m.error
          /\ media'.selected = m.selected /\ media'.committed = m.committed
          /\ media'.rtc.step = "offering" /\ media'.rtc.remote = "none" /\ media'.rtc.input
          /\ media'.mic \in Microphone /\ ~media'.mic.pcm
          /\ media'.mic.device = m.mic.device /\ media'.mic.overtaken = m.mic.overtaken
          /\ media'.start = "none" /\ media'.asking = m.asking
          /\ media'.change = m.change /\ media'.test = m.test
      BY <1>4, <1>7, <1>11, <2>1, StartRtcFields
    <2>3. MediaInv(media')
      BY <1>7, <1>8, <2>1, <2>2, NoneDiffers
         DEF MediaInv, MicrophoneInv, DeviceInv, AttemptInv, AskedBy, Active
    <2>4. SessionInv(media', session, settings)
      BY <2>1, <2>2, NoneDiffers DEF SessionInv
    <2>5. offer' \in Offer \cup {None} /\ (offer' # None => ~offer'.own)
      <3>1. \A o \in Offer : [o EXCEPT !.own = FALSE] \in Offer /\ ~[o EXCEPT !.own = FALSE].own
        BY DEF Offer
      <3>2. offer \in Offer \cup {None}
        BY <1>6 DEF Typed
      <3> QED BY <1>4, <1>11, <3>1, <3>2, Zenon
    <2>6. replies' \in Seq(Reply) /\ Len(replies') <= MaxReplies /\ Owned(replies') = {}
      BY <1>4, <1>6, <1>11, DisownedReplies DEF Typed
    <2>7. NegotiationInv(media', offer', replies')
      BY <2>2, <2>5, <2>6, NoneDiffers DEF NegotiationInv, Active, Sent
    <2>8. Typed'
      BY <1>5, <1>6, <2>2, <2>5, <2>6 DEF Typed
    <2> QED BY <1>5, <1>9, <2>3, <2>4, <2>7, <2>8 DEF IInv
  <1> QED BY <1>10, <1>11

LEMMA ListedStep ==
    ASSUME IInv, Listed
    PROVE  IInv'
  <1>1. PICK m \in Media : m = [media EXCEPT !.start = "none"]
    BY Parts DEF Media
  <1>2. /\ m.start = "none" /\ m.mic = media.mic /\ m.rtc = media.rtc
        /\ m.asking = media.asking /\ m.error = media.error /\ m.change = media.change
        /\ m.test = media.test /\ m.selected = media.selected /\ m.committed = media.committed
    BY <1>1, Parts DEF Media
  <1>3. media' = IF m.rtc # None /\ m.rtc.step = "microphone" THEN BeginOffer(m) ELSE m
    BY <1>1, Zenon DEF Listed
  <1>4. media.start = "listing" /\ media.mic # None /\ ~Active(media)
    BY Parts DEF Listed, MicrophoneInv, AttemptInv
  <1>5. session = "connected"
    BY <1>4, Parts DEF SessionInv
  <1>6. CASE m.rtc # None /\ m.rtc.step = "microphone"
    <2>1. /\ media' \in Media /\ media'.rtc \in Attempt
          /\ media'.rtc.step = "offering" /\ media'.rtc.remote = "none" /\ media'.rtc.input
          /\ media'.rtc.unseen = (m.change = "microphone")
          /\ media'.mic \in Microphone /\ ~media'.mic.pcm
          /\ media'.mic.device = m.mic.device /\ media'.mic.overtaken = m.mic.overtaken
          /\ media'.start = m.start /\ media'.asking = m.asking /\ media'.error = m.error
          /\ media'.selected = m.selected /\ media'.committed = m.committed
          /\ media'.change = m.change /\ media'.test = m.test
      BY <1>2, <1>3, <1>4, <1>6, BeginOfferFields
    <2>2. /\ MicrophoneInv(media) /\ DeviceInv(media) /\ AttemptInv(media)
          /\ NegotiationInv(media, offer, replies) /\ media.rtc # None
      BY <1>2, <1>6, Parts
    <2>3. MediaInv(media')
      <3>1. MicrophoneInv(media')
        BY <1>2, <1>4, <2>1, <2>2, NoneDiffers DEF MicrophoneInv, AskedBy
      <3>2. DeviceInv(media')
        BY <1>2, <1>4, <2>1, <2>2, NoneDiffers DEF DeviceInv
      <3>3. AttemptInv(media')
        BY <1>2, <1>4, <2>1, <2>2, NoneDiffers DEF AttemptInv, AskedBy, Active
      <3> QED BY <2>1, <3>1, <3>2, <3>3 DEF MediaInv
    <2>4. SessionInv(media', session, settings)
      BY <1>5, <2>1, NoneDiffers DEF SessionInv
    <2>5. offer = None /\ Owned(replies) = {}
      BY <1>4, <2>2 DEF NegotiationInv, Sent
    <2>6. NegotiationInv(media', offer, replies)
      BY <2>1, <2>5, NothingNegotiated
    <2> QED BY <2>3, <2>4, <2>6, AudioStep DEF Listed
  <1>7. CASE ~(m.rtc # None /\ m.rtc.step = "microphone")
    <2>1. media' = m
      BY <1>3, <1>7
    <2>2. MediaInv(m)
      BY <1>2, <1>4, Parts DEF MediaInv, MicrophoneInv, DeviceInv, AttemptInv, AskedBy, Active
    <2>3. SessionInv(m, session, settings)
      BY <1>2, <1>4, <1>5 DEF SessionInv
    <2>4. NegotiationInv(m, offer, replies)
      BY <1>2, Parts, NegotiationKept DEF Active
    <2> QED BY <2>1, <2>2, <2>3, <2>4, AudioStep DEF Listed
  <1> QED BY <1>6, <1>7

LEMMA OvertakenStep ==
    ASSUME IInv, Overtaken
    PROVE  IInv'
  <1> DEFINE rtc == IF media.rtc # None /\ media.rtc.step = "microphone"
                    THEN [media.rtc EXCEPT !.step = "left"] ELSE media.rtc
  <1>1. /\ rtc \in Attempt \cup {None} /\ (rtc = None <=> media.rtc = None)
        /\ rtc = media.rtc \/ (~(rtc # None /\ rtc.step \in {"offering", "offered"})
                               /\ ~Active(media))
    <2>1. media.rtc \in Attempt \cup {None}
      BY Parts, MediaFields
    <2>2. CASE media.rtc # None /\ media.rtc.step = "microphone"
      <3>1. rtc = [media.rtc EXCEPT !.step = "left"]
        BY <2>2, Zenon
      <3>2. rtc \in Attempt /\ rtc.step = "left"
        BY <2>1, <2>2, <3>1, LeftFields, Zenon
      <3> HIDE DEF rtc
      <3> QED BY <2>2, <3>2, NoneDiffers DEF Active
    <2>3. CASE ~(media.rtc # None /\ media.rtc.step = "microphone")
      <3>1. rtc = media.rtc
        BY <2>3, Zenon
      <3> HIDE DEF rtc
      <3> QED BY <2>1, <3>1
    <2> QED BY <2>2, <2>3
  <1>2. media' = [media EXCEPT !.start = "none", !.rtc = rtc]
    BY Zenon DEF Overtaken
  <1> HIDE DEF rtc
  <1>3. /\ media' \in Media /\ media'.start = "none" /\ media'.rtc = rtc
        /\ media'.mic = media.mic /\ media'.asking = media.asking
        /\ media'.error = media.error /\ media'.change = media.change
        /\ media'.test = media.test /\ media'.selected = media.selected
        /\ media'.committed = media.committed
    BY <1>1, <1>2, Parts DEF Media
  <1>4. ~Active(media) /\ ~Active(media') /\ media.start = "overtaken"
    BY <1>1, <1>3, Parts DEF Overtaken, AttemptInv, Active
  <1>5. MediaInv(media')
    BY <1>1, <1>3, <1>4, Parts DEF MediaInv, MicrophoneInv, DeviceInv, AttemptInv, AskedBy
  <1>6. SessionInv(media', session, settings)
    BY <1>1, <1>3, Parts DEF SessionInv, AskedBy
  <1>7. NegotiationInv(media', offer, replies)
    BY <1>4, Parts, NegotiationKept
  <1> QED BY <1>5, <1>6, <1>7, AudioStep DEF Overtaken

-----------------------------------------------------------------------------
(* Negotiation. *)

LEMMA OfferedStep ==
    ASSUME IInv, Offered
    PROVE  IInv'
  <1>1. PICK a \in Attempt : a = media.rtc
    BY Parts, MediaFields DEF Offered
  <1>2. PICK b \in Attempt : b = [a EXCEPT !.step = "offered"]
    BY DEF Attempt
  <1>3. b.step = "offered" /\ b.remote = a.remote /\ b.input = a.input /\ b.unseen = a.unseen
    BY <1>2 DEF Attempt
  <1>4. media' = [media EXCEPT !.rtc = b]
    BY <1>1, <1>2, Zenon DEF Offered
  <1>5. /\ media' \in Media /\ media'.rtc = b /\ media'.asking = media.asking
        /\ media'.start = media.start /\ media'.mic = media.mic /\ media'.error = media.error
        /\ media'.selected = media.selected /\ media'.committed = media.committed
        /\ media'.change = media.change /\ media'.test = media.test
    BY <1>4, Parts DEF Media
  <1>6. a # None /\ b # None /\ a.step = "offering" /\ media.rtc = a
    BY <1>1, <1>2, NoneDiffers DEF Offered
  <1>7. Active(media) /\ Active(media') /\ Sent(media') /\ ~Sent(media)
    BY <1>3, <1>5, <1>6 DEF Active, Sent
  <1>8. /\ MicrophoneInv(media) /\ DeviceInv(media) /\ AttemptInv(media)
        /\ SessionInv(media, session, settings) /\ NegotiationInv(media, offer, replies)
        /\ Typed /\ ConnectionInv
    BY Parts
  <1>9. MediaInv(media')
    BY <1>3, <1>5, <1>6, <1>7, <1>8
       DEF MediaInv, MicrophoneInv, DeviceInv, AttemptInv, AskedBy
  <1>10. SessionInv(media', session, settings)
    BY <1>5, <1>6, <1>8 DEF SessionInv, AskedBy
  <1>11. Owned(replies) = {} /\ a.remote # "own"
    BY <1>6, <1>7, <1>8 DEF NegotiationInv, Sent
  <1>12. offer' \in Offer /\ offer'.own /\ ~offer'.answered /\ offer' # None
    <2>1. offer' = [answered |-> FALSE, own |-> TRUE]
      BY DEF Offered
    <2> QED BY <2>1, NoneDiffers DEF Offer
  <1>13. NegotiationInv(media', offer', replies)
    BY <1>3, <1>5, <1>7, <1>11, <1>12 DEF NegotiationInv
  <1>14. UNCHANGED <<session, requests, sockets, server, replies, settings>>
    BY DEF Offered
  <1>15. Typed' /\ ConnectionInv'
    BY <1>5, <1>8, <1>12, <1>14 DEF Typed, ConnectionInv
  <1> QED BY <1>9, <1>10, <1>13, <1>14, <1>15 DEF IInv

LEMMA FailStep ==
    ASSUME IInv, NEW waiting \in Seq(Reply), Len(waiting) <= MaxReplies, media.rtc # None,
           Fail(waiting), UNCHANGED <<session, requests, sockets, server, settings>>
    PROVE  IInv'
  <1>1. PICK m \in Media : m = [media EXCEPT !.rtc = None]
    BY Parts DEF Media
  <1>2. /\ m.rtc = None /\ m.asking = media.asking
        /\ m.start = media.start /\ m.mic = media.mic /\ m.error = media.error
        /\ m.selected = media.selected /\ m.committed = media.committed
        /\ m.change = media.change /\ m.test = media.test
    BY <1>1, Parts DEF Media
  <1>3. media' = StartMicrophone(m, "fallback")
    BY <1>1, Zenon DEF Fail
  <1>4. /\ media' \in Media /\ media'.asking \in Asking /\ media'.rtc = None
        /\ media'.asking.by = "fallback" /\ media'.asking.device = m.selected
        /\ media'.start = (IF m.start = "none" THEN "none" ELSE "overtaken")
        /\ media'.change = (IF m.change \in {"microphone", "restart"} THEN "none" ELSE m.change)
        /\ media'.test = (IF m.test = "preparing" THEN "overtaken" ELSE m.test)
        /\ media'.mic = m.mic /\ media'.error = m.error
        /\ media'.selected = m.selected /\ media'.committed = m.committed
    <2>1. "fallback" \in Callers
      BY DEF Callers
    <2> QED BY <1>2, <1>3, <2>1, StartMicrophoneFields
  <1>5. media'.asking # None /\ ~Active(media')
    BY <1>4, NoneDiffers DEF Active
  <1>6. /\ MicrophoneInv(media) /\ DeviceInv(media) /\ AttemptInv(media)
        /\ SessionInv(media, session, settings)
        /\ Typed /\ ConnectionInv
    BY Parts
  <1>7. session = "connected"
    BY <1>6 DEF SessionInv
  <1>8. MicrophoneInv(media')
    BY <1>4, <1>5 DEF MicrophoneInv, AskedBy, Takeover
  <1>9. DeviceInv(media')
    BY <1>2, <1>4, <1>5, <1>6 DEF DeviceInv, Takeover
  <1>10. AttemptInv(media')
    BY <1>4, <1>5 DEF AttemptInv
  <1>11. SessionInv(media', session, settings)
    BY <1>5, <1>7 DEF SessionInv
  <1>12. offer' = None /\ replies' = Disowned(waiting)
    BY DEF Fail
  <1>13. replies' \in Seq(Reply) /\ Len(replies') <= MaxReplies /\ Owned(replies') = {}
    BY <1>12, DisownedReplies
  <1>14. NegotiationInv(media', offer', replies')
    BY <1>5, <1>12, <1>13, NothingNegotiated
  <1>15. Typed' /\ ConnectionInv'
    BY <1>4, <1>6, <1>12, <1>13 DEF Typed, ConnectionInv
  <1>16. MediaInv(media')
    BY <1>4, <1>8, <1>9, <1>10 DEF MediaInv
  <1> QED BY <1>11, <1>14, <1>15, <1>16 DEF IInv

\* The gateway replies to the offer it holds a peer for.
LEMMA GatewayStep ==
    ASSUME IInv, GatewayAnswers \/ GatewayRefuses
    PROVE  IInv'
  <1>1. PICK o \in Offer : o = offer
    BY Parts DEF Typed, GatewayAnswers, GatewayRefuses
  <1>2. PICK r \in Reply : r \in {[kind |-> "answer", own |-> o.own], [kind |-> "error", own |-> o.own]}
                           /\ replies' = Append(replies, r)
                           /\ r.own = o.own
                           /\ \/ r.kind = "answer" /\ offer' = [o EXCEPT !.answered = TRUE]
                              \/ r.kind = "error" /\ offer' = None
    BY <1>1 DEF GatewayAnswers, GatewayRefuses, Reply, Offer
  <1>3. /\ o # None /\ ~o.answered /\ Len(replies) < MaxReplies
        /\ UNCHANGED <<session, requests, sockets, server, media, settings>>
    BY <1>1 DEF GatewayAnswers, GatewayRefuses
  <1>4. /\ NegotiationInv(media, o, replies) /\ Typed /\ ConnectionInv
        /\ replies \in Seq(Reply) /\ Len(replies) \in Nat
    BY <1>1, Parts DEF Typed
  <1>5. /\ offer' \in Offer \cup {None}
        /\ offer' # None => offer'.own = o.own /\ offer'.answered /\ r.kind = "answer"
        /\ r.kind = "answer" => offer' # None
    <2>1. /\ [o EXCEPT !.answered = TRUE] \in Offer
          /\ [o EXCEPT !.answered = TRUE].own = o.own /\ [o EXCEPT !.answered = TRUE].answered
      BY DEF Offer
    <2> QED BY <1>2, <2>1, NoneDiffers
  <1>6. /\ replies' \in Seq(Reply) /\ Len(replies') = Len(replies) + 1
        /\ \A n \in DOMAIN replies' : \/ n \in DOMAIN replies /\ replies'[n] = replies[n]
                                      \/ n = Len(replies) + 1 /\ replies'[n] = r
    BY <1>2, <1>4, AppendReplies
  <1>7. NegotiationInv(media, offer', replies')
    <2>1. CASE ~o.own
      <3>1. \A n \in Owned(replies') : n \in Owned(replies) /\ replies'[n] = replies[n]
        BY <1>2, <1>6, <2>1 DEF Owned
      <3>2. \A n \in Owned(replies) : replies[n].kind # "answer"
        BY <1>4, <2>1 DEF NegotiationInv
      <3>3. ~(Active(media) /\ media.rtc.remote = "own")
        BY <1>4, <2>1 DEF NegotiationInv
      <3>4. /\ Owned(replies) # {} => Sent(media) /\ media.rtc.remote # "own"
            /\ \A i, j \in Owned(replies) : i = j
            /\ Active(media)
        BY <1>3, <1>4 DEF NegotiationInv
      <3>5. offer' # None => ~offer'.own
        BY <1>5, <2>1
      <3> QED BY <3>1, <3>2, <3>3, <3>4, <3>5 DEF NegotiationInv
    <2>2. CASE o.own
      <3>1. Owned(replies) = {} /\ Sent(media) /\ Active(media)
        BY <1>3, <1>4, <2>2 DEF NegotiationInv
      <3>2. media.rtc.remote # "own"
        BY <1>3, <1>4, <3>1 DEF NegotiationInv
      <3>3. \A n \in Owned(replies') : n = Len(replies) + 1 /\ replies'[n] = r
        BY <1>6, <3>1 DEF Owned
      <3> QED BY <1>5, <2>2, <3>1, <3>2, <3>3 DEF NegotiationInv
    <2> QED BY <2>1, <2>2
  <1>8. MediaInv(media) /\ SessionInv(media, session, settings) /\ media \in Media
    BY Parts DEF MediaInv
  <1>9. Len(replies') <= MaxReplies
    BY <1>3, <1>4, <1>6, RepliesAssumption
  <1>10. Typed' /\ ConnectionInv'
    BY <1>3, <1>4, <1>5, <1>6, <1>8, <1>9 DEF Typed, ConnectionInv
  <1> QED BY <1>3, <1>7, <1>8, <1>10 DEF IInv

LEMMA AnswerAppliedStep ==
    ASSUME IInv, AnswerApplied
    PROVE  IInv'
  <1>1. /\ MediaInv(media) /\ SessionInv(media, session, settings) /\ media \in Media
        /\ NegotiationInv(media, offer, replies) /\ Typed /\ ConnectionInv
        /\ replies \in Seq(Reply) /\ Len(replies) \in Nat /\ Len(replies) <= MaxReplies
    BY Parts DEF MediaInv, Typed
  <1>2. /\ replies # <<>> /\ replies' = Tail(replies) /\ Head(replies).kind = "answer"
        /\ UNCHANGED <<session, requests, sockets, server, settings>>
        /\ offer' = offer
    BY DEF AnswerApplied
  <1>3. /\ replies' \in Seq(Reply) /\ Len(replies') <= MaxReplies
        /\ Head(replies) = replies[1] /\ 1 \in DOMAIN replies
        /\ \A n \in DOMAIN replies' :
              n + 1 \in DOMAIN replies /\ n \in Nat /\ n + 1 # 1 /\ replies'[n] = replies[n + 1]
    BY <1>1, <1>2, TailReplies, RepliesAssumption
  <1>4. /\ \A n \in Owned(replies') : n + 1 \in Owned(replies) /\ replies'[n] = replies[n + 1]
        /\ \A i, j \in Owned(replies') : i + 1 = j + 1 => i = j
        /\ Head(replies).own => 1 \in Owned(replies)
        /\ \A n \in Owned(replies') : n + 1 # 1
    BY <1>3 DEF Owned
  <1>5. /\ \A i, j \in Owned(replies') : i = j
        /\ Head(replies).own => Owned(replies') = {}
        /\ Owned(replies') # {} => Owned(replies) # {}
    BY <1>1, <1>4 DEF NegotiationInv
  <1>6. ConnectionInv'
    BY <1>1, <1>2 DEF ConnectionInv
  <1>7. CASE Active(media) /\ media.rtc.remote = "none"
    <2> DEFINE side == IF Head(replies).own THEN "own" ELSE "past"
    <2>1. media' = [media EXCEPT !.rtc.remote = side]
      BY <1>7, Zenon DEF AnswerApplied
    <2>2. PICK a \in Attempt : a = media.rtc
      BY <1>1, <1>7, MediaFields DEF Active
    <2>3. side \in {"own", "past"} /\ (side = "own" <=> Head(replies).own)
      OBVIOUS
    <2> HIDE DEF side
    <2>4. PICK b \in Attempt : b = [a EXCEPT !.remote = side]
      BY <2>3 DEF Attempt
    <2>5. b.step = a.step /\ b.remote = side /\ b.input = a.input /\ b.unseen = a.unseen
      BY <2>4 DEF Attempt
    <2>6. media' = [media EXCEPT !.rtc = b]
      BY <2>1, <2>2, <2>4, Zenon
    <2>7. /\ media' \in Media /\ media'.rtc = b /\ media'.asking = media.asking
          /\ media'.start = media.start /\ media'.mic = media.mic /\ media'.error = media.error
          /\ media'.selected = media.selected /\ media'.committed = media.committed
          /\ media'.change = media.change /\ media'.test = media.test
      BY <1>1, <2>6 DEF Media
    <2>8. /\ b # None /\ a # None /\ media.rtc = a /\ Active(media')
          /\ (Sent(media') <=> Sent(media)) /\ media'.rtc.remote = side
      BY <1>7, <2>2, <2>5, <2>7, NoneDiffers DEF Active, Sent
    <2>9. MediaInv(media')
      BY <1>1, <1>7, <2>5, <2>7, <2>8
         DEF MediaInv, MicrophoneInv, DeviceInv, AttemptInv, AskedBy, Active
    <2>10. SessionInv(media', session, settings)
      BY <1>1, <2>7, <2>8 DEF SessionInv, AskedBy
    <2>11. NegotiationInv(media', offer, replies')
      <3>1. Head(replies).own => offer # None /\ offer.own /\ offer.answered
        BY <1>1, <1>2, <1>3, <1>4 DEF NegotiationInv
      <3>2. Owned(replies') # {} => side # "own"
        BY <1>5, <2>3
      <3>3. offer # None /\ offer.own /\ ~offer.answered => Owned(replies') = {}
        BY <1>1, <1>5 DEF NegotiationInv
      <3>4. \A n \in Owned(replies') : replies'[n].kind = "answer" =>
                offer # None /\ offer.own /\ offer.answered
        BY <1>1, <1>4 DEF NegotiationInv
      <3> QED BY <1>1, <1>5, <2>3, <2>8, <3>1, <3>2, <3>3, <3>4 DEF NegotiationInv
    <2>12. Typed'
      BY <1>1, <1>2, <1>3, <2>7 DEF Typed
    <2> QED BY <1>2, <1>6, <2>9, <2>10, <2>11, <2>12 DEF IInv
  <1>8. CASE ~(Active(media) /\ media.rtc.remote = "none")
    <2>1. ~Active(media) /\ media' = media
      BY <1>8 DEF AnswerApplied
    <2>2. NegotiationInv(media, offer, replies')
      BY <1>1, <1>5, <2>1 DEF NegotiationInv, Sent
    <2>3. Typed'
      BY <1>1, <1>2, <1>3, <2>1 DEF Typed
    <2> QED BY <1>1, <1>2, <1>6, <2>1, <2>2, <2>3 DEF IInv
  <1> QED BY <1>7, <1>8

LEMMA FailureStep ==
    ASSUME IInv, RtcFails \/ AnswerRejected \/ ErrorReceived
    PROVE  IInv'
  <1>1. /\ replies \in Seq(Reply) /\ Len(replies) <= MaxReplies
        /\ MediaInv(media) /\ SessionInv(media, session, settings) /\ media \in Media
        /\ NegotiationInv(media, offer, replies) /\ Typed /\ ConnectionInv
    BY Parts DEF Typed, MediaInv
  <1>2. CASE RtcFails
    BY <1>1, <1>2, FailStep DEF RtcFails, Active
  <1>3. ASSUME replies # <<>>
        PROVE  Tail(replies) \in Seq(Reply) /\ Len(Tail(replies)) <= MaxReplies
    BY <1>1, <1>3, TailReplies, RepliesAssumption
  <1>4. CASE AnswerRejected
    BY <1>3, <1>4, FailStep DEF AnswerRejected, Active
  <1>5. CASE ErrorReceived /\ media.rtc # None
    BY <1>3, <1>5, FailStep DEF ErrorReceived
  <1>6. CASE ErrorReceived /\ media.rtc = None
    <2>1. /\ replies # <<>> /\ replies' = Tail(replies)
          /\ UNCHANGED <<session, requests, sockets, server, media, offer, settings>>
      BY <1>6 DEF ErrorReceived
    <2>2. offer = None /\ Owned(replies) = {} /\ ~Active(media)
      BY <1>1, <1>6 DEF NegotiationInv, Sent, Active
    <2>3. Owned(replies') = {}
      BY <1>1, <2>1, <2>2, TailReplies DEF Owned
    <2>4. NegotiationInv(media, offer, replies')
      BY <2>2, <2>3, NothingNegotiated
    <2>5. Typed' /\ ConnectionInv'
      BY <1>1, <1>3, <2>1 DEF Typed, ConnectionInv
    <2> QED BY <1>1, <2>1, <2>4, <2>5 DEF IInv
  <1> QED BY <1>2, <1>4, <1>5, <1>6

-----------------------------------------------------------------------------
(* The settings panel, the microphone test and the choice of a device. *)

\* A panel or a test asks for the microphone when there is none: it takes over
\* from whoever asked before.
LEMMA AskedInv ==
    ASSUME NEW m \in Media, NEW r \in Media, NEW caller \in {"settings", "test"},
           MicrophoneInv(m), DeviceInv(m), AttemptInv(m), m.mic = None,
           r = StartMicrophone(m, caller)
    PROVE  /\ MicrophoneInv(r) /\ DeviceInv(r) /\ AttemptInv(r)
           /\ r.rtc = m.rtc /\ r.mic = None /\ AskedBy(r, caller)
           /\ m.start = "none" => r.start = "none"
           /\ r.error = m.error
  <1>1. caller \in Callers
    BY DEF Callers
  <1>2. /\ r.asking \in Asking /\ r.asking.by = caller /\ r.asking.device = m.selected
        /\ r.start = (IF m.start = "none" THEN "none" ELSE "overtaken")
        /\ r.change = (IF m.change \in {"microphone", "restart"} THEN "none" ELSE m.change)
        /\ r.test = (IF m.test = "preparing" THEN "overtaken" ELSE m.test)
        /\ r.rtc = m.rtc /\ r.mic = m.mic /\ r.error = m.error
        /\ r.selected = m.selected /\ r.committed = m.committed
    BY <1>1, StartMicrophoneFields
  <1>3. r.asking # None
    BY <1>2, NoneDiffers
  <1>4. ~Active(m) /\ ~Active(r)
    BY <1>2 DEF AttemptInv, Active
  <1>5. MicrophoneInv(r)
    BY <1>2, <1>3 DEF MicrophoneInv, AskedBy
  <1>6. DeviceInv(r)
    BY <1>2 DEF DeviceInv
  <1>7. AttemptInv(r)
    BY <1>2, <1>3, <1>4 DEF AttemptInv, AskedBy
  <1> QED BY <1>2, <1>3, <1>5, <1>6, <1>7 DEF AskedBy

LEMMA OpenSettingsStep ==
    ASSUME IInv, OpenSettings
    PROVE  IInv'
  <1>1. /\ MediaInv(media) /\ SessionInv(media, session, settings) /\ media \in Media
        /\ MicrophoneInv(media) /\ DeviceInv(media) /\ AttemptInv(media)
        /\ NegotiationInv(media, offer, replies) /\ Typed /\ ConnectionInv
    BY Parts DEF MediaInv
  <1>2. settings' /\ UNCHANGED <<session, requests, sockets, server, offer, replies>>
    BY DEF OpenSettings
  <1>3. /\ MediaInv(media') /\ SessionInv(media', session, TRUE)
        /\ NegotiationInv(media', offer, replies)
    <2>1. CASE media.mic # None
      <3>1. media' = media
        BY <2>1 DEF OpenSettings
      <3> QED BY <1>1, <3>1 DEF SessionInv
    <2>2. CASE media.mic = None
      <3>1. media' = StartMicrophone(media, "settings")
        BY <2>2 DEF OpenSettings
      <3>2. media' \in Media
        BY <1>1, <3>1, StartMicrophoneFields DEF Callers
      <3>3. /\ MicrophoneInv(media') /\ DeviceInv(media') /\ AttemptInv(media')
            /\ media'.rtc = media.rtc /\ media'.mic = None /\ AskedBy(media', "settings")
            /\ media.start = "none" => media'.start = "none"
        BY <1>1, <2>2, <3>1, <3>2, AskedInv
      <3>4. SessionInv(media', session, TRUE)
        BY <1>1, <3>3 DEF SessionInv, AskedBy
      <3>5. ~Active(media) /\ ~Active(media')
        BY <1>1, <2>2, <3>3 DEF AttemptInv, Active
      <3>6. NegotiationInv(media', offer, replies)
        BY <1>1, <3>5, NegotiationKept
      <3> QED BY <3>2, <3>3, <3>4, <3>6 DEF MediaInv
    <2> QED BY <2>1, <2>2
  <1>4. Typed' /\ ConnectionInv'
    BY <1>1, <1>2, <1>3 DEF Typed, ConnectionInv, MediaInv
  <1>5. settings' = TRUE
    BY DEF OpenSettings
  <1> QED BY <1>2, <1>3, <1>4, <1>5 DEF IInv

\* A test that ends releases a microphone no session needs.
LEMMA TestOverInv ==
    ASSUME IInv, NEW r \in Media, NEW open \in {settings, FALSE},
           r.test = "none", r.error = media.error,
           r.selected = media.selected, r.committed = media.committed,
           \/ /\ session = "connected" \/ (media.test = "none" /\ open = settings)
              /\ r.rtc = media.rtc /\ r.start = media.start /\ r.asking = media.asking
              /\ r.mic = media.mic /\ r.change = media.change
           \/ /\ session # "connected"
              /\ r.start = "none" /\ r.asking = None /\ r.mic = None
              /\ r.change = (IF media.change \in {"microphone", "restart"} THEN "none" ELSE media.change)
              /\ media.rtc = None => r.rtc = None
    PROVE  MediaInv(r) /\ SessionInv(r, session, open) /\ NegotiationInv(r, offer, replies)
  <1>1. /\ SessionInv(media, session, settings)
        /\ MicrophoneInv(media) /\ DeviceInv(media) /\ AttemptInv(media)
        /\ NegotiationInv(media, offer, replies)
    BY Parts
  <1>2. CASE /\ session = "connected" \/ (media.test = "none" /\ open = settings)
             /\ r.rtc = media.rtc /\ r.start = media.start /\ r.asking = media.asking
             /\ r.mic = media.mic /\ r.change = media.change
    <2>1. MediaInv(r)
      BY <1>1, <1>2 DEF MediaInv, MicrophoneInv, DeviceInv, AttemptInv, AskedBy, Active
    <2>2. SessionInv(r, session, open)
      BY <1>1, <1>2 DEF SessionInv, AskedBy
    <2>3. NegotiationInv(r, offer, replies)
      BY <1>1, <1>2, NegotiationKept DEF Active
    <2> QED BY <2>1, <2>2, <2>3
  <1>3. CASE /\ session # "connected"
             /\ r.start = "none" /\ r.asking = None /\ r.mic = None
             /\ r.change = (IF media.change \in {"microphone", "restart"} THEN "none" ELSE media.change)
             /\ media.rtc = None => r.rtc = None
    <2>1. media.rtc = None /\ r.rtc = None
      BY <1>1, <1>3 DEF SessionInv
    <2>2. ~Active(media) /\ ~Active(r)
      BY <2>1 DEF Active
    <2>3. r.change \notin {"microphone", "restart"}
      BY <1>3
    <2>4. MediaInv(r)
      BY <1>3, <2>1, <2>2, <2>3 DEF MediaInv, MicrophoneInv, DeviceInv, AttemptInv, AskedBy
    <2>5. SessionInv(r, session, open)
      BY <1>3, <2>1 DEF SessionInv, AskedBy
    <2>6. NegotiationInv(r, offer, replies)
      BY <1>1, <2>2, NegotiationKept
    <2> QED BY <2>4, <2>5, <2>6
  <1> QED BY <1>2, <1>3

LEMMA CloseSettingsStep ==
    ASSUME IInv, CloseSettings
    PROVE  IInv'
  <1>1. PICK m \in Media : m = [media EXCEPT !.test = "none"]
    BY Parts DEF Media
  <1>2. /\ m.test = "none" /\ m.mic = media.mic /\ m.rtc = media.rtc
        /\ m.asking = media.asking /\ m.error = media.error /\ m.change = media.change
        /\ m.start = media.start /\ m.selected = media.selected /\ m.committed = media.committed
    BY <1>1, Parts DEF Media
  <1>3. /\ media' = IF session = "connected" THEN m ELSE StopMicrophone(m)
        /\ settings' = FALSE
        /\ UNCHANGED <<session, requests, sockets, server, offer, replies>>
    BY <1>1, Zenon DEF CloseSettings
  <1>4. /\ MediaInv(media') /\ SessionInv(media', session, FALSE)
        /\ NegotiationInv(media', offer, replies)
    <2>1. CASE session = "connected"
      <3>1. media' = m
        BY <1>3, <2>1
      <3> QED BY <1>1, <1>2, <2>1, <3>1, TestOverInv
    <2>2. CASE session # "connected"
      <3>1. media' = StopMicrophone(m)
        BY <1>3, <2>2
      <3>2. /\ media' \in Media /\ media'.asking = None /\ media'.mic = None
            /\ media'.start = "none" /\ media'.test = "none" /\ media'.error = m.error
            /\ media'.change = (IF m.change \in {"microphone", "restart"} THEN "none" ELSE m.change)
            /\ m.rtc = None => media'.rtc = None
            /\ media'.selected = m.selected /\ media'.committed = m.committed
        BY <1>1, <1>2, <3>1, StopMicrophoneFields
      <3> QED BY <1>2, <2>2, <3>2, TestOverInv
    <2> QED BY <2>1, <2>2
  <1>5. Typed' /\ ConnectionInv'
    BY <1>3, <1>4, Parts DEF Typed, ConnectionInv, MediaInv
  <1> QED BY <1>3, <1>4, <1>5 DEF IInv

LEMMA TestEndsStep ==
    ASSUME IInv, TestEnds
    PROVE  IInv'
  <1>1. /\ media' = EndTest(media, session = "connected") /\ media.test # "none"
        /\ (session = "connected") \in BOOLEAN
        /\ UNCHANGED <<session, requests, sockets, server, offer, replies, settings>>
    BY DEF TestEnds
  <1>2. /\ media' \in Media /\ media'.test = "none" /\ media'.error = media.error
        /\ media'.selected = media.selected /\ media'.committed = media.committed
        /\ session = "connected" =>
              /\ media'.rtc = media.rtc /\ media'.start = media.start
              /\ media'.asking = media.asking
              /\ media'.mic = media.mic /\ media'.change = media.change
        /\ session # "connected" =>
              /\ media'.start = "none" /\ media'.asking = None /\ media'.mic = None
              /\ media'.change = (IF media.change \in {"microphone", "restart"} THEN "none"
                                  ELSE media.change)
              /\ media.rtc = None => media'.rtc = None
    BY <1>1, Parts, EndTestFields
  <1>3. MediaInv(media') /\ SessionInv(media', session, settings)
        /\ NegotiationInv(media', offer, replies)
    BY <1>2, TestOverInv
  <1> QED BY <1>1, <1>3, AudioStep

\* A test under way changes nothing but itself.
LEMMA TestStep ==
    ASSUME IInv, StartTest \/ TestRecords
    PROVE  IInv'
  <1>1. /\ SessionInv(media, session, settings) /\ media \in Media
        /\ MicrophoneInv(media) /\ DeviceInv(media) /\ AttemptInv(media)
        /\ NegotiationInv(media, offer, replies)
    BY Parts
  <1>2. PICK m \in Media :
            /\ MicrophoneInv(m) /\ DeviceInv(m) /\ AttemptInv(m) /\ SessionInv(m, session, settings)
            /\ m.rtc = media.rtc /\ m.mic = media.mic
            /\ \/ StartTest /\ media' = [m EXCEPT !.test = "preparing"]
                  /\ (m.mic = None => AskedBy(m, "test")) /\ settings
               \/ TestRecords /\ media' = [m EXCEPT !.test = "recording"] /\ m = media
    <2>1. CASE TestRecords
      BY <1>1, <2>1 DEF TestRecords
    <2>2. CASE StartTest
      <3> DEFINE n == IF media.mic = None THEN StartMicrophone(media, "test") ELSE media
      <3>1. media' = [n EXCEPT !.test = "preparing"]
        BY <2>2, Zenon DEF StartTest
      <3>2. /\ n \in Media /\ MicrophoneInv(n) /\ DeviceInv(n) /\ AttemptInv(n)
            /\ n.rtc = media.rtc /\ n.mic = media.mic /\ n.error = media.error
            /\ n.mic = None => AskedBy(n, "test")
            /\ media.start = "none" => n.start = "none"
            /\ n # media => AskedBy(n, "test")
        <4>1. CASE media.mic = None
          <5>1. PICK k \in Media : k = StartMicrophone(media, "test")
            BY <1>1, StartMicrophoneFields DEF Callers
          <5>2. /\ MicrophoneInv(k) /\ DeviceInv(k) /\ AttemptInv(k)
                /\ k.rtc = media.rtc /\ k.mic = None /\ AskedBy(k, "test")
                /\ media.start = "none" => k.start = "none"
                /\ k.error = media.error
            BY <1>1, <4>1, <5>1, AskedInv
          <5>3. n = k
            BY <4>1, <5>1
          <5> HIDE DEF n
          <5> QED BY <4>1, <5>1, <5>2, <5>3
        <4>2. CASE media.mic # None
          <5>1. n = media
            BY <4>2
          <5> HIDE DEF n
          <5> QED BY <1>1, <4>2, <5>1
        <4> QED BY <4>1, <4>2
      <3>3. settings
        BY <2>2 DEF StartTest
      <3> HIDE DEF n
      <3>4. SessionInv(n, session, settings)
        BY <1>1, <3>2, <3>3 DEF SessionInv, AskedBy
      <3> QED BY <2>2, <3>1, <3>2, <3>3, <3>4
    <2> QED BY <2>1, <2>2
  <1>3. PICK to \in {"preparing", "recording"} :
            /\ media' = [m EXCEPT !.test = to]
            /\ to = "preparing" => (m.mic = None => AskedBy(m, "test")) /\ settings
            /\ to = "recording" => settings \/ session = "connected"
    <2>1. TestRecords => settings \/ session = "connected"
      BY <1>1 DEF TestRecords, SessionInv
    <2> QED BY <1>2, <2>1
  <1>4. /\ media' \in Media /\ media'.test = to /\ media'.rtc = m.rtc /\ media'.asking = m.asking
        /\ media'.start = m.start /\ media'.mic = m.mic /\ media'.error = m.error
        /\ media'.selected = m.selected /\ media'.committed = m.committed
        /\ media'.change = m.change
    BY <1>2, <1>3 DEF Media
  <1>5. MediaInv(media')
    BY <1>2, <1>3, <1>4 DEF MediaInv, MicrophoneInv, DeviceInv, AttemptInv, AskedBy, Active
  <1>6. SessionInv(media', session, settings)
    BY <1>2, <1>3, <1>4 DEF SessionInv, AskedBy
  <1>7. NegotiationInv(media', offer, replies)
    BY <1>1, <1>2, <1>4, NegotiationKept DEF Active
  <1>8. UNCHANGED <<session, requests, sockets, server, offer, replies, settings>>
    BY DEF StartTest, TestRecords
  <1> QED BY <1>5, <1>6, <1>7, <1>8, AudioStep

\* Chosen without a microphone: a request under way is told whether it still asks
\* for the chosen device.
LEMMA RetargetFields ==
    \A a \in Asking, late \in BOOLEAN :
        /\ [a EXCEPT !.overtaken = late] \in Asking
        /\ [a EXCEPT !.overtaken = late].overtaken = late
        /\ [a EXCEPT !.overtaken = late].by = a.by
        /\ [a EXCEPT !.overtaken = late].device = a.device
  BY DEF Asking

LEMMA SetInputDeviceStep ==
    ASSUME IInv, NEW device \in Devices, SetInputDevice(device)
    PROVE  IInv'
  <1>1. /\ SessionInv(media, session, settings) /\ media \in Media
        /\ MicrophoneInv(media) /\ DeviceInv(media) /\ AttemptInv(media)
        /\ NegotiationInv(media, offer, replies)
    BY Parts
  <1>2. PICK m \in Media : m = [media EXCEPT !.selected = device]
    BY <1>1 DEF Media
  <1>3. /\ m.selected = device /\ m.test = media.test /\ m.mic = media.mic /\ m.rtc = media.rtc
        /\ m.asking = media.asking /\ m.error = media.error /\ m.change = media.change
        /\ m.start = media.start /\ m.committed = media.committed
    BY <1>1, <1>2 DEF Media
  <1>4. UNCHANGED <<session, requests, sockets, server, offer, replies, settings>>
    BY DEF SetInputDevice
  <1> DEFINE to == IF Active(media) THEN "restart" ELSE "microphone"
             told == IF m.asking = None THEN None
                     ELSE [m.asking EXCEPT !.overtaken = (media.asking.device # device)]
  <1>5. media' = IF m.mic # None
                 THEN [StartMicrophone(m, "change") EXCEPT !.change = to]
                 ELSE [m EXCEPT !.change = "list", !.asking = told]
    BY <1>2, Zenon DEF SetInputDevice
  <1>6. CASE m.mic # None
    <2>1. "change" \in Callers
      BY DEF Callers
    <2>2. PICK n \in Media : n = StartMicrophone(m, "change")
      BY <2>1, StartMicrophoneFields
    <2>3. /\ n.asking \in Asking /\ n.asking.by = "change" /\ n.asking.device = device
          /\ n.start = (IF m.start = "none" THEN "none" ELSE "overtaken")
          /\ n.test = (IF m.test = "preparing" THEN "overtaken" ELSE m.test)
          /\ n.rtc = m.rtc /\ n.mic = m.mic /\ n.error = m.error
          /\ n.selected = m.selected /\ n.committed = m.committed
      BY <1>3, <2>1, <2>2, StartMicrophoneFields
    <2>4. to \in {"restart", "microphone"} /\ (to = "restart" <=> Active(media))
      OBVIOUS
    <2>5. media' = [n EXCEPT !.change = to]
      BY <1>5, <1>6, <2>2, Zenon
    <2> HIDE DEF to
    <2>6. /\ media' \in Media /\ media'.change = to /\ media'.asking = n.asking
          /\ media'.start = n.start /\ media'.test = n.test /\ media'.rtc = n.rtc
          /\ media'.mic = n.mic /\ media'.error = n.error
          /\ media'.selected = n.selected /\ media'.committed = n.committed
      BY <2>4, <2>5 DEF Media
    <2>7. media'.asking # None /\ (Active(media') <=> Active(media))
      BY <1>3, <2>3, <2>6, NoneDiffers DEF Active
    <2>8. MicrophoneInv(media')
      BY <1>6, <2>3, <2>4, <2>6, <2>7 DEF MicrophoneInv, AskedBy, Takeover
    <2>9. DeviceInv(media')
      BY <1>1, <1>3, <1>6, <2>3, <2>4, <2>6, <2>7 DEF DeviceInv, Takeover
    <2>10. AttemptInv(media')
      BY <1>1, <1>3, <1>6, <2>3, <2>4, <2>6, <2>7 DEF AttemptInv, AskedBy
    <2>11. SessionInv(media', session, settings)
      BY <1>1, <1>3, <1>6, <2>3, <2>6, <2>7 DEF SessionInv, AskedBy
    <2>12. NegotiationInv(media', offer, replies)
      BY <1>1, <1>3, <2>3, <2>6, <2>7, NegotiationKept
    <2>13. MediaInv(media')
      BY <2>6, <2>8, <2>9, <2>10 DEF MediaInv
    <2> QED BY <1>4, <2>11, <2>12, <2>13, AudioStep
  <1>7. CASE m.mic = None
    <2>1. /\ told \in Asking \cup {None} /\ (told = None <=> media.asking = None)
          /\ told # None => /\ told.by = media.asking.by
                            /\ told.overtaken \/ told.device = device
      <3>1. CASE m.asking = None
        <4>1. told = None
          BY <3>1
        <4> HIDE DEF told
        <4> QED BY <1>3, <3>1, <4>1
      <3>2. CASE m.asking # None
        <4> DEFINE late == media.asking.device # device
        <4>1. m.asking \in Asking /\ late \in BOOLEAN /\ (late \/ media.asking.device = device)
          BY <3>2, MediaFields
        <4>2. told = [m.asking EXCEPT !.overtaken = late]
          BY <3>2, Zenon
        <4> HIDE DEF told, late
        <4>3. /\ told \in Asking /\ told.overtaken = late
              /\ told.by = m.asking.by /\ told.device = m.asking.device
          BY <4>1, <4>2, RetargetFields, Zenon
        <4> QED BY <1>3, <3>2, <4>1, <4>3, NoneDiffers
      <3> QED BY <3>1, <3>2
    <2>2. media' = [m EXCEPT !.change = "list", !.asking = told]
      BY <1>5, <1>7
    <2> HIDE DEF told
    <2>3. /\ media' \in Media /\ media'.change = "list" /\ media'.asking = told
          /\ media'.start = m.start /\ media'.test = m.test /\ media'.rtc = m.rtc
          /\ media'.mic = None /\ media'.error = m.error
          /\ media'.selected = device /\ media'.committed = m.committed
      BY <1>3, <1>7, <2>1, <2>2 DEF Media
    <2>4. ~Active(media) /\ ~Active(media')
      BY <1>1, <1>3, <1>7, <2>3 DEF AttemptInv, Active
    <2>5. \A caller : AskedBy(media', caller) <=> AskedBy(media, caller)
      BY <2>1, <2>3 DEF AskedBy
    <2>6. ~AskedBy(media, "change")
      BY <1>1, <1>3, <1>7 DEF MicrophoneInv
    <2>7. MediaInv(media')
      BY <1>1, <1>3, <1>7, <2>1, <2>3, <2>4, <2>5, <2>6
         DEF MediaInv, MicrophoneInv, DeviceInv, AttemptInv
    <2>8. SessionInv(media', session, settings)
      BY <1>1, <1>3, <1>7, <2>1, <2>3, <2>5 DEF SessionInv
    <2>9. NegotiationInv(media', offer, replies)
      BY <1>1, <2>4, NegotiationKept
    <2> QED BY <1>4, <2>7, <2>8, <2>9, AudioStep
  <1> QED BY <1>6, <1>7

LEMMA ChangeListedStep ==
    ASSUME IInv, ChangeListed
    PROVE  IInv'
  <1>1. /\ SessionInv(media, session, settings) /\ media \in Media
        /\ MicrophoneInv(media) /\ DeviceInv(media) /\ AttemptInv(media)
        /\ NegotiationInv(media, offer, replies)
    BY Parts
  <1>2. /\ media.change = "list"
        /\ media' = [media EXCEPT !.change = "none", !.committed = media.selected]
        /\ UNCHANGED <<session, requests, sockets, server, offer, replies, settings>>
    BY DEF ChangeListed
  <1>3. /\ media' \in Media /\ media'.change = "none" /\ media'.committed = media.selected
        /\ media'.asking = media.asking /\ media'.start = media.start
        /\ media'.test = media.test /\ media'.rtc = media.rtc
        /\ media'.mic = media.mic /\ media'.error = media.error
        /\ media'.selected = media.selected
    BY <1>1, <1>2 DEF Media
  <1>4. MediaInv(media')
    BY <1>1, <1>2, <1>3 DEF MediaInv, MicrophoneInv, DeviceInv, AttemptInv, AskedBy, Active
  <1>5. SessionInv(media', session, settings)
    BY <1>1, <1>3 DEF SessionInv, AskedBy
  <1>6. NegotiationInv(media', offer, replies)
    BY <1>1, <1>3, NegotiationKept DEF Active
  <1> QED BY <1>2, <1>4, <1>5, <1>6, AudioStep

-----------------------------------------------------------------------------
(* The invariant. *)

LEMMA InitIInv ==
    ASSUME Init
    PROVE  IInv
  <1>1. PICK device \in Devices : media = Silent(device)
    BY DEF Init
  <1>2. /\ media \in Media /\ media.rtc = None /\ media.start = "none" /\ media.asking = None
        /\ media.mic = None /\ media.change = "none" /\ media.test = "none"
    BY <1>1 DEF Silent, Media
  <1>3. MediaInv(media) /\ ~Active(media) /\ SessionInv(media, "idle", FALSE)
    BY <1>2, SilentInv
  <1>4. NegotiationInv(media, None, <<>>)
    BY <1>3, EmptyOwned, NothingNegotiated
  <1>5. Typed
    <2>1. replies \in Seq(Reply) /\ Len(replies) <= MaxReplies
      BY EmptyOwned, RepliesAssumption DEF Init
    <2>2. /\ session \in Sessions /\ requests \subseteq Owners /\ sockets \subseteq Owners
          /\ settings \in BOOLEAN /\ server = "none" /\ offer = None
      BY DEF Init, Sessions
    <2> QED BY <1>2, <2>1, <2>2 DEF Typed
  <1>6. ConnectionInv
    BY DEF Init, ConnectionInv
  <1> QED BY <1>3, <1>4, <1>5, <1>6 DEF Init, IInv

LEMMA NextIInv ==
    ASSUME IInv, [Next]_vars
    PROVE  IInv'
  <1>1. CASE Connect
    BY <1>1, ConnectStep
  <1>2. CASE Disconnect \/ Closed
    BY <1>2, HangupStep
  <1>3. CASE \/ TicketTimeout
             \/ \E owner \in Owners : TicketIssued(owner) \/ TicketFailed(owner)
    BY <1>3, TicketStep
  <1>4. CASE \E rtc \in BOOLEAN : Joined(rtc)
    BY <1>4, JoinedStep
  <1>5. CASE Dropped \/ Ended
    BY <1>5, LostStep
  <1>6. CASE Granted
    BY <1>6, GrantedStep
  <1>7. CASE Refused
    BY <1>7, RefusedStep
  <1>8. CASE Commit
    BY <1>8, CommitStep
  <1>9. CASE Listed
    BY <1>9, ListedStep
  <1>10. CASE Overtaken
    BY <1>10, OvertakenStep
  <1>11. CASE Offered
    BY <1>11, OfferedStep
  <1>12. CASE RtcFails \/ AnswerRejected \/ ErrorReceived
    BY <1>12, FailureStep
  <1>13. CASE GatewayAnswers \/ GatewayRefuses
    BY <1>13, GatewayStep
  <1>14. CASE AnswerApplied
    BY <1>14, AnswerAppliedStep
  <1>15. CASE OpenSettings
    BY <1>15, OpenSettingsStep
  <1>16. CASE CloseSettings
    BY <1>16, CloseSettingsStep
  <1>17. CASE StartTest \/ TestRecords
    BY <1>17, TestStep
  <1>18. CASE TestEnds
    BY <1>18, TestEndsStep
  <1>19. CASE \E device \in Devices : SetInputDevice(device)
    BY <1>19, SetInputDeviceStep
  <1>20. CASE ChangeListed
    BY <1>20, ChangeListedStep
  <1>22. CASE LateGranted \/ LateEnds
    BY <1>22, LateStep
  <1>21. CASE UNCHANGED vars
    BY <1>21 DEF vars, IInv, Typed, ConnectionInv
  <1> QED BY <1>1, <1>2, <1>3, <1>4, <1>5, <1>6, <1>7, <1>8, <1>9, <1>10, <1>11, <1>12,
             <1>13, <1>14, <1>15, <1>16, <1>17, <1>18, <1>19, <1>20, <1>21, <1>22 DEF Next

(* The inductive invariant holds in every reachable state: connection, microphone,
   devices, attempt and negotiation agree as the parts of IInv say. *)
THEOREM Inductive == Spec => []IInv
  <1>1. Init => IInv
    BY InitIInv
  <1>2. IInv /\ [Next]_vars => IInv'
    BY NextIInv
  <1> QED BY <1>1, <1>2, PTL DEF Spec

-----------------------------------------------------------------------------
(* The streams of the browser's microphone. *)

\* A stream is open for the microphone, for the request under way, or until an
\* aborted request stops it.
StreamInv(m) ==
    /\ "kept" \in m.open => m.mic # None
    /\ "asked" \in m.open => m.asking # None /\ m.asking.granted
    /\ "late" \in m.open => m.late

LEMMA StartMicrophoneStreams ==
    ASSUME NEW m \in Media, NEW caller \in Callers, StreamInv(m)
    PROVE  StreamInv(StartMicrophone(m, caller))
  <1>1. PICK n \in Media : n = Overtake(m)
    BY OvertakeFields
  <1>2. n.open = m.open \ {"asked"} /\ (m.late => n.late) /\ n.mic = m.mic
    BY <1>1, OvertakeFields
  <1>3. PICK asked : StartMicrophone(m, caller) = [n EXCEPT !.asking = asked]
    BY <1>1 DEF StartMicrophone
  <1>4. LET r == [n EXCEPT !.asking = asked]
        IN  r.open = n.open /\ r.late = n.late /\ r.mic = n.mic
    BY DEF Media
  <1> QED BY <1>2, <1>3, <1>4 DEF StreamInv

LEMMA StopMicrophoneStreams ==
    ASSUME NEW m \in Media, StreamInv(m)
    PROVE  StreamInv(StopMicrophone(m))
  <1>1. PICK n \in Media : n = Overtake(m)
    BY OvertakeFields
  <1>2. n.open = m.open \ {"asked"} /\ (m.late => n.late)
    BY <1>1, OvertakeFields
  <1>3. PICK rtc : StopMicrophone(m) = [n EXCEPT !.start = "none", !.mic = None,
                                                 !.open = n.open \ {"kept"}, !.rtc = rtc]
    BY <1>1, Zenon DEF StopMicrophone
  <1>4. LET r == [n EXCEPT !.start = "none", !.mic = None, !.open = n.open \ {"kept"}, !.rtc = rtc]
        IN  r.open = n.open \ {"kept"} /\ r.late = n.late
    BY DEF Media
  <1> QED BY <1>2, <1>3, <1>4 DEF StreamInv

LEMMA EnsureMicrophoneStreams ==
    ASSUME NEW m \in Media, StreamInv(m)
    PROVE  StreamInv(EnsureMicrophone(m))
  <1>1. PICK n \in Media : n = StartMicrophone(m, "start")
    BY StartMicrophoneFields DEF Callers
  <1>2. StreamInv(n)
    BY <1>1, StartMicrophoneStreams DEF Callers
  <1>3. EnsureMicrophone(m) \in {m, [n EXCEPT !.start = "asking"]}
    BY <1>1, Zenon DEF EnsureMicrophone
  <1>4. LET r == [n EXCEPT !.start = "asking"]
        IN  r.open = n.open /\ r.late = n.late /\ r.mic = n.mic /\ r.asking = n.asking
    BY DEF Media
  <1> QED BY <1>2, <1>3, <1>4 DEF StreamInv

LEMMA EndTestStreams ==
    ASSUME NEW m \in Media, NEW connected, StreamInv(m)
    PROVE  StreamInv(EndTest(m, connected))
  <1>1. PICK n \in Media : n = [m EXCEPT !.test = "none"]
    BY DEF Media
  <1>2. n.open = m.open /\ n.late = m.late /\ n.mic = m.mic /\ n.asking = m.asking
    BY <1>1 DEF Media
  <1>3. StreamInv(n)
    BY <1>2 DEF StreamInv
  <1>4. EndTest(m, connected) \in {n, StopMicrophone(n)}
    BY <1>1, Zenon DEF EndTest
  <1> QED BY <1>3, <1>4, StopMicrophoneStreams

LEMMA ReleaseStreams ==
    ASSUME NEW m \in Media, StreamInv(m)
    PROVE  StreamInv(Release(m)) /\ StreamInv([Release(m) EXCEPT !.error = "none"])
  <1>1. PICK n \in Media : n = [m EXCEPT !.rtc = None, !.selected = m.committed,
                                         !.change = "none", !.test = "none"]
    BY DEF Media
  <1>2. n.open = m.open /\ n.late = m.late /\ n.mic = m.mic /\ n.asking = m.asking
    BY <1>1 DEF Media
  <1>3. StreamInv(n)
    BY <1>2 DEF StreamInv
  <1>4. PICK r \in Media : r = StopMicrophone(n)
    BY StopMicrophoneFields
  <1>5. Release(m) = r
    BY <1>1, <1>4, Zenon DEF Release
  <1>6. StreamInv(r)
    BY <1>3, <1>4, StopMicrophoneStreams
  <1>7. LET s == [r EXCEPT !.error = "none"]
        IN  s.open = r.open /\ s.late = r.late /\ s.mic = r.mic /\ s.asking = r.asking
    BY DEF Media
  <1> QED BY <1>5, <1>6, <1>7 DEF StreamInv

LEMMA BeginOfferStreams ==
    ASSUME NEW m \in Media, m.mic # None, StreamInv(m)
    PROVE  StreamInv(BeginOffer(m))
  <1>1. PICK mic, rtc : BeginOffer(m) = [m EXCEPT !.mic = mic, !.rtc = rtc]
    BY Zenon DEF BeginOffer
  <1>2. LET r == [m EXCEPT !.mic = mic, !.rtc = rtc]
        IN  r.open = m.open /\ r.late = m.late /\ r.asking = m.asking
    BY DEF Media
  <1>3. BeginOffer(m).mic # None
    BY BeginOfferFields, NoneDiffers
  <1> QED BY <1>1, <1>2, <1>3 DEF StreamInv

LEMMA StartRtcStreams ==
    ASSUME NEW m \in Media, StreamInv(m)
    PROVE  StreamInv(StartRtc(m))
  <1> DEFINE waiting == [step |-> "microphone", remote |-> "none", input |-> FALSE, unseen |-> FALSE]
  <1>1. waiting \in Attempt
    BY DEF Attempt
  <1>2. PICK k \in Media : k = [m EXCEPT !.rtc = waiting]
    <2> HIDE DEF waiting
    <2> QED BY <1>1 DEF Media
  <1> HIDE DEF waiting
  <1>3. /\ k.open = m.open /\ k.late = m.late /\ k.mic = m.mic /\ k.asking = m.asking
        /\ k.start = m.start
    BY <1>2 DEF Media
  <1>4. StreamInv(k)
    BY <1>3 DEF StreamInv
  <1>5. PICK n \in Media : n = EnsureMicrophone(k)
    BY EnsureMicrophoneFields
  <1>6. StreamInv(n) /\ (n.start = "none" => n.mic # None)
    BY <1>4, <1>5, EnsureMicrophoneStreams, EnsureMicrophoneFields
  <1>7. StartRtc(m) = IF n.start = "none" THEN BeginOffer(n) ELSE n
    BY <1>2, <1>5, Zenon DEF StartRtc, waiting
  <1> QED BY <1>6, <1>7, BeginOfferStreams

\* A step that asks for nothing and stops nothing.
LEMMA UntouchedStreams ==
    ASSUME NEW m, NEW n, StreamInv(m), n.open = m.open, n.late = m.late,
           m.mic # None => n.mic # None, n.asking = m.asking
    PROVE  StreamInv(n)
  BY DEF StreamInv

LEMMA FailStreams ==
    ASSUME IInv, StreamInv(media), NEW waiting, Fail(waiting)
    PROVE  StreamInv(media')
  <1>1. PICK n \in Media : n = [media EXCEPT !.rtc = None]
    BY Parts DEF Media
  <1>2. n.open = media.open /\ n.late = media.late /\ n.mic = media.mic /\ n.asking = media.asking
    BY <1>1, Parts DEF Media
  <1>3. StreamInv(n)
    BY <1>2 DEF StreamInv
  <1> QED BY <1>1, <1>3, StartMicrophoneStreams DEF Fail, Callers

LEMMA RefusedStreams ==
    ASSUME IInv, StreamInv(media), Refused
    PROVE  StreamInv(media')
  <1>1. PICK a \in Asking : a = media.asking
    BY Parts, MediaFields DEF Refused
  <1>2. PICK m \in Media : m = [media EXCEPT !.asking = None, !.open = @ \ {"asked"},
                                             !.error = media.asking.by]
    <2>1. PICK open \in SUBSET Streams : open = media.open \ {"asked"}
      BY Parts, MediaFields
    <2>2. [media EXCEPT !.asking = None, !.open = open, !.error = media.asking.by] \in Media
      BY <1>1, <2>1, Parts DEF Media, Asking
    <2> QED BY <2>1, <2>2, Zenon
  <1>3. m.open = media.open \ {"asked"} /\ m.late = media.late /\ m.mic = media.mic
    BY <1>2, Parts DEF Media
  <1>4. StreamInv(m)
    BY <1>3 DEF StreamInv
  <1>5. PICK rtc : media' \in {[m EXCEPT !.start = "none", !.rtc = rtc],
                              [m EXCEPT !.change = "none", !.selected = m.committed],
                              EndTest(m, session = "connected"), m}
    <2> DEFINE left == [m EXCEPT !.start = "none",
                                 !.rtc = IF m.rtc = None THEN None ELSE [m.rtc EXCEPT !.step = "left"]]
               back == [m EXCEPT !.change = "none", !.selected = m.committed]
               done == EndTest(m, session = "connected")
    <2>1. media' = CASE m.start = "asking" -> left
                     [] m.change \in {"microphone", "restart"} -> back
                     [] a.by = "test" -> done
                     [] OTHER -> m
      BY <1>1, <1>2, Zenon DEF Refused
    <2>2. media' \in {left, back, done, m}
      <3> HIDE DEF left, back, done
      <3> QED BY <2>1
    <2> QED BY <2>2
  <1>6. LET r == [m EXCEPT !.start = "none", !.rtc = rtc]
        IN  r.open = m.open /\ r.late = m.late /\ r.mic = m.mic /\ r.asking = m.asking
    BY DEF Media
  <1>7. LET r == [m EXCEPT !.change = "none", !.selected = m.committed]
        IN  r.open = m.open /\ r.late = m.late /\ r.mic = m.mic /\ r.asking = m.asking
    BY DEF Media
  <1> QED BY <1>4, <1>5, <1>6, <1>7, UntouchedStreams, EndTestStreams

LEMMA CommitStreams ==
    ASSUME IInv, StreamInv(media), Commit
    PROVE  StreamInv(media')
  <1>0. PICK d \in Media : d = media
    BY Parts
  <1>1. PICK a \in Asking : a = d.asking
    BY <1>0, MediaFields DEF Commit
  <1> DEFINE mic == [device |-> d.asking.device, pcm |-> TRUE, overtaken |-> d.asking.overtaken]
             rtc == IF d.rtc = None THEN None ELSE [d.rtc EXCEPT !.input = FALSE]
             start == IF d.start = "asking" THEN "listing" ELSE d.start
             change == IF d.change = "list" THEN d.change ELSE "none"
             m == Committed(d, mic, rtc, start, change)
  <1>2. mic \in Microphone /\ mic # None
    BY <1>1, NoneDiffers DEF Asking, Microphone
  <1>3. rtc \in Attempt \cup {None}
    BY <1>0, UnfedFields, MediaFields, Zenon
  <1>4. media' \in {m, StartRtc(m)}
    BY <1>0, Zenon DEF Commit, Committed
  <1>5. start \in {"none", "listing", "overtaken"} /\ change \in {"none", "list"}
    BY <1>0, MediaFields
  <1> HIDE DEF mic, rtc, start, change
  <1>6. m \in Media /\ m.mic # None
    BY <1>0, <1>2, <1>3, <1>5, CommittedFields
  <1>7. m.open = {"kept"}
    BY <1>0 DEF Media, Committed
  <1> HIDE DEF m
  <1>8. StreamInv(m)
    BY <1>6, <1>7 DEF StreamInv
  <1> QED BY <1>4, <1>6, <1>8, StartRtcStreams

LEMMA SetInputDeviceStreams ==
    ASSUME IInv, StreamInv(media), NEW device \in Devices, SetInputDevice(device)
    PROVE  StreamInv(media')
  <1>1. PICK m \in Media : m = [media EXCEPT !.selected = device]
    BY Parts DEF Media
  <1>2. /\ m.open = media.open /\ m.late = media.late /\ m.mic = media.mic
        /\ m.asking = media.asking
    BY <1>1, Parts DEF Media
  <1>3. StreamInv(m)
    BY <1>2, UntouchedStreams
  <1> DEFINE to == IF Active(media) THEN "restart" ELSE "microphone"
             told == IF m.asking = None THEN None
                     ELSE [m.asking EXCEPT !.overtaken = (media.asking.device # device)]
  <1>4. media' = IF m.mic # None
                 THEN [StartMicrophone(m, "change") EXCEPT !.change = to]
                 ELSE [m EXCEPT !.change = "list", !.asking = told]
    BY <1>1, Zenon DEF SetInputDevice
  <1>5. m.asking # None => told # None /\ told.granted = m.asking.granted
    <2>1. \A a \in Asking, b \in BOOLEAN : /\ [a EXCEPT !.overtaken = b] \in Asking
                                           /\ [a EXCEPT !.overtaken = b].granted = a.granted
      BY DEF Asking
    <2>2. (media.asking.device # device) \in BOOLEAN
      OBVIOUS
    <2> QED BY <2>1, <2>2, MediaFields, NoneDiffers, Zenon
  <1> HIDE DEF to, told
  <1>6. CASE m.mic # None
    <2>1. PICK n \in Media : n = StartMicrophone(m, "change")
      BY StartMicrophoneFields DEF Callers
    <2>2. StreamInv(n)
      BY <1>3, <2>1, StartMicrophoneStreams DEF Callers
    <2>3. media' = [n EXCEPT !.change = to]
      BY <1>4, <1>6, <2>1, Zenon
    <2>4. media'.open = n.open /\ media'.late = n.late /\ media'.mic = n.mic /\ media'.asking = n.asking
      BY <2>3 DEF Media
    <2> QED BY <2>2, <2>4, UntouchedStreams
  <1>7. CASE m.mic = None
    <2>1. media' = [m EXCEPT !.change = "list", !.asking = told]
      BY <1>4, <1>7, Zenon
    <2>2. /\ media'.open = m.open /\ media'.late = m.late /\ media'.mic = m.mic
          /\ media'.asking = told
      BY <2>1 DEF Media
    <2> QED BY <1>3, <1>5, <2>2 DEF StreamInv
  <1> QED BY <1>6, <1>7

LEMMA NextStreams ==
    ASSUME IInv, StreamInv(media), [Next]_vars
    PROVE  StreamInv(media')
  <1>0. media \in Media /\ MicrophoneInv(media)
    BY Parts
  <1>1. CASE UNCHANGED media
    BY <1>1
  <1>2. CASE Connect \/ Disconnect \/ Closed \/ Dropped \/ Ended
    BY <1>0, <1>2, ReleaseStreams DEF Connect, Disconnect, Closed, Dropped, Ended
  <1>3. CASE \E rtc \in BOOLEAN : Joined(rtc)
    BY <1>0, <1>3, StartRtcStreams, EnsureMicrophoneStreams DEF Joined
  <1>4. CASE Granted
    <2>1. PICK b \in Asking : b = [media.asking EXCEPT !.granted = TRUE] /\ b.granted
      <3>1. \A a \in Asking : [a EXCEPT !.granted = TRUE] \in Asking /\ [a EXCEPT !.granted = TRUE].granted
        BY DEF Asking
      <3> QED BY <1>0, <1>4, <3>1, MediaFields DEF Granted
    <2>2. PICK open : open = media.open \cup {"asked"}
      OBVIOUS
    <2>3. media' = [media EXCEPT !.asking = b, !.open = open]
      BY <1>4, <2>1, <2>2, Zenon DEF Granted
    <2>4. media'.asking = b /\ media'.open = open /\ media'.mic = media.mic /\ media'.late = media.late
      BY <1>0, <2>3 DEF Media
    <2>5. media'.asking # None /\ media'.asking.granted
      BY <2>1, <2>4, NoneDiffers, Zenon
    <2>6. /\ "kept" \in media'.open => "kept" \in media.open
          /\ "late" \in media'.open => "late" \in media.open
      BY <2>2, <2>4
    <2> QED BY <2>4, <2>5, <2>6, Zenon DEF StreamInv
  <1>5. CASE LateGranted
    <2>1. media' = [media EXCEPT !.open = media.open \cup {"late"}] /\ media.late
      BY <1>5, Zenon DEF LateGranted
    <2>2. /\ media'.open = media.open \cup {"late"} /\ media'.late = media.late
          /\ media'.mic = media.mic /\ media'.asking = media.asking
      BY <1>0, <2>1 DEF Media
    <2> QED BY <2>1, <2>2 DEF StreamInv
  <1>6. CASE LateEnds
    <2>1. PICK late : media' = [media EXCEPT !.late = late, !.open = media.open \ {"late"}]
      BY <1>6, Zenon DEF LateEnds, LateReleased
    <2>2. /\ media'.open = media.open \ {"late"}
          /\ media'.mic = media.mic /\ media'.asking = media.asking
      BY <1>0, <2>1 DEF Media
    <2> QED BY <2>2 DEF StreamInv
  <1>7. CASE Refused
    BY <1>7, RefusedStreams
  <1>8. CASE Commit
    BY <1>8, CommitStreams
  <1>9. CASE Listed
    <2>1. PICK m \in Media : m = [media EXCEPT !.start = "none"]
      BY <1>0 DEF Media
    <2>2. /\ m.open = media.open /\ m.late = media.late /\ m.mic = media.mic
          /\ m.asking = media.asking /\ m.mic # None
      BY <1>0, <1>9, <2>1 DEF Media, Listed, MicrophoneInv
    <2>3. StreamInv(m)
      BY <2>2, UntouchedStreams
    <2>4. media' \in {BeginOffer(m), m}
      BY <1>9, <2>1, Zenon DEF Listed
    <2> QED BY <2>2, <2>3, <2>4, BeginOfferStreams
  <1>10. CASE Overtaken \/ Offered
    <2>1. /\ media'.open = media.open /\ media'.late = media.late
          /\ media'.mic = media.mic /\ media'.asking = media.asking
      BY <1>0, <1>10 DEF Overtaken, Offered, Media
    <2> QED BY <2>1, UntouchedStreams
  <1>11. CASE RtcFails \/ AnswerRejected
    BY <1>11, FailStreams DEF RtcFails, AnswerRejected
  <1>12. CASE ErrorReceived
    BY <1>12, FailStreams DEF ErrorReceived
  <1>13. CASE AnswerApplied
    <2>1. /\ media'.open = media.open /\ media'.late = media.late
          /\ media'.mic = media.mic /\ media'.asking = media.asking
      BY <1>0, <1>13 DEF AnswerApplied, Media
    <2> QED BY <2>1, UntouchedStreams
  <1>14. CASE OpenSettings
    BY <1>0, <1>14, StartMicrophoneStreams DEF OpenSettings, Callers
  <1>15. CASE CloseSettings
    <2>1. PICK m \in Media : m = [media EXCEPT !.test = "none"]
      BY <1>0 DEF Media
    <2>2. m.open = media.open /\ m.late = media.late /\ m.mic = media.mic /\ m.asking = media.asking
      BY <1>0, <2>1 DEF Media
    <2>3. StreamInv(m)
      BY <2>2, UntouchedStreams
    <2>4. media' \in {m, StopMicrophone(m)}
      BY <1>15, <2>1, Zenon DEF CloseSettings
    <2> QED BY <2>3, <2>4, StopMicrophoneStreams
  <1>16. CASE StartTest
    <2>1. PICK m \in Media : m \in {media, StartMicrophone(media, "test")}
                            /\ media' = [m EXCEPT !.test = "preparing"]
      BY <1>0, <1>16, StartMicrophoneFields, Zenon DEF StartTest, Callers
    <2>2. StreamInv(m)
      BY <1>0, <2>1, StartMicrophoneStreams DEF Callers
    <2>3. media'.open = m.open /\ media'.late = m.late /\ media'.mic = m.mic /\ media'.asking = m.asking
      BY <2>1 DEF Media
    <2> QED BY <2>2, <2>3, UntouchedStreams
  <1>17. CASE TestEnds
    BY <1>0, <1>17, EndTestStreams DEF TestEnds
  <1>18. CASE \E device \in Devices : SetInputDevice(device)
    BY <1>18, SetInputDeviceStreams
  <1>19. CASE ChangeListed \/ TestRecords
    <2>1. /\ media'.open = media.open /\ media'.late = media.late
          /\ media'.mic = media.mic /\ media'.asking = media.asking
      BY <1>0, <1>19 DEF ChangeListed, TestRecords, Media
    <2> QED BY <2>1, UntouchedStreams
  <1>20. CASE \/ TicketTimeout \/ GatewayAnswers \/ GatewayRefuses
              \/ \E owner \in Owners : TicketIssued(owner) \/ TicketFailed(owner)
    BY <1>20 DEF TicketTimeout, GatewayAnswers, GatewayRefuses, TicketIssued, TicketFailed
  <1> QED BY <1>1, <1>2, <1>3, <1>4, <1>5, <1>6, <1>7, <1>8, <1>9, <1>10, <1>11, <1>12, <1>13,
             <1>14, <1>15, <1>16, <1>17, <1>18, <1>19, <1>20 DEF Next, vars

(* However requests for the microphone were aborted, taken over or answered late, no
   stream stays open but that of the microphone, of the request under way, or of an
   aborted request that has still to stop it. *)
THEOREM StreamsOwned == Spec => []StreamInv(media)
  <1>1. Init => StreamInv(media)
    BY DEF Init, Silent, StreamInv
  <1>2. IInv /\ StreamInv(media) /\ [Next]_vars => StreamInv(media)'
    BY NextStreams
  <1> QED BY <1>1, <1>2, Inductive, PTL DEF Spec

-----------------------------------------------------------------------------
(* The invariants of the runs. *)

(* Every variable keeps its type; a shared promise and a microphone test wait for a
   microphone somebody asks for, and only an attempt with a microphone offers. *)
THEOREM TypeCorrect == Spec => []TypeOK
  <1>1. IInv => TypeOK
    BY DEF IInv, Typed, TypeOK, MediaInv, MicrophoneInv, AttemptInv, AskedBy
  <1> QED BY <1>1, Inductive, PTL

(* However a session ends, and whatever it was waiting for, no late answer of the
   browser, of the ticket service or of the gateway leaves the page a peer, a
   microphone, an open stream or a socket; a tab that says it connects has something under way. *)
THEOREM LeavesNothingBehind == Spec => []NothingLeftBehind
  <1>1. IInv /\ StreamInv(media) => NothingLeftBehind
    <2>1. SUFFICES ASSUME IInv, StreamInv(media) PROVE NothingLeftBehind
      OBVIOUS
    <2>2. /\ SessionInv(media, session, settings) /\ NegotiationInv(media, offer, replies)
          /\ ConnectionInv /\ Typed
      BY <2>1, Parts
    <2>3. session # "connected" => media.rtc = None /\ offer = None
      BY <2>2 DEF SessionInv, NegotiationInv, Active
    <2>4. session # "connected" /\ ~settings =>
              media.mic = None /\ media.asking = None /\ media.test = "none"
      BY <2>2 DEF SessionInv
    <2>5. session \in {"connecting", "connected", "reconnecting"} =>
              "current" \in requests \cup sockets
      BY <2>2 DEF ConnectionInv
    <2> QED BY <2>1, <2>2, <2>3, <2>4, <2>5 DEF NothingLeftBehind, ConnectionInv, StreamInv
  <1> QED BY <1>1, Inductive, StreamsOwned, PTL

(* A connected session that has settled without an error is heard: over WebRTC, fed
   by the live microphone, PCM stopped and the gateway holding this attempt's peer,
   or over PCM with no peer at the gateway. Left out is an attempt that a change of
   device did not see. *)
THEOREM UplinkAgreement == Spec => []UplinkAgrees
  <1>1. IInv => UplinkAgrees
    <2>1. SUFFICES ASSUME IInv, session = "connected", Settled, media.error = "none"
                   PROVE  IF Active(media)
                          THEN \/ media.rtc.unseen
                               \/ media.rtc.input /\ ~media.mic.pcm /\ offer # None /\ offer.own
                          ELSE media.mic # None /\ media.mic.pcm /\ offer = None
      BY DEF UplinkAgrees
    <2>2. /\ SessionInv(media, session, settings) /\ NegotiationInv(media, offer, replies)
          /\ AttemptInv(media) /\ media.asking = None
      BY <2>1, Parts DEF Settled
    <2>3. CASE Active(media)
      <3>1. media.rtc.remote = "own"
        BY <2>1, <2>3 DEF Settled, Active
      <3> QED BY <2>2, <2>3, <3>1 DEF AttemptInv, NegotiationInv
    <2>4. CASE ~Active(media)
      BY <2>1, <2>2, <2>4 DEF AttemptInv, NegotiationInv, SessionInv
    <2> QED BY <2>3, <2>4
  <1> QED BY <1>1, Inductive, PTL

(* The device shown as chosen is the one heard and the one a failed change falls
   back to, whatever the order of changes, refusals and fallbacks. Left out are a
   device chosen while the first microphone was awaited, and one that a fallback to
   PCM took over from its change and failed to get. *)
THEOREM DeviceTruth == Spec => []DeviceTruthful
  <1>1. IInv => DeviceTruthful
    BY Parts DEF DeviceInv, DeviceTruthful
  <1> QED BY <1>1, Inductive, PTL

=============================================================================
