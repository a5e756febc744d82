------------------------- MODULE TsDirectory_proofs -------------------------
(***************************************************************************)
(* Proofs about TsDirectory, for any client ids, identities and channels   *)
(* and whatever the bounds are.                                            *)
(***************************************************************************)
EXTENDS TsDirectory, FiniteSetTheorems, SequenceTheorems, TLAPS

-----------------------------------------------------------------------------
(* Folding over a queue of deltas. A set of subsets of a finite set has a
   smallest member: that takes the place of induction. *)

Families(n) == SUBSET SUBSET (1 .. n)

LEMMA SmallestSubset ==
    ASSUME NEW n \in Nat, NEW T \in Families(n), T # {}
    PROVE  \E s \in T : \A r \in T : r \subseteq s => r = s
  <1> DEFINE D == 1 .. n
  <1>0. IsFiniteSet(D) /\ T \subseteq SUBSET D
    BY FS_Interval DEF Families
  <1> HIDE DEF D
  <1>1. FiniteSubsetsOf(D) = SUBSET D
    BY <1>0, FS_FiniteSubsetsOfFinite
  <1>2. IsWellFoundedOn(StrictSubsetOrdering(D), SUBSET D)
    BY <1>0, <1>1, FS_StrictSubsetOrderingWellFounded
  <1>3. PICK s \in T : \A t \in T : <<t, s>> \notin StrictSubsetOrdering(D)
    <2> QED BY <1>2, <1>0, WFMin
  <1>4. ASSUME NEW r \in T, r \subseteq s PROVE r = s
    BY <1>0, <1>3, <1>4 DEF StrictSubsetOrdering
  <1> QED BY <1>3, <1>4

LEMMA Extremes ==
    ASSUME NEW n \in Nat, NEW s \in SUBSET (1 .. n), s # {}
    PROVE  /\ Max(s) \in s /\ \A x \in s : x <= Max(s)
           /\ Min(s) \in s /\ \A x \in s : Min(s) <= x
  <1>1. IsFiniteSet(1 .. n)
    BY FS_Interval
  <1> DEFINE HasMax(t) == \E x \in t : \A y \in t : x >= y
             HasMin(t) == \E x \in t : \A y \in t : x =< y
             T == {t \in SUBSET (1 .. n) : t # {} /\ ~(HasMax(t) /\ HasMin(t))}
  <1>2. T = {}
    <2> SUFFICES ASSUME T # {} PROVE FALSE
      OBVIOUS
    <2>0. T \in Families(n)
      BY DEF Families
    <2>1. PICK t \in T : \A r \in T : r \subseteq t => r = t
      <3> HIDE DEF T
      <3> QED BY <2>0, SmallestSubset
    <2>2. PICK x \in t : TRUE
      BY <2>1
    <2>3. x \in Nat /\ t \subseteq Nat
      BY <2>1, <2>2
    <2>4. CASE t \ {x} = {}
      BY <2>1, <2>3, <2>4
    <2>5. CASE t \ {x} # {}
      <3>1. HasMax(t \ {x}) /\ HasMin(t \ {x})
        <4>1. t \ {x} \in SUBSET (1 .. n) /\ t \ {x} \subseteq t /\ t \ {x} # t
          BY <2>1, <2>2
        <4>2. t \ {x} \notin T
          BY <2>1, <4>1
        <4> HIDE DEF HasMax, HasMin
        <4> QED BY <2>5, <4>1, <4>2
      <3>2. PICK a \in t \ {x}, b \in t \ {x} : \A y \in t \ {x} : a >= y /\ b =< y
        BY <3>1
      <3>3. HasMax(t)
        <4>1. \E m \in {a, x} : \A y \in t : m >= y
          BY <2>3, <3>2
        <4> QED BY <2>2, <3>2, <4>1
      <3>4. HasMin(t)
        <4>1. \E m \in {b, x} : \A y \in t : m =< y
          BY <2>3, <3>2
        <4> QED BY <2>2, <3>2, <4>1
      <3> QED BY <2>1, <3>3, <3>4
    <2> QED BY <2>4, <2>5
  <1>3. HasMax(s) /\ HasMin(s)
    BY <1>2
  <1>4. Max(s) \in s /\ \A y \in s : Max(s) >= y
    BY <1>3, Zenon DEF Max
  <1>5. Min(s) \in s /\ \A y \in s : Min(s) =< y
    BY <1>3, Zenon DEF Min
  <1> HIDE DEF HasMax, HasMin
  <1> QED BY <1>4, <1>5

\* The function whose value at DOMAIN q is the fold over q.
Folding(k, q, f) ==
    [s \in SUBSET DOMAIN q |->
        IF s = {} THEN k ELSE ApplyDelta(f[s \ {Max(s)}], q[Max(s)])]

LEMMA FoldedBy ==
    ASSUME NEW k, NEW q
    PROVE  FoldLeft(ApplyDelta, k, q) = (CHOOSE f : f = Folding(k, q, f))[DOMAIN q]
  BY Zenon DEF FoldLeft, MapThenFoldSet, Folding

LEMMA FoldingExists ==
    ASSUME NEW k, NEW q, NEW n \in Nat, DOMAIN q = 1 .. n
    PROVE  \E f : f = Folding(k, q, f)
  <1> DEFINE D == 1 .. n
             Partial(t, f) == f = [s \in SUBSET t |->
                IF s = {} THEN k ELSE ApplyDelta(f[s \ {Max(s)}], q[Max(s)])]
             T == {t \in SUBSET D : ~\E f : Partial(t, f)}
  <1>1. IsFiniteSet(D)
    BY FS_Interval
  <1>2. \A s \in SUBSET D : s # {} => Max(s) \in s /\ \A x \in s : x <= Max(s)
    BY Extremes
  <1>3. T = {}
    <2> SUFFICES ASSUME T # {} PROVE FALSE
      OBVIOUS
    <2>0. T \in Families(n)
      BY DEF Families
    <2>1. PICK t \in T : \A r \in T : r \subseteq t => r = t
      <3> HIDE DEF T
      <3> QED BY <2>0, SmallestSubset
    <2>2. t # {}
      <3> SUFFICES \E f : Partial({}, f)
        BY <2>1
      <3> DEFINE f == [s \in SUBSET {} |-> k]
      <3>1. Partial({}, f)
        OBVIOUS
      <3> QED BY <3>1
    <2>3. PICK m \in t : m = Max(t) /\ \A x \in t : x <= m
      BY <1>2, <2>1, <2>2
    <2>4. t \ {m} \notin T /\ t \ {m} \in SUBSET D
      BY <2>1, <2>3
    <2>5. PICK g : Partial(t \ {m}, g)
      BY <2>4
    <2>6. ASSUME NEW s \in SUBSET t, m \in s PROVE Max(s) = m
      <3>1. s \in SUBSET D /\ s # {}
        BY <2>1, <2>6
      <3>2. Max(s) \in s /\ m <= Max(s)
        BY <1>2, <2>6, <3>1
      <3>3. Max(s) <= m
        BY <2>3, <3>2
      <3>4. m \in Nat /\ Max(s) \in Nat
        <4>1. s \subseteq Nat
          BY <3>1
        <4> QED BY <2>6, <3>2, <4>1
      <3> HIDE DEF T, Partial
      <3> QED BY <2>3, <3>2, <3>3, <3>4
    <2>7. \A s \in SUBSET t : s # {} /\ m \notin s => Max(s) \in s /\ Max(s) # m
      BY <1>2, <2>1
    <2> DEFINE f == [s \in SUBSET t |-> IF m \in s THEN ApplyDelta(g[s \ {m}], q[m]) ELSE g[s]]
    <2>8. \A s \in SUBSET (t \ {m}) :
             g[s] = IF s = {} THEN k ELSE ApplyDelta(g[s \ {Max(s)}], q[Max(s)])
      BY <2>5
    <2>9. \A s \in SUBSET t : m \notin s => s \in SUBSET (t \ {m}) /\ f[s] = g[s]
      OBVIOUS
    <2>10. \A s \in SUBSET t : m \in s => f[s] = ApplyDelta(g[s \ {m}], q[m])
      OBVIOUS
    <2>11. DOMAIN f = SUBSET t /\ f = [s \in SUBSET t |-> f[s]]
      OBVIOUS
    <2> HIDE DEF f
    <2>12. ASSUME NEW s \in SUBSET t
           PROVE  f[s] = IF s = {} THEN k ELSE ApplyDelta(f[s \ {Max(s)}], q[Max(s)])
      <3>1. CASE m \in s
        <4>1. s \ {m} \in SUBSET t /\ m \notin s \ {m}
          OBVIOUS
        <4>2. f[s \ {m}] = g[s \ {m}]
          BY <2>9, <4>1
        <4> QED BY <2>6, <2>10, <3>1, <4>2
      <3>2. CASE m \notin s
        <4>1. s \ {Max(s)} \in SUBSET t /\ m \notin s \ {Max(s)}
          BY <3>2
        <4>2. f[s \ {Max(s)}] = g[s \ {Max(s)}] /\ f[s] = g[s] /\ s \in SUBSET (t \ {m})
          BY <2>9, <3>2, <4>1
        <4> QED BY <2>8, <4>2
      <3> QED BY <3>1, <3>2
    <2>13. Partial(t, f)
      BY <2>11, <2>12
    <2> QED BY <2>1, <2>13
  <1>4. \E f : Partial(D, f)
    BY <1>3
  <1> QED BY <1>4 DEF Folding

\* What holds of the start and is carried from each part of the queue to the next.
LEMMA FoldKeeps ==
    ASSUME NEW k, NEW q, NEW n \in Nat, DOMAIN q = 1 .. n, NEW Good,
           <<{}, k>> \in Good,
           \A s \in SUBSET DOMAIN q : \A j :
              /\ s # {} /\ Max(s) \in s /\ \A x \in s : x <= Max(s)
              /\ <<s \ {Max(s)}, j>> \in Good
              => <<s, ApplyDelta(j, q[Max(s)])>> \in Good
    PROVE  <<DOMAIN q, FoldLeft(ApplyDelta, k, q)>> \in Good
  <1> DEFINE D == DOMAIN q
             f == CHOOSE f : f = Folding(k, q, f)
             T == {s \in SUBSET D : <<s, f[s]>> \notin Good}
  <1>1. IsFiniteSet(D)
    BY FS_Interval
  <1>2. f = Folding(k, q, f)
    BY FoldingExists
  <1> HIDE DEF f
  <1>3. \A s \in SUBSET D :
           f[s] = IF s = {} THEN k ELSE ApplyDelta(f[s \ {Max(s)}], q[Max(s)])
    BY <1>2 DEF Folding
  <1>4. T = {}
    <2> SUFFICES ASSUME T # {} PROVE FALSE
      OBVIOUS
    <2>0. T \in Families(n)
      BY DEF Families
    <2>1. PICK s \in T : \A r \in T : r \subseteq s => r = s
      <3> HIDE DEF T
      <3> QED BY <2>0, SmallestSubset
    <2>2. s # {}
      BY <1>3, <2>1
    <2>3. Max(s) \in s /\ \A x \in s : x <= Max(s)
      BY <2>1, <2>2, Extremes
    <2>4. <<s \ {Max(s)}, f[s \ {Max(s)}]>> \in Good
      <3>1. s \ {Max(s)} \in SUBSET D /\ s \ {Max(s)} \subseteq s /\ s \ {Max(s)} # s
        BY <2>1, <2>3
      <3> QED BY <2>1, <3>1
    <2>5. <<s, ApplyDelta(f[s \ {Max(s)}], q[Max(s)])>> \in Good
      BY <2>1, <2>2, <2>3, <2>4
    <2> QED BY <1>3, <2>1, <2>2, <2>5
  <1>5. <<D, f[D]>> \in Good
    BY <1>4
  <1> QED BY <1>5, FoldedBy DEF f

-----------------------------------------------------------------------------
(* The inductive invariant. *)

\* The deltas that events become. The session's own client never leaves.
Event ==
    {d \in Delta : /\ d.kind # "leave" => d.entry \in Entry
                   /\ d.kind = "leave" => d.id # Me}

Known ==
    [ready: BOOLEAN, clients: Directory, departed: SUBSET Ids, pending: Seq(Event),
     overflow: BOOLEAN, self: BOOLEAN, at: Channels \cup {None},
     targets: SUBSET Ids, whispering: BOOLEAN]

Cache == [Pictured -> {"unknown", "none"} \cup Pictured]

Loader == [timer: BOOLEAN, batch: Seq(Loading), cache: Cache]

Typed ==
    /\ phase \in Phases /\ view \in Directory /\ dirty \in BOOLEAN
    /\ preferred \in Channels \cup {None} /\ moves \in Seq(Channels)
    /\ known \in Known /\ chosen \in [Ids -> People \cup {None}]
    /\ avatars \in Loader /\ late \subseteq Loading

(* The live view, and that there is a channel to be restored. *)
ViewInv ==
    /\ phase = "down" => view = Nowhere
    /\ phase \in {"join", "restore", "dead", "live"} => view[Me] # None
    /\ \A i \in Ids : view[i] # None => (i = Me <=> view[i].who = Us)
    /\ moves # <<>> => phase = "live"
    /\ phase = "restore" => preferred # None

(* The channel kept for the next reconnect, against the client's own. While a switch
   is executed and not acknowledged it is the one asked for, unless the client was
   moved on; what is to be restored is asked for once. *)
OwnInv ==
    /\ target \in Channels \cup {None} /\ executed \in BOOLEAN /\ crossed \in BOOLEAN
    /\ target # None => phase = "restore"
    /\ executed => moves # <<>>
    /\ executed /\ ~crossed => view[Me].at = moves[1]
    /\ phase = "restore" /\ target = None => preferred = view[Me].at
    /\ phase = "live" /\ (executed \/ ~crossed) => preferred = view[Me].at

\* The queue q ends with i in view: it has entered and has not left since.
Announced(q, i) ==
    \E n \in DOMAIN q :
        /\ q[n].kind = "enter" /\ q[n].id = i
        /\ \A m \in DOMAIN q : m > n => ~(q[m].kind = "leave" /\ q[m].id = i)

(* The roster and its tombstones, against the live view. Before the first snapshot
   the queue announces who is in view; the snapshot of "join" is the last one that
   queued deltas are applied to, what a session goes on with is a view as it was. *)
RosterInv ==
    /\ known.ready <=> phase \in {"join", "restore", "live"}
    /\ known.ready => known.pending = <<>>
    /\ ~known.ready => known.departed = {}
    /\ Me \notin known.departed
    /\ \A i \in known.departed : known.clients[i] = None
    /\ phase \in {"down", "welcome"} /\ ~known.overflow =>
          \A i \in Ids : view[i] # None => Announced(known.pending, i)
    /\ known.ready /\ ~known.overflow => \A i \in known.departed : view[i] = None
    /\ phase \in {"restore", "live"} =>
          \A i \in Ids : view[i] # None /\ known.clients[i] # None =>
             known.clients[i].who = view[i].who
    /\ phase \in {"restore", "live"} /\ ~dirty =>
          \A i \in Ids \ known.departed : known.clients[i] = view[i]
    /\ phase = "live" => known.self /\ known.at = view[Me].at

(* Whisper targets are members, and those chosen unless their id was taken over. *)
WhisperInv ==
    /\ phase # "live" => known.targets = {}
    /\ known.whispering => known.targets # {}
    /\ phase = "live" => told = [targets |-> known.targets, whispering |-> known.whispering]
    /\ \A i \in known.targets : /\ i # Me /\ known.clients[i] # None
                                /\ chosen[i] \in {known.clients[i].who, None}

(* The download under way was started for this directory. *)
AvatarInv ==
    /\ avatars.batch # <<>> => avatars.batch[1].who \in asked
    /\ AvatarsBelong

IInv == Typed /\ ViewInv /\ RosterInv /\ WhisperInv /\ AvatarInv

-----------------------------------------------------------------------------
(* What the helpers leave of the fields of what the session knows. *)

\* n is k but for its roster and tombstones.
SameBut(n, k) ==
    /\ n.ready = k.ready /\ n.pending = k.pending /\ n.overflow = k.overflow
    /\ n.self = k.self /\ n.at = k.at
    /\ n.targets = k.targets /\ n.whispering = k.whispering

\* The member d.id after the delta d.
DeltaEffect(n, k, d) ==
    /\ \A j \in Ids \ {d.id} : n.clients[j] = k.clients[j]
    /\ \A j \in Ids \ {d.id} : j \in n.departed <=> j \in k.departed
    /\ d.kind = "enter" => n.clients[d.id] = d.entry /\ d.id \notin n.departed
    /\ d.kind = "leave" => n.clients[d.id] = None /\ d.id \in n.departed
    /\ d.kind = "updated" =>
          /\ n.departed = k.departed
          /\ d.id \in k.departed => n.clients[d.id] = k.clients[d.id]
          /\ d.id \notin k.departed => n.clients[d.id] = d.entry
    /\ d.kind = "moved" =>
          /\ n.departed = k.departed
          /\ k.clients[d.id] = None => n.clients[d.id] = None
          /\ k.clients[d.id] # None => /\ n.clients[d.id] \in Entry
                                       /\ n.clients[d.id].who = k.clients[d.id].who
                                       /\ n.clients[d.id].at = d.entry.at

LEMMA Rosters ==
    ASSUME NEW c \in Directory, NEW i \in Ids
    PROVE  /\ \A e \in Entry \cup {None} : [c EXCEPT ![i] = e] \in Directory
           /\ c[i] \in Entry \cup {None}
           /\ None \notin Entry
  <1>1. None \notin Entry
    BY NoneAssumption DEF Entry
  <1> QED BY <1>1 DEF Directory

LEMMA EnterKnown ==
    ASSUME NEW k \in Known, NEW i \in Ids, NEW e \in Entry
    PROVE  /\ Enter(k, i, e) \in Known
           /\ SameBut(Enter(k, i, e), k)
           /\ Enter(k, i, e).clients = [k.clients EXCEPT ![i] = e]
           /\ Enter(k, i, e).departed = k.departed \ {i}
  <1> QED BY Rosters DEF Enter, Known, SameBut, Directory

LEMMA LeaveKnown ==
    ASSUME NEW k \in Known, NEW i \in Ids
    PROVE  /\ Leave(k, i) \in Known
           /\ SameBut(Leave(k, i), k)
           /\ Leave(k, i).clients = [k.clients EXCEPT ![i] = None]
           /\ Leave(k, i).departed = k.departed \cup {i}
  <1> QED BY Rosters DEF Leave, Known, SameBut, Directory

LEMMA MovedKnown ==
    ASSUME NEW k \in Known, NEW i \in Ids, NEW to \in Channels
    PROVE  /\ Moved(k, i, to) \in Known
           /\ SameBut(Moved(k, i, to), k)
           /\ Moved(k, i, to).departed = k.departed
           /\ k.clients[i] = None => Moved(k, i, to) = k
           /\ k.clients[i] # None =>
                 Moved(k, i, to).clients = [k.clients EXCEPT ![i] = [who |-> k.clients[i].who, at |-> to]]
  <1>1. CASE k.clients[i] = None
    BY <1>1 DEF Moved, SameBut
  <1>2. CASE k.clients[i] # None
    <2> DEFINE c == [k.clients EXCEPT ![i].at = to]
    <2>1. k.clients \in Directory /\ k.clients[i] \in Entry
      BY <1>2 DEF Known, Directory
    <2>2. c = [k.clients EXCEPT ![i] = [who |-> k.clients[i].who, at |-> to]]
      BY <2>1 DEF Directory, Entry
    <2>3. [who |-> k.clients[i].who, at |-> to] \in Entry
      BY <2>1 DEF Entry
    <2>4. c \in Directory
      BY <2>1, <2>2, <2>3, Rosters
    <2>5. Moved(k, i, to) = [k EXCEPT !.clients = c]
      BY <1>2 DEF Moved, Known
    <2> HIDE DEF c
    <2>6. [k EXCEPT !.clients = c] \in Known /\ SameBut([k EXCEPT !.clients = c], k)
          /\ [k EXCEPT !.clients = c].clients = c /\ [k EXCEPT !.clients = c].departed = k.departed
      BY <2>4 DEF Known, SameBut
    <2> QED BY <1>2, <2>2, <2>5, <2>6
  <1> QED BY <1>1, <1>2

LEMMA UpdatedKnown ==
    ASSUME NEW k \in Known, NEW i \in Ids, NEW e \in Entry
    PROVE  /\ [k EXCEPT !.clients[i] = e] \in Known
           /\ SameBut([k EXCEPT !.clients[i] = e], k)
           /\ [k EXCEPT !.clients[i] = e].clients = [k.clients EXCEPT ![i] = e]
           /\ [k EXCEPT !.clients[i] = e].departed = k.departed
  <1> QED BY Rosters DEF Known, SameBut, Directory

LEMMA DeltaKnown ==
    ASSUME NEW k \in Known, NEW d \in Event
    PROVE  /\ ApplyDelta(k, d) \in Known
           /\ SameBut(ApplyDelta(k, d), k)
           /\ DeltaEffect(ApplyDelta(k, d), k, d)
  <1>1. d.kind \in {"enter", "leave", "moved", "updated"}
    BY DEF Event, Delta
  <1>2. PICK i \in Ids : i = d.id
    BY DEF Event, Delta
  <1>3. k.clients \in Directory /\ k.departed \subseteq Ids /\ SameBut(k, k)
    BY DEF Known, SameBut
  <1>4. ASSUME NEW e, e = d.entry, NEW n, n = ApplyDelta(k, d),
               e \in Entry, e.at \in Channels, d.kind # "leave"
        PROVE  n \in Known /\ SameBut(n, k) /\ DeltaEffect(n, k, d)
    <2>1. CASE d.kind = "enter"
      <3>1. n = Enter(k, i, e)
        BY <1>2, <1>4, <2>1 DEF ApplyDelta
      <3>2. /\ n \in Known /\ SameBut(n, k)
            /\ n.clients = [k.clients EXCEPT ![i] = e] /\ n.departed = k.departed \ {i}
        BY <1>4, <3>1, EnterKnown
      <3> QED BY <1>2, <1>3, <1>4, <2>1, <3>2 DEF DeltaEffect, Directory
    <2>2. CASE d.kind = "updated"
      <3>1. CASE i \in k.departed
        BY <1>2, <1>3, <1>4, <2>2, <3>1 DEF ApplyDelta, DeltaEffect
      <3>2. CASE i \notin k.departed
        <4>1. n = [k EXCEPT !.clients[i] = e]
          BY <1>2, <1>4, <2>2, <3>2 DEF ApplyDelta
        <4>2. /\ n \in Known /\ SameBut(n, k)
              /\ n.clients = [k.clients EXCEPT ![i] = e] /\ n.departed = k.departed
          BY <1>4, <4>1, UpdatedKnown
        <4> QED BY <1>2, <1>3, <1>4, <2>2, <3>2, <4>2 DEF DeltaEffect, Directory
      <3> QED BY <3>1, <3>2
    <2>3. CASE d.kind = "moved"
      <3>0. PICK to \in Channels : to = e.at
        BY <1>4
      <3>1. n = Moved(k, i, to)
        BY <1>2, <1>4, <2>3, <3>0 DEF ApplyDelta
      <3>2. n \in Known /\ SameBut(n, k) /\ n.departed = k.departed
        BY <3>1, MovedKnown
      <3>3. CASE k.clients[i] = None
        <4>1. n = k
          BY <1>4, <3>1, <3>3, MovedKnown
        <4> QED BY <1>2, <1>3, <2>3, <3>2, <3>3, <4>1 DEF DeltaEffect
      <3>4. CASE k.clients[i] # None
        <4>1. k.clients[i] \in Entry
          BY <1>3, <3>4 DEF Directory
        <4>2. PICK f \in Entry : f = [who |-> k.clients[i].who, at |-> to]
          BY <4>1 DEF Entry
        <4>3. n.clients = [k.clients EXCEPT ![i] = f]
          BY <1>4, <3>1, <3>4, <4>2, MovedKnown
        <4>4. f.who = k.clients[i].who /\ f.at = e.at
          BY <3>0, <4>2
        <4> QED BY <1>2, <1>3, <1>4, <2>3, <3>2, <3>4, <4>2, <4>3, <4>4
                DEF DeltaEffect, Directory
      <3> QED BY <3>3, <3>4
    <2> QED BY <1>1, <1>4, <2>1, <2>2, <2>3
  <1>5. CASE d.kind = "leave"
    <2>1. PICK n : n = ApplyDelta(k, d)
      OBVIOUS
    <2>2. n = Leave(k, i)
      BY <1>2, <1>5, <2>1 DEF ApplyDelta
    <2>3. /\ n \in Known /\ SameBut(n, k)
          /\ n.clients = [k.clients EXCEPT ![i] = None] /\ n.departed = k.departed \cup {i}
      BY <2>2, LeaveKnown
    <2>4. DeltaEffect(n, k, d)
      BY <1>2, <1>3, <1>5, <2>3 DEF DeltaEffect, Directory
    <2> QED BY <2>1, <2>3, <2>4
  <1>6. d.kind # "leave" => d.entry \in Entry /\ d.entry.at \in Channels
    BY DEF Event, Entry
  <1> QED BY <1>4, <1>5, <1>6

LEMMA EmptyDirectory == Nowhere \in Directory /\ \A i \in Ids : Nowhere[i] = None
  BY DEF Nowhere, Directory

LEMMA QueueKnown ==
    ASSUME NEW k \in Known, NEW d \in Event, ~k.ready
    PROVE  /\ ApplyOrQueue(k, d) \in Known
           /\ ~ApplyOrQueue(k, d).ready
           /\ ApplyOrQueue(k, d).clients = k.clients
           /\ ApplyOrQueue(k, d).departed = k.departed
           /\ ApplyOrQueue(k, d).self = k.self /\ ApplyOrQueue(k, d).at = k.at
           /\ ApplyOrQueue(k, d).targets = k.targets
           /\ ApplyOrQueue(k, d).whispering = k.whispering
           /\ ApplyOrQueue(k, d).overflow
              \/ (ApplyOrQueue(k, d).pending = Append(k.pending, d) /\ ~k.overflow)
  <1> DEFINE a == [k EXCEPT !.pending = Append(@, d)]
             b == [k EXCEPT !.overflow = TRUE]
  <1>0. k.pending \in Seq(Event) /\ Append(k.pending, d) \in Seq(Event)
    BY DEF Known
  <1>1. a \in Known /\ b \in Known
    BY <1>0 DEF Known
  <1>2. ApplyOrQueue(k, d) \in {a, b}
    BY DEF ApplyOrQueue
  <1>3. k.overflow \in BOOLEAN
    BY DEF Known
  <1>4. ASSUME NEW n, n \in {a, b}
        PROVE  /\ n \in Known /\ ~n.ready /\ n.clients = k.clients /\ n.departed = k.departed
               /\ n.self = k.self /\ n.at = k.at
               /\ n.targets = k.targets /\ n.whispering = k.whispering
               /\ n.overflow \/ (n.pending = Append(k.pending, d) /\ ~k.overflow)
    BY <1>1, <1>3, <1>4 DEF Known
  <1> HIDE DEF a, b
  <1> QED BY <1>2, <1>4, Zenon

\* What the snapshot of the view v starts from.
Replaced(k, v) ==
    [k EXCEPT !.ready = TRUE, !.pending = <<>>,
              !.clients = [i \in Ids |-> IF i \in k.departed THEN None ELSE v[i]]]

LEMMA ReplacedKnown ==
    ASSUME NEW k \in Known, NEW v \in Directory
    PROVE  /\ Replaced(k, v) \in Known
           /\ Replaced(k, v).ready /\ Replaced(k, v).pending = <<>>
           /\ Replaced(k, v).overflow = k.overflow /\ Replaced(k, v).self = k.self
           /\ Replaced(k, v).at = k.at /\ Replaced(k, v).departed = k.departed
           /\ Replaced(k, v).targets = k.targets
           /\ Replaced(k, v).whispering = k.whispering
           /\ \A i \in k.departed : Replaced(k, v).clients[i] = None
           /\ \A i \in Ids \ k.departed : Replaced(k, v).clients[i] = v[i]
  <1> DEFINE c == [i \in Ids |-> IF i \in k.departed THEN None ELSE v[i]]
  <1>1. c \in Directory /\ k.departed \subseteq Ids
    BY DEF Directory, Known
  <1>2. /\ \A i \in k.departed : c[i] = None
        /\ \A i \in Ids \ k.departed : c[i] = v[i]
    BY <1>1
  <1>3. Replaced(k, v) = [k EXCEPT !.ready = TRUE, !.pending = <<>>, !.clients = c]
    BY DEF Replaced
  <1> HIDE DEF c
  <1>4. <<>> \in Seq(Event)
    OBVIOUS
  <1> QED BY <1>1, <1>2, <1>3, <1>4 DEF Known

LEMMA FoldEmpty == \A k : FoldLeft(ApplyDelta, k, <<>>) = k
  <1> SUFFICES ASSUME NEW k PROVE FoldLeft(ApplyDelta, k, <<>>) = k
    OBVIOUS
  <1> DEFINE Good == {<<{}, k>>}
  <1>1. DOMAIN <<>> = 1 .. 0 /\ DOMAIN <<>> = {}
    OBVIOUS
  <1>2. <<{}, k>> \in Good
    OBVIOUS
  <1>3. \A s \in SUBSET DOMAIN <<>> : \A j :
           /\ s # {} /\ Max(s) \in s /\ \A x \in s : x <= Max(s)
           /\ <<s \ {Max(s)}, j>> \in Good
           => <<s, ApplyDelta(j, <<>>[Max(s)])>> \in Good
    BY <1>1
  <1>4. <<DOMAIN <<>>, FoldLeft(ApplyDelta, k, <<>>)>> \in Good
    <2> HIDE DEF Good
    <2> QED BY <1>1, <1>2, <1>3, FoldKeeps
  <1> QED BY <1>4

\* A snapshot when no delta is queued.
LEMMA LaterSnapshot ==
    ASSUME NEW k \in Known, NEW v \in Directory, k.pending = <<>>
    PROVE  ApplySnapshot(k, v) = Replaced(k, v)
  BY FoldEmpty DEF ApplySnapshot, Replaced

\* The part s of the queue q leaves i in view.
AnnouncedIn(s, q, i) ==
    \E n \in s :
        /\ q[n].kind = "enter" /\ q[n].id = i
        /\ \A m \in s : m > n => ~(q[m].kind = "leave" /\ q[m].id = i)

\* The first snapshot, which the queued deltas are applied to: no client is taken
\* for departed that entered and has not left since.
LEMMA FirstSnapshot ==
    ASSUME NEW k \in Known, NEW v \in Directory, k.departed = {}
    PROVE  /\ ApplySnapshot(k, v) \in Known
           /\ SameBut(ApplySnapshot(k, v), Replaced(k, v))
           /\ Me \notin ApplySnapshot(k, v).departed
           /\ \A i \in ApplySnapshot(k, v).departed : ApplySnapshot(k, v).clients[i] = None
           /\ \A i \in Ids : Announced(k.pending, i) => i \notin ApplySnapshot(k, v).departed
  <1> DEFINE q == k.pending
             base == Replaced(k, v)
             Sound(s, j) ==
                /\ j \in Known /\ SameBut(j, base) /\ Me \notin j.departed
                /\ \A i \in j.departed : j.clients[i] = None
                /\ \A i \in Ids : AnnouncedIn(s, q, i) => i \notin j.departed
             Good == {p \in (SUBSET DOMAIN q) \X Known : Sound(p[1], p[2])}
  <1>1. q \in Seq(Event) /\ Len(q) \in Nat /\ DOMAIN q = 1 .. Len(q)
    BY DEF Known
  <1>2. base \in Known /\ base.departed = {}
    BY ReplacedKnown
  <1>3. Sound({}, base)
    BY <1>2 DEF SameBut
  <1>4. ASSUME NEW s \in SUBSET DOMAIN q, NEW j, NEW m \in s, \A x \in s : x <= m,
               Sound(s \ {m}, j)
        PROVE  Sound(s, ApplyDelta(j, q[m]))
    <2>1. PICK d \in Event : d = q[m]
      BY <1>1
    <2>2. PICK n : n = ApplyDelta(j, d)
      OBVIOUS
    <2>3. n \in Known /\ SameBut(n, j) /\ DeltaEffect(n, j, d)
      BY <1>4, <2>2, DeltaKnown
    <2>4. d.kind \in {"enter", "leave", "moved", "updated"} /\ d.id \in Ids
          /\ (d.kind = "leave" => d.id # Me)
      BY DEF Event, Delta
    <2>5. j.departed \subseteq Ids /\ n.departed \subseteq Ids
      BY <1>4, <2>3 DEF Known
    <2>6. SameBut(n, base)
      BY <1>4, <2>3 DEF SameBut
    <2>7. Me \notin n.departed
      BY <1>4, <2>3, <2>4, <2>5, ClientsAssumption DEF DeltaEffect
    <2>8. \A i \in n.departed : n.clients[i] = None
      BY <1>4, <2>3, <2>4, <2>5 DEF DeltaEffect
    <2>9. ASSUME NEW i \in Ids, AnnouncedIn(s, q, i) PROVE i \notin n.departed
      <3>1. PICK e \in s : /\ q[e].kind = "enter" /\ q[e].id = i
                           /\ \A x \in s : x > e => ~(q[x].kind = "leave" /\ q[x].id = i)
        BY <2>9 DEF AnnouncedIn
      <3>2. CASE e = m
        BY <2>1, <2>3, <3>1, <3>2 DEF DeltaEffect
      <3>3. CASE e # m
        <4>1. e \in s \ {m} /\ m > e
          <5>1. e <= m /\ e \in Nat /\ m \in Nat
            BY <1>1, <1>4
          <5> QED BY <3>3, <5>1
        <4>2. AnnouncedIn(s \ {m}, q, i)
          BY <3>1, <4>1 DEF AnnouncedIn
        <4>3. i \notin j.departed
          BY <1>4, <4>2
        <4>4. ~(d.kind = "leave" /\ d.id = i)
          BY <2>1, <3>1, <4>1
        <4> QED BY <2>3, <2>4, <4>3, <4>4 DEF DeltaEffect
      <3> QED BY <3>2, <3>3
    <2> QED BY <2>1, <2>2, <2>3, <2>6, <2>7, <2>8, <2>9
  <1> HIDE DEF Sound, base
  <1>5. <<{}, base>> \in Good
    BY <1>2, <1>3
  <1>6. ASSUME NEW s \in SUBSET DOMAIN q, NEW j, NEW m \in s, \A x \in s : x <= m,
               <<s \ {m}, j>> \in Good
        PROVE  <<s, ApplyDelta(j, q[m])>> \in Good
    <2>1. Sound(s \ {m}, j)
      BY <1>6
    <2>2. Sound(s, ApplyDelta(j, q[m]))
      BY <1>4, <1>6, <2>1
    <2>3. ApplyDelta(j, q[m]) \in Known
      BY <2>2 DEF Sound
    <2> QED BY <2>2, <2>3
  <1>7. \A s \in SUBSET DOMAIN q : \A j :
           /\ s # {} /\ Max(s) \in s /\ \A x \in s : x <= Max(s)
           /\ <<s \ {Max(s)}, j>> \in Good
           => <<s, ApplyDelta(j, q[Max(s)])>> \in Good
    <2> HIDE DEF Good
    <2> QED BY <1>6
  <1>8. <<DOMAIN q, FoldLeft(ApplyDelta, base, q)>> \in Good
    <2> HIDE DEF Good
    <2> QED BY <1>1, <1>5, <1>7, FoldKeeps
  <1>9. Sound(DOMAIN q, FoldLeft(ApplyDelta, base, q))
    BY <1>8
  <1>10. ApplySnapshot(k, v) = FoldLeft(ApplyDelta, base, q)
    BY DEF ApplySnapshot, base, Replaced
  <1>11. \A i \in Ids : Announced(q, i) <=> AnnouncedIn(DOMAIN q, q, i)
    BY DEF Announced, AnnouncedIn
  <1> QED BY <1>9, <1>10, <1>11 DEF Sound, base

LEMMA ListKnown ==
    ASSUME NEW k \in Known, NEW v \in Directory
    PROVE  /\ ApplyList(k, v) \in Known
           /\ SameBut(ApplyList(k, v), k) /\ ApplyList(k, v).departed = k.departed
           /\ \A i \in Ids : ApplyList(k, v).clients[i] =
                 IF k.clients[i] # None /\ v[i] # None /\ i \notin k.departed
                 THEN v[i] ELSE k.clients[i]
  <1> DEFINE c == [i \in Ids |-> IF k.clients[i] # None /\ v[i] # None /\ i \notin k.departed
                                 THEN v[i] ELSE k.clients[i]]
  <1>1. k.clients \in Directory
    BY DEF Known
  <1>2. c \in Directory
    BY <1>1 DEF Directory
  <1>3. \A i \in Ids : c[i] = IF k.clients[i] # None /\ v[i] # None /\ i \notin k.departed
                              THEN v[i] ELSE k.clients[i]
    OBVIOUS
  <1>4. ApplyList(k, v) = [k EXCEPT !.clients = c]
    BY DEF ApplyList
  <1> HIDE DEF c
  <1> QED BY <1>2, <1>3, <1>4 DEF Known, SameBut

\* n is k after refresh() over the view v.
Refreshed(n, k, v) ==
    /\ n \in Known
    /\ n.ready = k.ready /\ n.clients = k.clients /\ n.departed = k.departed
    /\ n.pending = k.pending /\ n.overflow = k.overflow /\ n.self = k.self
    /\ ~k.ready => n = k
    /\ k.at # None => n.at = k.at
    /\ n.targets \subseteq k.targets
    /\ n.whispering => k.whispering
    /\ k.ready => /\ n.whispering => n.targets # {}
                  /\ k.whispering /\ n.targets # {} => n.whispering
                  /\ \A i \in n.targets : i # Me /\ n.clients[i] # None

LEMMA SameTruth == \A x, y \in BOOLEAN : (x <=> y) => x = y
  OBVIOUS

LEMMA HereTyped ==
    ASSUME NEW v \in Directory
    PROVE  /\ Here(v) \in Channels \cup {None}
           /\ v[Me] # None => Here(v) = v[Me].at /\ Here(v) \in Channels /\ Here(v) # None
  <1>1. v[Me] \in Entry \cup {None}
    BY ClientsAssumption DEF Directory
  <1>2. CASE v[Me] = None
    BY <1>2 DEF Here
  <1>3. CASE v[Me] # None
    BY <1>1, <1>3, NoneAssumption DEF Here, Entry
  <1> QED BY <1>2, <1>3

LEMMA MembersOf ==
    ASSUME NEW k \in Known, k.ready, NEW i \in Ids, i # Me
    PROVE  /\ Shown(k)[i] = k.clients[i]
           /\ i \in Members(k) <=> k.clients[i] # None
  <1>1. k.clients \in Directory
    BY DEF Known
  <1> QED BY <1>1 DEF Shown, Members, Directory

LEMMA PruneKnown ==
    ASSUME NEW k \in Known, k.ready
    PROVE  /\ Prune(k) \in Known
           /\ Prune(k).ready = k.ready /\ Prune(k).clients = k.clients
           /\ Prune(k).departed = k.departed /\ Prune(k).pending = k.pending
           /\ Prune(k).overflow = k.overflow /\ Prune(k).self = k.self /\ Prune(k).at = k.at
           /\ Prune(k).targets \subseteq k.targets
           /\ Prune(k).whispering <=> (k.whispering /\ Prune(k).targets # {})
           /\ \A i \in Prune(k).targets : i # Me /\ k.clients[i] # None
  <1> DEFINE left == (k.targets \cap Members(k)) \ {Me}
  <1>1. k.targets \subseteq Ids /\ k.whispering \in BOOLEAN
    BY DEF Known
  <1>2. PICK w \in BOOLEAN : w = (k.whispering /\ left # {})
    BY Zenon
  <1>3. w <=> (k.whispering /\ left # {})
    BY <1>1, <1>2, Zenon
  <1>4. Prune(k) = [k EXCEPT !.targets = left, !.whispering = w]
    BY <1>2, Zenon DEF Prune
  <1>5. left \subseteq Ids /\ left \subseteq k.targets
        /\ \A i \in left : i # Me /\ k.clients[i] # None
    BY <1>1, MembersOf
  <1> HIDE DEF left
  <1>6. /\ Prune(k) \in Known
        /\ Prune(k).ready = k.ready /\ Prune(k).clients = k.clients
        /\ Prune(k).departed = k.departed /\ Prune(k).pending = k.pending
        /\ Prune(k).overflow = k.overflow /\ Prune(k).self = k.self /\ Prune(k).at = k.at
        /\ Prune(k).targets = left /\ Prune(k).whispering = w
    BY <1>4, <1>5 DEF Known
  <1> QED BY <1>3, <1>5, <1>6, Zenon

LEMMA RefreshKnown ==
    ASSUME NEW k \in Known, NEW v \in Directory
    PROVE  Refreshed(Refresh(k, v), k, v)
  <1>1. CASE ~k.ready
    BY <1>1 DEF Refresh, Refreshed
  <1>2. CASE k.ready
    <2>1. PICK a : a = IF k.at = None THEN [k EXCEPT !.at = Here(v)] ELSE k
      OBVIOUS
    <2>2. /\ a \in Known /\ a.ready = k.ready /\ a.clients = k.clients
          /\ a.departed = k.departed /\ a.pending = k.pending /\ a.overflow = k.overflow
          /\ a.self = k.self /\ a.targets = k.targets /\ a.whispering = k.whispering
          /\ (k.at # None => a.at = k.at)
      BY <2>1, HereTyped DEF Known
    <2>3. Refresh(k, v) = Prune(a)
      BY <1>2, <2>1, Zenon DEF Refresh
    <2>4. PICK n : n = Prune(a)
      OBVIOUS
    <2>5. /\ n \in Known
          /\ n.ready = a.ready /\ n.clients = a.clients
          /\ n.departed = a.departed /\ n.pending = a.pending
          /\ n.overflow = a.overflow /\ n.self = a.self /\ n.at = a.at
          /\ n.targets \subseteq a.targets
          /\ \A i \in n.targets : i # Me /\ a.clients[i] # None
          /\ n.whispering <=> (a.whispering /\ n.targets # {})
      <3>1. a \in Known /\ a.ready
        BY <1>2, <2>2, Zenon
      <3> QED BY <2>4, <3>1, PruneKnown
    <2>6. /\ n \in Known
          /\ n.ready = k.ready /\ n.clients = k.clients /\ n.departed = k.departed
          /\ n.pending = k.pending /\ n.overflow = k.overflow /\ n.self = k.self
          /\ (k.at # None => n.at = k.at)
          /\ n.targets \subseteq k.targets
          /\ \A i \in n.targets : i # Me /\ n.clients[i] # None
      BY <2>2, <2>5
    <2>7. n.whispering <=> (k.whispering /\ n.targets # {})
      BY <2>2, <2>5, Zenon
    <2> QED BY <1>2, <2>3, <2>4, <2>6, <2>7, Zenon DEF Refreshed
  <1> QED BY <1>1, <1>2

LEMMA MovedView ==
    ASSUME view \in Directory, NEW i \in Ids, view[i] # None, NEW to \in Channels,
           view' = [view EXCEPT ![i].at = to]
    PROVE  /\ view' \in Directory /\ view'[i] # None /\ view'[i] \in Entry
           /\ view'[i].at = to /\ view'[i].who = view[i].who
           /\ \A j \in Ids \ {i} : view'[j] = view[j]
  <1>1. view[i] \in Entry
    BY DEF Directory
  <1>2. view' = [view EXCEPT ![i] = [who |-> view[i].who, at |-> to]]
    <2>1. [view[i] EXCEPT !.at = to] = [who |-> view[i].who, at |-> to]
      BY <1>1 DEF Entry
    <2>2. [view EXCEPT ![i].at = to] = [view EXCEPT ![i] = [view[i] EXCEPT !.at = to]]
      BY DEF Directory
    <2> QED BY <2>1, <2>2
  <1>3. PICK e \in Entry : e = [who |-> view[i].who, at |-> to]
    BY <1>1 DEF Entry
  <1>4. view' = [view EXCEPT ![i] = e]
    BY <1>2, <1>3
  <1>5. view' \in Directory /\ view'[i] = e /\ \A j \in Ids \ {i} : view'[j] = view[j]
    BY <1>4, Rosters DEF Directory
  <1>6. e # None /\ e.at = to /\ e.who = view[i].who
    BY <1>3, Rosters
  <1> QED BY <1>5, <1>6

-----------------------------------------------------------------------------
(* An event of the server: the view changes at one client, the session applies or
   queues the delta. *)

\* The delta d is what happened to the view.
Happened(d) ==
    /\ view' \in Directory
    /\ \A j \in Ids \ {d.id} : view'[j] = view[j]
    /\ d.kind = "enter" => view'[d.id] = d.entry
    /\ d.kind = "leave" => view'[d.id] = None
    /\ d.kind = "updated" => /\ view[d.id] # None /\ view'[d.id] = view[d.id]
                             /\ d.entry = view[d.id]
    /\ d.kind = "moved" => /\ view[d.id] # None /\ view'[d.id] # None
                           /\ view'[d.id].who = view[d.id].who
    /\ ~dirty' => phase = "welcome" \/ (~dirty /\ d.kind = "updated")

\* What the browser chose for an id that is taken over is forgotten.
Forgotten(d) ==
    /\ \A j \in Ids : chosen'[j] \in {chosen[j], None}
    /\ d.kind = "enter" /\ known.clients[d.id] # None => chosen'[d.id] = None

\* k is what the session knows, but for its own place.
Placed(k) ==
    /\ k.ready = known.ready /\ k.pending = known.pending /\ k.overflow = known.overflow
    /\ k.clients = known.clients /\ k.departed = known.departed
    /\ k.targets = known.targets /\ k.whispering = known.whispering
    /\ phase = "live" => k.self /\ k.at # None /\ k.at = view'[Me].at

LEMMA AnnouncedMore ==
    ASSUME NEW q \in Seq(Event), NEW d \in Event, NEW i \in Ids,
           (Announced(q, i) /\ ~(d.kind = "leave" /\ d.id = i)) \/ (d.kind = "enter" /\ d.id = i)
    PROVE  Announced(Append(q, d), i)
  <1> DEFINE r == Append(q, d)
  <1>1. /\ Len(q) \in Nat /\ DOMAIN q = 1 .. Len(q) /\ DOMAIN r = 1 .. Len(q) + 1
        /\ r[Len(q) + 1] = d
        /\ \A m \in DOMAIN q : r[m] = q[m]
    OBVIOUS
  <1>2. CASE d.kind = "enter" /\ d.id = i
    <2>1. /\ Len(q) + 1 \in DOMAIN r
          /\ \A m \in DOMAIN r : ~(m > Len(q) + 1)
      BY <1>1
    <2> HIDE DEF r
    <2> QED BY <1>1, <1>2, <2>1 DEF Announced, r
  <1>3. CASE Announced(q, i) /\ ~(d.kind = "leave" /\ d.id = i)
    <2>1. PICK e \in DOMAIN q : /\ q[e].kind = "enter" /\ q[e].id = i
                                /\ \A m \in DOMAIN q : m > e => ~(q[m].kind = "leave" /\ q[m].id = i)
      BY <1>3 DEF Announced
    <2>2. e \in DOMAIN r /\ r[e] = q[e]
      BY <1>1
    <2>3. \A m \in DOMAIN r : m \in DOMAIN q \/ m = Len(q) + 1
      BY <1>1
    <2>4. \A m \in DOMAIN r : m > e => ~(r[m].kind = "leave" /\ r[m].id = i)
      BY <1>1, <1>3, <2>1, <2>3
    <2> HIDE DEF r
    <2> QED BY <2>1, <2>2, <2>4 DEF Announced, r
  <1> QED BY <1>2, <1>3

LEMMA EventStep ==
    ASSUME IInv, Connected, phase' = phase, NEW d \in Event, NEW k \in Known,
           Happened(d), Forgotten(d), Placed(k), Receive(d, k)
    PROVE  known' \in Known /\ RosterInv' /\ WhisperInv'
  <1>1. /\ known \in Known /\ view \in Directory
        /\ RosterInv /\ WhisperInv
    BY DEF IInv, Typed
  <1>2. /\ d.kind \in {"enter", "leave", "moved", "updated"} /\ d.id \in Ids
        /\ d.kind = "leave" => d.id # Me
        /\ d.kind # "leave" => d.entry \in Entry
    BY DEF Event, Delta
  <1>3. PICK a : a = ApplyOrQueue(k, d)
    OBVIOUS
  <1>4. PICK n : n = Refresh(a, view')
    OBVIOUS
  <1>5. view' \in Directory
    BY DEF Happened
  <1>6. known' = n
    BY <1>3, <1>4, Zenon DEF Receive, Learn
  <1>7. ~k.ready => /\ a \in Known /\ ~a.ready
                    /\ a.clients = k.clients /\ a.departed = k.departed
                    /\ a.self = k.self /\ a.at = k.at
                    /\ a.targets = k.targets /\ a.whispering = k.whispering
                    /\ a.overflow \/ (a.pending = Append(k.pending, d) /\ ~k.overflow)
    BY <1>3, QueueKnown
  <1>8. k.ready => a \in Known /\ SameBut(a, k) /\ DeltaEffect(a, k, d)
    <2> SUFFICES ASSUME k.ready PROVE a \in Known /\ SameBut(a, k) /\ DeltaEffect(a, k, d)
      OBVIOUS
    <2>1. a = ApplyDelta(k, d)
      BY <1>3 DEF ApplyOrQueue
    <2> QED BY <2>1, DeltaKnown
  <1>9. Refreshed(n, a, view')
    BY <1>4, <1>5, <1>7, <1>8, RefreshKnown
  <1>10. known' \in Known
    BY <1>6, <1>9 DEF Refreshed
  <1>11. k.departed \subseteq Ids /\ a.departed \subseteq Ids /\ n.departed \subseteq Ids
         /\ a.targets \subseteq Ids /\ n.targets \subseteq Ids /\ a.ready \in BOOLEAN /\ k.ready \in BOOLEAN
    BY <1>7, <1>8, <1>9 DEF Refreshed, Known
  <1>12. phase \in {"welcome", "join", "restore", "live"}
    BY DEF Connected
  <1>13. known.ready <=> phase \in {"join", "restore", "live"}
    BY <1>1 DEF RosterInv
  <1>14. /\ known.ready => known.pending = <<>>
         /\ ~known.ready => known.departed = {}
         /\ Me \notin known.departed
         /\ \A i \in known.departed : known.clients[i] = None
    BY <1>1 DEF RosterInv
  <1>15. \A i \in Ids : view[i] # None => view'[i] # None \/ d.kind = "leave" \/ i # d.id
    BY <1>2, Rosters DEF Happened
  <1>16. CASE phase = "welcome"
    <2>1. ~known.ready
      BY <1>13, <1>16
    <2>2. ~k.ready
      BY <2>1, Zenon DEF Placed
    <2>3. n = a /\ ~n.ready
      BY <1>7, <1>9, <2>2, Zenon DEF Refreshed
    <2>4. n.clients = known.clients /\ n.departed = {} /\ n.targets = known.targets
      BY <1>7, <1>14, <2>1, <2>2, <2>3 DEF Placed
    <2>5. n.whispering = known.whispering
      BY <1>7, <2>2, <2>3, Zenon DEF Placed
    <2>6. n.overflow \/ (n.pending = Append(known.pending, d) /\ ~known.overflow)
      BY <1>7, <2>2, <2>3, Zenon DEF Placed
    <2>7. ASSUME ~n.overflow, NEW i \in Ids, view'[i] # None PROVE Announced(n.pending, i)
      <3>1. n.pending = Append(known.pending, d) /\ ~known.overflow
        BY <2>6, <2>7, Zenon
      <3>2. known.pending \in Seq(Event)
        BY <1>1 DEF Known
      <3>3. \A j \in Ids : view[j] # None => Announced(known.pending, j)
        BY <1>1, <1>16, <3>1 DEF RosterInv
      <3> QED BY <1>2, <2>7, <3>1, <3>2, <3>3, AnnouncedMore DEF Happened
    <2>8. RosterInv'
      BY <1>6, <1>16, <2>3, <2>4, <2>7 DEF RosterInv
    <2>9. WhisperInv'
      BY <1>1, <1>6, <1>16, <2>4, <2>5, Zenon DEF WhisperInv
    <2> QED BY <1>10, <2>8, <2>9
  <1>17. CASE phase \in {"join", "restore", "live"}
    <2>1. known.ready /\ k.ready
      BY <1>13, <1>17, Zenon DEF Placed
    <2>2. DeltaEffect(n, known, d)
      BY <1>8, <1>9, <2>1 DEF DeltaEffect, Refreshed, Placed
    <2>3. n.ready /\ n.pending = <<>> /\ n.overflow = known.overflow
      <3>1. a.ready /\ a.pending = <<>> /\ a.overflow = k.overflow
        BY <1>8, <1>14, <2>1, Zenon DEF SameBut, Placed
      <3> QED BY <1>9, <3>1, Zenon DEF Refreshed, Placed
    <2>4. Me \notin n.departed
      BY <1>2, <1>14, <2>2, ClientsAssumption DEF DeltaEffect
    <2>5. \A i \in n.departed : n.clients[i] = None
      BY <1>2, <1>11, <1>14, <2>2 DEF DeltaEffect
    <2>6. ASSUME ~known.overflow, NEW i \in n.departed PROVE view'[i] = None
      <3>1. i \in known.departed => view[i] = None
        BY <1>1, <2>1, <2>6 DEF RosterInv
      <3> QED BY <1>2, <1>11, <2>2, <3>1 DEF DeltaEffect, Happened
    <2>7. ASSUME phase \in {"restore", "live"}, NEW i \in Ids,
                 view'[i] # None, n.clients[i] # None
          PROVE  n.clients[i].who = view'[i].who
      <3>1. \A j \in Ids : view[j] # None /\ known.clients[j] # None =>
               known.clients[j].who = view[j].who
        BY <1>1, <2>7 DEF RosterInv
      <3> QED BY <1>2, <1>14, <2>2, <2>7, <3>1 DEF DeltaEffect, Happened
    <2>8. ASSUME phase \in {"restore", "live"}, ~dirty', NEW i \in Ids \ n.departed
          PROVE  n.clients[i] = view'[i]
      <3>1. ~dirty /\ d.kind = "updated"
        BY <2>8 DEF Happened
      <3>2. \A j \in Ids \ known.departed : known.clients[j] = view[j]
        BY <1>1, <2>8, <3>1 DEF RosterInv
      <3> QED BY <1>2, <2>2, <3>1, <3>2 DEF DeltaEffect, Happened
    <2>9. phase = "live" => n.self /\ n.at = view'[Me].at
      <3>1. phase = "live" => a.self /\ a.at # None /\ a.at = view'[Me].at
        BY <1>8, <2>1, Zenon DEF SameBut, Placed
      <3> QED BY <1>9, <3>1, Zenon DEF Refreshed
    <2>10. RosterInv'
      BY <1>6, <1>17, <2>3, <2>4, <2>5, <2>6, <2>7, <2>8, <2>9 DEF RosterInv
    <2>11. /\ n.targets \subseteq known.targets
           /\ \A i \in n.targets : i # Me /\ n.clients[i] # None
      BY <1>8, <1>9, <2>1 DEF Refreshed, SameBut, Placed
    <2>12. n.whispering <=> (known.whispering /\ n.targets # {})
      <3>1. a.ready /\ (a.whispering <=> known.whispering)
        BY <1>8, <2>1, Zenon DEF SameBut, Placed
      <3> QED BY <1>9, <3>1, Zenon DEF Refreshed
    <2>13. ASSUME phase = "live"
           PROVE  told' = [targets |-> n.targets, whispering |-> n.whispering]
      <3>1. CASE n.targets # known.targets
        BY <1>3, <1>4, <2>13, <3>1, Zenon DEF Receive, Learn, Published
      <3>2. CASE n.targets = known.targets
        <4>1. told' = told
          BY <1>3, <1>4, <3>2, Zenon DEF Receive, Learn
        <4>2. told = [targets |-> known.targets, whispering |-> known.whispering]
              /\ (known.whispering => known.targets # {})
          BY <1>1, <2>13, Zenon DEF WhisperInv
        <4>3. n.whispering <=> known.whispering
          BY <2>12, <3>2, <4>2, Zenon
        <4>4. n.whispering \in BOOLEAN /\ known.whispering \in BOOLEAN
          BY <1>1, <1>6, <1>10 DEF Known
        <4>5. n.whispering = known.whispering
          BY <4>3, <4>4, SameTruth, Zenon
        <4> QED BY <3>2, <4>1, <4>2, <4>5, Zenon
      <3> QED BY <3>1, <3>2
    <2>14. ASSUME NEW i \in n.targets PROVE chosen'[i] \in {n.clients[i].who, None}
      <3>1. i \in known.targets /\ i \in Ids /\ n.clients[i] # None /\ phase = "live"
            /\ known.clients[i] # None /\ chosen[i] \in {known.clients[i].who, None}
        BY <1>1, <1>11, <2>11 DEF WhisperInv
      <3>2. chosen'[i] \in {chosen[i], None}
        BY <3>1 DEF Forgotten
      <3>3. CASE i = d.id
        <4>1. d.kind = "updated" => n.clients[i].who = known.clients[i].who
          <5> SUFFICES ASSUME d.kind = "updated" PROVE n.clients[i].who = known.clients[i].who
            OBVIOUS
          <5>1. view[i] # None /\ d.entry = view[i]
            BY <3>3 DEF Happened
          <5>2. known.clients[i].who = view[i].who
            BY <1>1, <3>1, <5>1 DEF RosterInv
          <5> QED BY <2>2, <3>3, <5>1, <5>2 DEF DeltaEffect
        <4>2. d.kind = "moved" => n.clients[i].who = known.clients[i].who
          BY <2>2, <3>1, <3>3 DEF DeltaEffect
        <4>3. d.kind # "leave"
          BY <2>2, <3>1, <3>3 DEF DeltaEffect
        <4>4. d.kind = "enter" => chosen'[i] = None
          BY <3>1, <3>3 DEF Forgotten
        <4> QED BY <1>2, <3>1, <3>2, <4>1, <4>2, <4>3, <4>4
      <3>4. CASE i # d.id
        <4>1. n.clients[i] = known.clients[i]
          BY <2>2, <3>1, <3>4 DEF DeltaEffect
        <4> QED BY <3>1, <3>2, <4>1
      <3> QED BY <3>3, <3>4
    <2>15. phase # "live" => n.targets = {}
      BY <1>1, <2>11 DEF WhisperInv
    <2>16. WhisperInv'
      BY <1>6, <2>11, <2>12, <2>13, <2>14, <2>15, Zenon DEF WhisperInv
    <2> QED BY <1>10, <2>10, <2>16
  <1> QED BY <1>12, <1>16, <1>17

-----------------------------------------------------------------------------
(* A view that is read while the session runs, and the session that goes live. *)

LEMMA ViewStep ==
    ASSUME IInv, phase \in {"join", "restore", "live"}, phase' = phase,
           view' = view, chosen' = chosen,
           NEW k \in Known, k.ready, k.pending = <<>>,
           k.overflow = known.overflow, k.departed = known.departed,
           k.self = known.self, k.at = known.at,
           k.targets = known.targets, k.whispering = known.whispering,
           \A i \in k.departed : k.clients[i] = None,
           phase \in {"restore", "live"} =>
              \A i \in Ids : view[i] # None /\ k.clients[i] # None =>
                 k.clients[i].who = view[i].who,
           phase \in {"restore", "live"} /\ ~dirty' =>
              \A i \in Ids \ k.departed : k.clients[i] = view[i],
           phase = "live" =>
              \A i \in Ids : known.clients[i] # None /\ k.clients[i] # None =>
                 k.clients[i].who = known.clients[i].who,
           Learn(Refresh(k, view))
    PROVE  known' \in Known /\ RosterInv' /\ WhisperInv'
  <1>1. /\ known \in Known /\ view \in Directory
        /\ RosterInv /\ WhisperInv
    BY DEF IInv, Typed
  <1>2. PICK n : n = Refresh(k, view)
    OBVIOUS
  <1>3. Refreshed(n, k, view)
    BY <1>1, <1>2, RefreshKnown
  <1>4. known' = n /\ n \in Known
    BY <1>2, <1>3, Zenon DEF Learn, Refreshed
  <1>5. /\ n.ready /\ n.pending = <<>> /\ n.overflow = known.overflow /\ n.self = known.self
        /\ n.clients = k.clients /\ n.departed = known.departed
        /\ known.at # None => n.at = known.at
    BY <1>3, Zenon DEF Refreshed
  <1>6. /\ Me \notin known.departed
        /\ known.ready /\ ~known.overflow => \A i \in known.departed : view[i] = None
        /\ known.ready
        /\ phase = "live" => known.self /\ known.at = view[Me].at
    BY <1>1 DEF RosterInv
  <1>7. phase = "live" => view[Me].at # None
    <2>1. phase = "live" => view[Me] # None
      BY DEF IInv, ViewInv
    <2> QED BY <1>1, <2>1, HereTyped
  <1>8. RosterInv'
    <2>1. phase = "live" => n.self /\ n.at = view[Me].at
      BY <1>5, <1>6, <1>7, Zenon
    <2>2. \A i \in n.departed : n.clients[i] = None
      BY <1>5
    <2>3. phase \in {"restore", "live"} =>
             \A i \in Ids : view[i] # None /\ n.clients[i] # None =>
                n.clients[i].who = view[i].who
      BY <1>5
    <2>4. phase \in {"restore", "live"} /\ ~dirty' =>
             \A i \in Ids \ n.departed : n.clients[i] = view[i]
      BY <1>5
    <2>5. ~n.overflow => \A i \in n.departed : view[i] = None
      BY <1>5, <1>6, Zenon
    <2> QED BY <1>4, <1>5, <1>6, <2>1, <2>2, <2>3, <2>4, <2>5 DEF RosterInv
  <1>9. WhisperInv'
    <2>1. /\ n.targets \subseteq known.targets
          /\ \A i \in n.targets : i # Me /\ n.clients[i] # None
      BY <1>3, <1>5 DEF Refreshed
    <2>2. n.whispering <=> (known.whispering /\ n.targets # {})
      BY <1>3, Zenon DEF Refreshed
    <2>3. ASSUME phase = "live"
          PROVE  told' = [targets |-> n.targets, whispering |-> n.whispering]
      <3>1. CASE n.targets # known.targets
        BY <1>2, <2>3, <3>1, Zenon DEF Learn, Published
      <3>2. CASE n.targets = known.targets
        <4>1. told' = told
          BY <1>2, <3>2, Zenon DEF Learn
        <4>2. told = [targets |-> known.targets, whispering |-> known.whispering]
              /\ (known.whispering => known.targets # {})
          BY <1>1, <2>3, Zenon DEF WhisperInv
        <4>3. n.whispering <=> known.whispering
          BY <2>2, <3>2, <4>2, Zenon
        <4>4. n.whispering \in BOOLEAN /\ known.whispering \in BOOLEAN
          BY <1>1, <1>4 DEF Known
        <4>5. n.whispering = known.whispering
          BY <4>3, <4>4, SameTruth, Zenon
        <4> QED BY <3>2, <4>1, <4>2, <4>5, Zenon
      <3> QED BY <3>1, <3>2
    <2>4. ASSUME NEW i \in n.targets PROVE chosen'[i] \in {n.clients[i].who, None}
      <3>1. i \in known.targets /\ i \in Ids /\ n.clients[i] # None /\ phase = "live"
            /\ known.clients[i] # None /\ chosen[i] \in {known.clients[i].who, None}
        BY <1>1, <2>1 DEF WhisperInv, Known
      <3> QED BY <1>5, <3>1
    <2>5. phase # "live" => n.targets = {}
      BY <1>1, <2>1 DEF WhisperInv
    <2> QED BY <1>4, <2>1, <2>2, <2>3, <2>4, <2>5, Zenon DEF WhisperInv
  <1> QED BY <1>4, <1>8, <1>9

LEMMA GoLiveStep ==
    ASSUME NEW k \in Known, NEW v \in Directory, view' = v, v[Me] # None,
           chosen \in [Ids -> People \cup {None}],
           k.ready, k.pending = <<>>, k.targets = {}, ~k.whispering,
           Me \notin k.departed,
           \A i \in k.departed : k.clients[i] = None,
           ~k.overflow => \A i \in k.departed : v[i] = None,
           \A i \in Ids : v[i] # None /\ k.clients[i] # None => k.clients[i].who = v[i].who,
           ~dirty' => \A i \in Ids \ k.departed : k.clients[i] = v[i],
           GoLive(k, v)
    PROVE  known' \in Known /\ RosterInv' /\ WhisperInv'
  <1> DEFINE m == [k EXCEPT !.self = TRUE, !.at = Here(v),
                            !.clients[Me] = IF @ = None THEN v[Me] ELSE @]
  <1>1. k.clients \in Directory /\ v[Me] \in Entry
    BY ClientsAssumption DEF Directory, Known
  <1>2. Here(v) = v[Me].at /\ Here(v) \in Channels /\ Here(v) # None
    BY HereTyped
  <1>3. PICK e \in Entry : e = IF k.clients[Me] = None THEN v[Me] ELSE k.clients[Me]
    BY <1>1, ClientsAssumption DEF Directory
  <1>4. PICK c \in Directory : c = [k.clients EXCEPT ![Me] = e]
    BY <1>1, <1>3, ClientsAssumption, Rosters
  <1>5. m = [k EXCEPT !.self = TRUE, !.at = Here(v), !.clients = c]
    BY <1>3, <1>4 DEF Known
  <1>6. /\ c[Me] = e /\ \A i \in Ids \ {Me} : c[i] = k.clients[i]
        /\ c[Me].who = v[Me].who
        /\ k.clients[Me] = v[Me] => c[Me] = v[Me]
        /\ c[Me] # None
    BY <1>1, <1>3, <1>4, ClientsAssumption, Rosters DEF Directory
  <1>7. /\ m \in Known /\ m.ready /\ m.pending = <<>> /\ m.overflow = k.overflow
        /\ m.self /\ m.at = v[Me].at /\ m.at # None
        /\ m.clients = c /\ m.departed = k.departed
        /\ m.targets = {} /\ ~m.whispering
    <2> HIDE DEF m
    <2> QED BY <1>2, <1>5 DEF Known
  <1>8. known' = Refresh(m, v)
    BY Zenon DEF GoLive
  <1>9. told' = [targets |-> known'.targets, whispering |-> known'.whispering] /\ phase' = "live"
    BY Zenon DEF GoLive
  <1> HIDE DEF m
  <1>10. Refreshed(known', m, v)
    BY <1>7, <1>8, RefreshKnown
  <1>11. /\ known' \in Known /\ known'.ready /\ known'.pending = <<>>
         /\ known'.overflow = k.overflow
         /\ known'.self /\ known'.at = v[Me].at
         /\ known'.clients = c /\ known'.departed = k.departed
         /\ known'.targets = {}
    <2>1. known'.targets = {}
      BY <1>7, <1>10 DEF Refreshed
    <2> QED BY <1>7, <1>10, <2>1, Zenon DEF Refreshed
  <1>12. ~known'.whispering
    BY <1>7, <1>10, Zenon DEF Refreshed
  <1>13. WhisperInv'
    <2>1. \A i \in known'.targets : /\ i # Me /\ known'.clients[i] # None
                                    /\ chosen'[i] \in {known'.clients[i].who, None}
      BY <1>11
    <2> QED BY <1>9, <1>11, <1>12, <2>1, Zenon DEF WhisperInv
  <1>14. RosterInv'
    <2>1. \A i \in k.departed : i # Me /\ i \in Ids
      BY DEF Known
    <2>2. \A i \in known'.departed : known'.clients[i] = None
      BY <1>6, <1>11, <2>1
    <2>3. \A i \in Ids : v[i] # None /\ known'.clients[i] # None =>
             known'.clients[i].who = v[i].who
      BY <1>6, <1>11
    <2>4. ~dirty' => \A i \in Ids \ known'.departed : known'.clients[i] = v[i]
      BY <1>6, <1>11, <2>1
    <2>5. ~known'.overflow => \A i \in known'.departed : v[i] = None
      BY <1>11, Zenon
    <2>6. Me \notin known'.departed
      BY <1>11
    <2> QED BY <1>9, <1>11, <2>2, <2>3, <2>4, <2>5, <2>6 DEF RosterInv
  <1> QED BY <1>11, <1>13, <1>14

-----------------------------------------------------------------------------
(* Each action preserves the invariant: the connection. *)

LEMMA ScheduledLoader ==
    ASSUME NEW a \in Loader, NEW live \in BOOLEAN
    PROVE  /\ Scheduled(a, live) \in Loader
           /\ Scheduled(a, live).batch = a.batch /\ Scheduled(a, live).cache = a.cache
  BY DEF Scheduled, Loader

\* The batch and the cache are left alone.
AvatarsKept ==
    avatars' \in Loader /\ avatars'.batch = avatars.batch /\ avatars'.cache = avatars.cache
    /\ late' = late /\ asked' = asked

LEMMA AvatarsKeptInv ==
    ASSUME IInv, AvatarsKept
    PROVE  AvatarInv' /\ avatars' \in Loader /\ late' \subseteq Loading
  BY DEF IInv, Typed, AvatarInv, AvatarsBelong, AvatarsKept

LEMMA AvatarsScheduled ==
    ASSUME IInv, NEW live \in BOOLEAN, avatars' = Scheduled(avatars, live),
           UNCHANGED <<late, asked>>
    PROVE  AvatarsKept
  BY ScheduledLoader DEF IInv, Typed, AvatarsKept

LEMMA AvatarsUnchanged ==
    ASSUME IInv, UNCHANGED <<avatars, late, asked>>
    PROVE  AvatarsKept
  BY DEF IInv, Typed, AvatarsKept

LEMMA NothingKnown ==
    /\ Unknown \in Known /\ NoAvatars \in Loader
    /\ Unknown.ready = FALSE /\ Unknown.clients = Nowhere /\ Unknown.departed = {}
    /\ Unknown.pending = <<>> /\ Unknown.targets = {} /\ Unknown.whispering = FALSE
    /\ NoAvatars.batch = <<>> /\ \A p \in Pictured : NoAvatars.cache[p] = "unknown"
  <1>1. <<>> \in Seq(Event) /\ <<>> \in Seq(Loading)
    OBVIOUS
  <1>2. Unknown \in Known
    BY <1>1, EmptyDirectory DEF Unknown, Known
  <1>3. NoAvatars \in Loader
    BY <1>1 DEF NoAvatars, Loader, Cache
  <1> QED BY <1>2, <1>3 DEF Unknown, NoAvatars

LEMMA InitStep == Init => IInv
  <1> SUFFICES ASSUME Init PROVE IInv
    OBVIOUS
  <1>1. Typed
    <2>1. <<>> \in Seq(Channels) /\ [i \in Ids |-> None] \in [Ids -> People \cup {None}]
      OBVIOUS
    <2>2. known \in Known /\ avatars \in Loader /\ view \in Directory
      BY EmptyDirectory, NothingKnown DEF Init
    <2> QED BY <2>1, <2>2 DEF Init, Typed, Phases
  <1>2. ViewInv
    BY EmptyDirectory DEF Init, ViewInv
  <1>3. RosterInv
    BY EmptyDirectory, NothingKnown DEF Init, RosterInv
  <1>4. WhisperInv
    BY NothingKnown DEF Init, WhisperInv
  <1>5. AvatarInv
    BY NothingKnown DEF Init, AvatarInv, AvatarsBelong
  <1> QED BY <1>1, <1>2, <1>3, <1>4, <1>5 DEF IInv

LEMMA ConnectStep == IInv /\ Connect => IInv'
  <1> SUFFICES ASSUME IInv, Connect PROVE IInv'
    OBVIOUS
  <1>1. Typed'
    BY DEF IInv, Typed, Connect, Phases, switching
  <1>2. ViewInv'
    BY DEF IInv, ViewInv, Connect, switching
  <1>3. RosterInv'
    BY DEF IInv, RosterInv, Connect
  <1>4. WhisperInv'
    BY DEF IInv, WhisperInv, Connect
  <1>5. AvatarInv'
    BY DEF IInv, AvatarInv, AvatarsBelong, Connect
  <1> QED BY <1>1, <1>2, <1>3, <1>4, <1>5 DEF IInv

LEMMA ViewReadyStep == IInv /\ ViewReady => IInv'
  <1> SUFFICES ASSUME IInv, ViewReady PROVE IInv'
    OBVIOUS
  <1>1. /\ known \in Known /\ view \in Directory /\ Typed
        /\ RosterInv /\ WhisperInv /\ ViewInv
    BY DEF IInv, Typed
  <1>2. /\ phase = "welcome" /\ phase' = "join" /\ view[Me] # None /\ dirty' = FALSE
        /\ UNCHANGED <<view, preferred, moves, chosen, avatars, late, asked>>
    BY DEF ViewReady, switching
  <1>3. known.departed = {} /\ known.targets = {} /\ ~known.whispering
    BY <1>1, <1>2 DEF RosterInv, WhisperInv
  <1>4. PICK s : s = ApplySnapshot(known, view)
    OBVIOUS
  <1>5. /\ s \in Known /\ SameBut(s, Replaced(known, view)) /\ Me \notin s.departed
        /\ \A i \in s.departed : s.clients[i] = None
        /\ \A i \in Ids : Announced(known.pending, i) => i \notin s.departed
    BY <1>1, <1>3, <1>4, FirstSnapshot
  <1>6. /\ s.ready /\ s.pending = <<>> /\ s.overflow = known.overflow
        /\ s.targets = {}
    BY <1>1, <1>3, <1>5, ReplacedKnown, Zenon DEF SameBut
  <1>7. PICK n : n = Refresh(s, view)
    OBVIOUS
  <1>8. Refreshed(n, s, view)
    BY <1>1, <1>5, <1>7, RefreshKnown
  <1>9. known' = n /\ told' = told
    BY <1>2, <1>4, <1>7, Zenon DEF ViewReady, Learn, Published
  <1>10. /\ n \in Known /\ n.ready /\ n.pending = <<>> /\ n.overflow = known.overflow
         /\ n.clients = s.clients /\ n.departed = s.departed
    BY <1>6, <1>8, Zenon DEF Refreshed
  <1>11. n.targets = {}
    BY <1>6, <1>8 DEF Refreshed
  <1>12. ~n.whispering
    BY <1>6, <1>8, <1>11, Zenon DEF Refreshed
  <1>13. Typed'
    BY <1>1, <1>2, <1>9, <1>10 DEF Typed, Phases
  <1>14. ViewInv'
    BY <1>1, <1>2 DEF ViewInv
  <1>15. RosterInv'
    <2>1. ASSUME ~n.overflow, NEW i \in n.departed PROVE view[i] = None
      <3>1. i \in Ids
        BY <1>10 DEF Known
      <3>2. view[i] # None => Announced(known.pending, i)
        BY <1>1, <1>2, <1>10, <2>1, <3>1 DEF RosterInv
      <3> QED BY <1>5, <1>10, <2>1, <3>1, <3>2
    <2>2. Me \notin n.departed /\ \A i \in n.departed : n.clients[i] = None
      BY <1>5, <1>10
    <2> QED BY <1>2, <1>9, <1>10, <2>1, <2>2 DEF RosterInv
  <1>16. WhisperInv'
    BY <1>2, <1>9, <1>11, <1>12 DEF WhisperInv
  <1>17. AvatarInv'
    BY <1>2, AvatarsUnchanged, AvatarsKeptInv
  <1> QED BY <1>13, <1>14, <1>15, <1>16, <1>17 DEF IInv

LEMMA SubscribedStep == IInv /\ Subscribed => IInv'
  <1> SUFFICES ASSUME IInv, Subscribed PROVE IInv'
    OBVIOUS
  <1>1. /\ known \in Known /\ view \in Directory /\ Typed
        /\ RosterInv /\ WhisperInv /\ ViewInv
    BY DEF IInv, Typed
  <1>2. PICK s : s = ApplySnapshot(known, view)
    OBVIOUS
  <1>3. PICK k : k = Refresh(s, view)
    OBVIOUS
  <1>4. /\ phase = "join"
        /\ IF preferred \in {None, Here(view)}
           THEN GoLive(k, view) /\ UNCHANGED target
           ELSE /\ phase' = "restore" /\ target' = preferred
                /\ known' = k /\ UNCHANGED <<told, avatars>>
        /\ preferred' = IF preferred = None THEN Here(view) ELSE preferred
        /\ UNCHANGED <<view, dirty, moves, chosen, late, asked>>
    BY <1>2, <1>3, Zenon DEF Subscribed, switching
  <1>5. known.ready /\ known.pending = <<>> /\ Me \notin known.departed
        /\ known.targets = {} /\ ~known.whispering
        /\ (~known.overflow => \A i \in known.departed : view[i] = None)
    BY <1>1, <1>4 DEF RosterInv, WhisperInv
  <1>6. s = Replaced(known, view)
    BY <1>1, <1>2, <1>5, LaterSnapshot
  <1>7. /\ s \in Known /\ s.ready /\ s.pending = <<>> /\ s.overflow = known.overflow
        /\ s.departed = known.departed /\ s.targets = known.targets
        /\ \A i \in known.departed : s.clients[i] = None
        /\ \A i \in Ids \ known.departed : s.clients[i] = view[i]
    BY <1>1, <1>6, ReplacedKnown
  <1>8. Refreshed(k, s, view)
    BY <1>1, <1>3, <1>7, RefreshKnown
  <1>9. /\ k \in Known /\ k.ready /\ k.pending = <<>> /\ k.overflow = known.overflow
        /\ k.departed = known.departed
        /\ \A i \in k.departed : k.clients[i] = None
        /\ \A i \in Ids \ k.departed : k.clients[i] = view[i]
    BY <1>7, <1>8, Zenon DEF Refreshed
  <1>10. k.targets = {} /\ ~k.whispering
    <2>1. k.targets = {}
      BY <1>5, <1>7, <1>8 DEF Refreshed
    <2>2. ~s.whispering
      <3>1. Replaced(known, view).whispering = known.whispering
        BY <1>1, ReplacedKnown
      <3> QED BY <1>5, <1>6, <3>1, Zenon
    <2> QED BY <1>8, <2>1, <2>2, Zenon DEF Refreshed
  <1>11. /\ Me \notin k.departed
         /\ ~k.overflow => \A i \in k.departed : view[i] = None
    BY <1>5, <1>9, Zenon
  <1>12. view[Me] # None /\ Here(view) = view[Me].at /\ Here(view) \in Channels
    BY <1>1, <1>4, HereTyped DEF ViewInv
  <1>13. \A i \in Ids : view[i] # None /\ k.clients[i] # None => k.clients[i].who = view[i].who
    BY <1>9
  <1>14. CASE preferred \in {None, Here(view)}
    <2>1. GoLive(k, view)
      BY <1>4, <1>14
    <2>2. known' \in Known /\ RosterInv' /\ WhisperInv'
      <3>1. view' = view /\ chosen \in [Ids -> People \cup {None}]
        BY <1>1, <1>4 DEF Typed
      <3> QED BY <1>1, <1>9, <1>10, <1>11, <1>12, <1>13, <2>1, <3>1, GoLiveStep
    <2>3. AvatarsKept
      BY <1>4, <2>1, AvatarsScheduled DEF GoLive
    <2>4. phase' = "live" /\ preferred' = view[Me].at
      BY <1>4, <1>12, <1>14, <2>1 DEF GoLive
    <2>5. ViewInv'
      BY <1>1, <1>4, <1>12, <2>4 DEF ViewInv
    <2>6. AvatarInv' /\ avatars' \in Loader /\ late' \subseteq Loading
      BY <2>3, AvatarsKeptInv
    <2>7. Typed'
      BY <1>1, <1>4, <1>12, <2>2, <2>4, <2>6 DEF Typed, Phases
    <2> QED BY <2>2, <2>5, <2>6, <2>7 DEF IInv
  <1>15. CASE preferred \notin {None, Here(view)}
    <2>1. phase' = "restore" /\ known' = k /\ UNCHANGED <<told, avatars>> /\ preferred' = preferred
      BY <1>4, <1>15
    <2>2. RosterInv'
      BY <1>4, <1>9, <1>11, <1>13, <2>1 DEF RosterInv
    <2>3. WhisperInv'
      BY <1>10, <2>1, Zenon DEF WhisperInv
    <2>4. ViewInv'
      BY <1>1, <1>4, <1>12, <1>15, <2>1 DEF ViewInv
    <2>5. AvatarInv'
      BY <1>4, <2>1, AvatarsUnchanged, AvatarsKeptInv
    <2>6. Typed'
      BY <1>1, <1>4, <1>9, <2>1 DEF Typed, Phases
    <2> QED BY <2>2, <2>3, <2>4, <2>5, <2>6 DEF IInv
  <1> QED BY <1>14, <1>15

LEMMA RestoredStep == IInv /\ (RestoreAcknowledged \/ RestoreRefused) => IInv'
  <1> SUFFICES ASSUME IInv, RestoreAcknowledged \/ RestoreRefused PROVE IInv'
    OBVIOUS
  <1>1. /\ known \in Known /\ view \in Directory /\ Typed
        /\ RosterInv /\ WhisperInv /\ ViewInv
    BY DEF IInv, Typed
  <1>2. /\ phase = "restore" /\ preferred' \in {preferred, Here(view)} /\ GoLive(known, view)
        /\ UNCHANGED <<view, dirty, moves, chosen, late, asked>>
    BY DEF RestoreAcknowledged, RestoreRefused, PreferredRefused, switching
  <1>3. view[Me] # None /\ Here(view) = view[Me].at /\ Here(view) \in Channels
    BY <1>1, <1>2, HereTyped DEF ViewInv
  <1>4. /\ known.ready /\ known.pending = <<>> /\ Me \notin known.departed
        /\ known.targets = {} /\ ~known.whispering
        /\ \A i \in known.departed : known.clients[i] = None
        /\ ~known.overflow => \A i \in known.departed : view[i] = None
        /\ \A i \in Ids : view[i] # None /\ known.clients[i] # None =>
              known.clients[i].who = view[i].who
        /\ ~dirty => \A i \in Ids \ known.departed : known.clients[i] = view[i]
    BY <1>1, <1>2 DEF RosterInv, WhisperInv
  <1>5. known' \in Known /\ RosterInv' /\ WhisperInv'
    <2>1. view' = view /\ chosen \in [Ids -> People \cup {None}] /\ dirty' = dirty
      BY <1>1, <1>2 DEF Typed
    <2> QED BY <1>1, <1>2, <1>3, <1>4, <2>1, GoLiveStep
  <1>6. phase' = "live" /\ AvatarsKept
    BY <1>2, AvatarsScheduled DEF GoLive
  <1>7. ViewInv'
    BY <1>1, <1>2, <1>3, <1>6 DEF ViewInv
  <1>8. AvatarInv' /\ avatars' \in Loader /\ late' \subseteq Loading
    BY <1>6, AvatarsKeptInv
  <1>9. Typed'
    BY <1>1, <1>2, <1>3, <1>5, <1>6, <1>8 DEF Typed, Phases
  <1> QED BY <1>5, <1>7, <1>8, <1>9 DEF IInv

\* The session's own client is moved from a channel to another.
LEMMA SelfMovedEvent ==
    ASSUME NEW k \in Known, NEW to \in Channels
    PROVE  \E d \in Event, j \in Known :
              /\ d = [kind |-> "moved", id |-> Me, entry |-> [who |-> Us, at |-> to]]
              /\ j = IF k.self THEN [k EXCEPT !.at = to] ELSE k
              /\ SelfMoved(k, to) = ApplyOrQueue(j, d)
              /\ j.ready = k.ready /\ j.pending = k.pending /\ j.overflow = k.overflow
              /\ j.clients = k.clients /\ j.departed = k.departed
              /\ j.targets = k.targets /\ j.whispering = k.whispering
              /\ (k.self => j.self /\ j.at = to)
  <1> DEFINE e == [who |-> Us, at |-> to]
             d == [kind |-> "moved", id |-> Me, entry |-> e]
             j == IF k.self THEN [k EXCEPT !.at = to] ELSE k
  <1>1. e \in Entry
    BY ClientsAssumption DEF Entry
  <1>2. d \in Event /\ d.kind = "moved" /\ d.id = Me
    <2> HIDE DEF e
    <2>1. d \in Delta
      BY <1>1, ClientsAssumption DEF Delta
    <2> QED BY <1>1, <2>1 DEF Event
  <1>3. /\ j \in Known
        /\ j.ready = k.ready /\ j.pending = k.pending /\ j.overflow = k.overflow
        /\ j.clients = k.clients /\ j.departed = k.departed
        /\ j.targets = k.targets /\ j.whispering = k.whispering
        /\ (k.self => j.self /\ j.at = to)
    BY DEF Known
  <1>4. SelfMoved(k, to) = ApplyOrQueue(j, d)
    BY DEF SelfMoved
  <1> HIDE DEF d, j
  <1> QED BY <1>2, <1>3, <1>4 DEF d, j

LEMMA RestoreDroppedStep == IInv /\ RestoreDropped => IInv'
  <1> SUFFICES ASSUME IInv, RestoreDropped PROVE IInv'
    OBVIOUS
  <1>1. /\ known \in Known /\ view \in Directory /\ Typed
        /\ RosterInv /\ WhisperInv /\ ViewInv
    BY DEF IInv, Typed
  <1>2. /\ phase = "dead" /\ phase' = "down" /\ preferred' = Here(view) /\ view' = Nowhere
        /\ UNCHANGED <<dirty, moves, known, told, chosen, avatars, late, asked>>
    BY DEF RestoreDropped, PreferredRefused, switching
  <1>3. Here(view) \in Channels \cup {None}
    BY <1>1, HereTyped
  <1>4. Typed'
    BY <1>1, <1>2, <1>3, EmptyDirectory DEF Typed, Phases
  <1>5. ViewInv'
    BY <1>1, <1>2, EmptyDirectory DEF ViewInv
  <1>6. RosterInv'
    BY <1>1, <1>2, EmptyDirectory DEF RosterInv
  <1>7. WhisperInv'
    BY <1>1, <1>2 DEF WhisperInv
  <1>8. AvatarInv'
    BY <1>2, AvatarsUnchanged, AvatarsKeptInv
  <1> QED BY <1>4, <1>5, <1>6, <1>7, <1>8 DEF IInv

LEMMA DropStep == IInv /\ Drop => IInv'
  <1> SUFFICES ASSUME IInv, Drop PROVE IInv'
    OBVIOUS
  <1>1. /\ known \in Known /\ view \in Directory /\ Typed
        /\ RosterInv /\ WhisperInv /\ ViewInv
    BY DEF IInv, Typed
  <1>2. /\ phase' = IF phase = "restore" THEN "dead" ELSE "down"
        /\ view' = IF phase = "restore" THEN view ELSE Nowhere
        /\ dirty' = FALSE /\ moves' = <<>>
        /\ UNCHANGED <<preferred, told, chosen>>
    BY DEF Drop
  <1>3. Reset \/ (phase = "welcome" /\ UNCHANGED <<known, avatars, late, asked>>)
    BY DEF Drop
  <1>4. ViewInv'
    BY <1>1, <1>2, EmptyDirectory DEF ViewInv
  <1>5. view' \in Directory /\ phase' \in Phases /\ phase' \in {"dead", "down"}
        /\ (phase' = "down" => view' = Nowhere) /\ <<>> \in Seq(Channels)
    BY <1>1, <1>2, EmptyDirectory DEF Phases
  <1>6. CASE Reset
    <2>1. /\ known' = Unknown /\ avatars' = NoAvatars /\ asked' = {}
          /\ late' = late \cup {avatars.batch[n] : n \in {1} \cap DOMAIN avatars.batch}
      BY <1>6 DEF Reset
    <2>2. late' \subseteq Loading
      <3>1. avatars.batch \in Seq(Loading) /\ late \subseteq Loading
        BY <1>1 DEF Typed, Loader
      <3>2. \A n \in DOMAIN avatars.batch : avatars.batch[n] \in Loading
        BY <3>1
      <3> QED BY <2>1, <3>1, <3>2
    <2>3. Typed'
      BY <1>1, <1>2, <1>5, <2>1, <2>2, NothingKnown DEF Typed
    <2>4. RosterInv'
      BY <1>5, <2>1, NothingKnown, EmptyDirectory DEF RosterInv
    <2>5. WhisperInv'
      BY <1>5, <2>1, NothingKnown DEF WhisperInv
    <2>6. AvatarInv'
      BY <2>1, NothingKnown DEF AvatarInv, AvatarsBelong
    <2> QED BY <1>4, <2>3, <2>4, <2>5, <2>6 DEF IInv
  <1>7. CASE phase = "welcome" /\ UNCHANGED <<known, avatars, late, asked>>
    <2>1. Typed'
      BY <1>1, <1>2, <1>5, <1>7 DEF Typed
    <2>2. RosterInv'
      BY <1>1, <1>2, <1>5, <1>7, EmptyDirectory DEF RosterInv
    <2>3. WhisperInv'
      BY <1>1, <1>5, <1>7 DEF WhisperInv
    <2>4. AvatarInv'
      BY <1>7, AvatarsUnchanged, AvatarsKeptInv
    <2> QED BY <1>4, <2>1, <2>2, <2>3, <2>4 DEF IInv
  <1> QED BY <1>3, <1>6, <1>7

-----------------------------------------------------------------------------
(* Each action preserves the invariant: packets of the server. *)

\* What every action on the view has in common.
LEMMA Frame ==
    ASSUME IInv, Connected, UNCHANGED <<phase, moves>>, chosen' \in [Ids -> People \cup {None}],
           view' \in Directory, dirty' \in BOOLEAN,
           preferred' \in Channels \cup {None},
           phase # "welcome" => view'[Me] # None,
           \A i \in Ids : view'[i] # None => (i = Me <=> view'[i].who = Us),
           phase = "restore" => preferred' # None,
           AvatarsKept,
           known' \in Known, RosterInv', WhisperInv'
    PROVE  IInv'
  <1>1. phase' = phase /\ moves' = moves /\ phase \notin {"down", "dead"}
    BY DEF Connected
  <1>2. AvatarInv' /\ avatars' \in Loader /\ late' \subseteq Loading
    BY AvatarsKeptInv
  <1>3. Typed'
    BY <1>1, <1>2 DEF IInv, Typed
  <1>4. ViewInv'
    BY <1>1 DEF IInv, ViewInv
  <1> QED BY <1>2, <1>3, <1>4 DEF IInv

\* The other actions on the view leave what the commands are about alone.
LEMMA AsideFrame ==
    ASSUME Aside
    PROVE  UNCHANGED <<phase, target, moves, executed, crossed, late, asked>>
  BY DEF Aside, switching

LEMMA ViewFacts ==
    ASSUME IInv, Connected
    PROVE  /\ known \in Known /\ view \in Directory /\ dirty \in BOOLEAN
           /\ preferred \in Channels \cup {None}
           /\ chosen \in [Ids -> People \cup {None}] /\ moves \in Seq(Channels)
           /\ phase # "welcome" => view[Me] # None
           /\ \A i \in Ids : view[i] # None => (i = Me <=> view[i].who = Us)
           /\ phase = "restore" => preferred # None
           /\ phase = "live" => known.self /\ known.at = view[Me].at /\ known.at # None
  <1>1. phase \in {"welcome", "join", "restore", "live"}
    BY DEF Connected
  <1>2. view[Me] # None => view[Me].at # None
    BY HereTyped DEF IInv, Typed
  <1> QED BY <1>1, <1>2 DEF IInv, Typed, ViewInv, RosterInv

\* What the session knows is itself, when its own client stays where it is.
LEMMA PlacedSelf ==
    ASSUME IInv, Connected, view'[Me] = view[Me]
    PROVE  Placed(known)
  BY ViewFacts DEF Placed

LEMMA ClientEntersStep == \A i \in Ids, entry \in Entry : IInv /\ ClientEnters(i, entry) => IInv'
  <1> SUFFICES ASSUME NEW i \in Ids, NEW entry \in Entry, IInv, ClientEnters(i, entry)
               PROVE  IInv'
    OBVIOUS
  <1>1. PICK d : d = [kind |-> "enter", id |-> i, entry |-> entry]
    OBVIOUS
  <1>2. PICK k : k = IF i = Me THEN [known EXCEPT !.self = TRUE, !.at = entry.at] ELSE known
    OBVIOUS
  <1>3. /\ Connected /\ view[i] = None /\ (i = Me <=> entry.who = Us)
        /\ view' = [view EXCEPT ![i] = entry]
        /\ dirty' = (phase # "welcome")
        /\ Receive(d, k)
        /\ avatars' = Scheduled(avatars, Published)
        /\ chosen' = IF known.clients[i] = None THEN chosen ELSE [chosen EXCEPT ![i] = None]
        /\ UNCHANGED preferred
        /\ Aside
    BY <1>1, <1>2, Zenon DEF ClientEnters
  <1>4. d \in Event /\ d.kind = "enter" /\ d.id = i /\ d.entry = entry
    BY <1>1 DEF Event, Delta
  <1>5. /\ known \in Known /\ view \in Directory
        /\ preferred \in Channels \cup {None}
        /\ chosen \in [Ids -> People \cup {None}]
        /\ phase # "welcome" => view[Me] # None
        /\ \A j \in Ids : view[j] # None => (j = Me <=> view[j].who = Us)
        /\ phase = "restore" => preferred # None
        /\ phase = "live" => known.self /\ known.at = view[Me].at /\ known.at # None
    BY <1>3, ViewFacts
  <1>6. /\ view' \in Directory /\ view'[i] = entry /\ entry # None
        /\ \A j \in Ids \ {i} : view'[j] = view[j]
    BY <1>3, <1>5, Rosters DEF Directory
  <1>7. Happened(d)
    BY <1>3, <1>4, <1>6 DEF Happened
  <1>8. chosen' \in [Ids -> People \cup {None}] /\ Forgotten(d)
    BY <1>3, <1>4, <1>5 DEF Forgotten
  <1>9. phase # "welcome" => i # Me /\ view'[Me] = view[Me]
    BY <1>3, <1>5, <1>6, ClientsAssumption
  <1>10. k \in Known /\ Placed(k)
    <2>1. CASE i = Me
      <3>1. k = [known EXCEPT !.self = TRUE, !.at = entry.at] /\ entry.at \in Channels
        BY <1>2, <2>1 DEF Entry
      <3>2. phase # "live"
        BY <1>9, <2>1
      <3> QED BY <1>5, <3>1, <3>2 DEF Known, Placed
    <2>2. CASE i # Me
      <3>1. k = known /\ view'[Me] = view[Me]
        BY <1>2, <1>6, <2>2, ClientsAssumption
      <3> QED BY <1>3, <1>5, <3>1, PlacedSelf
    <2> QED BY <2>1, <2>2
  <1>11. known' \in Known /\ RosterInv' /\ WhisperInv'
    <2>1. phase' = phase
      BY <1>3 DEF Aside
    <2> QED BY <1>3, <1>4, <1>7, <1>8, <1>10, <2>1, EventStep
  <1>12. AvatarsKept
    <2>1. Published \in BOOLEAN
      BY DEF Published
    <2> QED BY <1>3, <2>1, AvatarsScheduled DEF Aside
  <1>13. /\ dirty' \in BOOLEAN /\ preferred' = preferred
         /\ phase # "welcome" => view'[Me] # None
         /\ \A j \in Ids : view'[j] # None => (j = Me <=> view'[j].who = Us)
    BY <1>3, <1>5, <1>6, <1>9
  <1> QED BY <1>3, <1>5, <1>6, <1>8, <1>11, <1>12, <1>13, AsideFrame, Frame

LEMMA ClientLeavesStep == \A i \in Ids : IInv /\ ClientLeaves(i) => IInv'
  <1> SUFFICES ASSUME NEW i \in Ids, IInv, ClientLeaves(i) PROVE IInv'
    OBVIOUS
  <1>1. PICK d : d = [kind |-> "leave", id |-> i, entry |-> None]
    OBVIOUS
  <1>2. /\ Connected /\ i # Me /\ view[i] # None
        /\ view' = [view EXCEPT ![i] = None]
        /\ dirty' = (phase # "welcome")
        /\ Receive(d, known)
        /\ UNCHANGED <<preferred, avatars, chosen>> /\ Aside
    BY <1>1, Zenon DEF ClientLeaves, Unmoved
  <1>3. d \in Event /\ d.kind = "leave" /\ d.id = i
    BY <1>1, <1>2 DEF Event, Delta
  <1>4. /\ known \in Known /\ view \in Directory
        /\ preferred \in Channels \cup {None}
        /\ chosen \in [Ids -> People \cup {None}]
        /\ phase # "welcome" => view[Me] # None
        /\ \A j \in Ids : view[j] # None => (j = Me <=> view[j].who = Us)
        /\ phase = "restore" => preferred # None
    BY <1>2, ViewFacts
  <1>5. /\ view' \in Directory /\ view'[i] = None /\ view'[Me] = view[Me]
        /\ \A j \in Ids \ {i} : view'[j] = view[j]
    BY <1>2, <1>4, Rosters, ClientsAssumption DEF Directory
  <1>6. Happened(d) /\ Forgotten(d)
    BY <1>2, <1>3, <1>5 DEF Happened, Forgotten
  <1>7. known' \in Known /\ RosterInv' /\ WhisperInv'
    <2>1. phase' = phase /\ Placed(known)
      BY <1>2, <1>5, PlacedSelf DEF Aside
    <2> QED BY <1>2, <1>3, <1>4, <1>6, <2>1, EventStep
  <1>8. AvatarsKept
    BY <1>2, AvatarsUnchanged DEF Aside
  <1>9. /\ dirty' \in BOOLEAN /\ preferred' = preferred /\ chosen' = chosen
        /\ phase # "welcome" => view'[Me] # None
        /\ \A j \in Ids : view'[j] # None => (j = Me <=> view'[j].who = Us)
    BY <1>2, <1>4, <1>5
  <1> QED BY <1>2, <1>4, <1>5, <1>7, <1>8, <1>9, AsideFrame, Frame

LEMMA ClientVanishesStep == \A i \in Ids : IInv /\ ClientVanishes(i) => IInv'
  <1> SUFFICES ASSUME NEW i \in Ids, IInv, ClientVanishes(i) PROVE IInv'
    OBVIOUS
  <1>1. /\ Connected /\ i # Me /\ view[i] # None
        /\ view' = [view EXCEPT ![i] = None]
        /\ dirty' = (phase # "welcome")
        /\ UNCHANGED <<preferred, known, told, avatars, chosen>> /\ Aside
    BY DEF ClientVanishes, Unmoved
  <1>2. /\ known \in Known /\ view \in Directory
        /\ preferred \in Channels \cup {None}
        /\ chosen \in [Ids -> People \cup {None}]
        /\ phase # "welcome" => view[Me] # None
        /\ \A j \in Ids : view[j] # None => (j = Me <=> view[j].who = Us)
        /\ phase = "restore" => preferred # None
        /\ RosterInv /\ WhisperInv /\ phase' = phase
    BY <1>1, ViewFacts DEF IInv, Aside
  <1>3. /\ view' \in Directory /\ view'[i] = None /\ view'[Me] = view[Me]
        /\ \A j \in Ids \ {i} : view'[j] = view[j]
    BY <1>1, <1>2, Rosters, ClientsAssumption DEF Directory
  <1>4. \A j \in Ids : view'[j] # None => view[j] # None /\ view'[j] = view[j]
    BY <1>3
  <1>5. RosterInv'
    <2>1. \A j \in known.departed : j \in Ids
      BY <1>2 DEF Known
    <2> QED BY <1>1, <1>2, <1>3, <1>4, <2>1 DEF RosterInv
  <1>6. WhisperInv'
    BY <1>1, <1>2 DEF WhisperInv
  <1>7. AvatarsKept
    BY <1>1, AvatarsUnchanged DEF Aside
  <1>8. /\ dirty' \in BOOLEAN /\ preferred' = preferred /\ chosen' = chosen /\ known' = known
        /\ phase # "welcome" => view'[Me] # None
        /\ \A j \in Ids : view'[j] # None => (j = Me <=> view'[j].who = Us)
    BY <1>1, <1>2, <1>3, <1>4
  <1> QED BY <1>1, <1>2, <1>3, <1>5, <1>6, <1>7, <1>8, AsideFrame, Frame

LEMMA ClientMovesStep == \A i \in Ids, to \in Channels : IInv /\ ClientMoves(i, to) => IInv'
  <1> SUFFICES ASSUME NEW i \in Ids, NEW to \in Channels, IInv, ClientMoves(i, to) PROVE IInv'
    OBVIOUS
  <1>1. PICK d : d = [kind |-> "moved", id |-> i, entry |-> view'[i]]
    OBVIOUS
  <1>2. /\ Connected /\ i # Me /\ view[i] # None
        /\ view' = [view EXCEPT ![i].at = to]
        /\ dirty' = (phase # "welcome")
        /\ Receive(d, known)
        /\ UNCHANGED <<preferred, avatars, chosen>> /\ Aside
    BY <1>1, Zenon DEF ClientMoves, Unmoved
  <1>3. /\ known \in Known /\ view \in Directory
        /\ preferred \in Channels \cup {None}
        /\ chosen \in [Ids -> People \cup {None}]
        /\ phase # "welcome" => view[Me] # None
        /\ \A j \in Ids : view[j] # None => (j = Me <=> view[j].who = Us)
        /\ phase = "restore" => preferred # None
    BY <1>2, ViewFacts
  <1>4. /\ view' \in Directory /\ view'[i] # None /\ view'[i] \in Entry
        /\ view'[i].who = view[i].who
        /\ \A j \in Ids \ {i} : view'[j] = view[j]
    BY <1>2, <1>3, MovedView
  <1>5. view'[Me] = view[Me]
    BY <1>2, <1>4, ClientsAssumption
  <1>6. d \in Event /\ d.kind = "moved" /\ d.id = i
    BY <1>1, <1>4 DEF Event, Delta
  <1>7. Happened(d) /\ Forgotten(d)
    BY <1>2, <1>4, <1>6 DEF Happened, Forgotten
  <1>8. known' \in Known /\ RosterInv' /\ WhisperInv'
    <2>1. phase' = phase /\ Placed(known)
      BY <1>2, <1>5, PlacedSelf DEF Aside
    <2> QED BY <1>2, <1>3, <1>6, <1>7, <2>1, EventStep
  <1>9. AvatarsKept
    BY <1>2, AvatarsUnchanged DEF Aside
  <1>10. /\ dirty' \in BOOLEAN /\ preferred' = preferred /\ chosen' = chosen
         /\ phase # "welcome" => view'[Me] # None
         /\ \A j \in Ids : view'[j] # None => (j = Me <=> view'[j].who = Us)
    BY <1>2, <1>3, <1>4, <1>5
  <1> QED BY <1>2, <1>3, <1>4, <1>8, <1>9, <1>10, AsideFrame, Frame

LEMMA ClientUpdatedStep == \A i \in Ids : IInv /\ ClientUpdated(i) => IInv'
  <1> SUFFICES ASSUME NEW i \in Ids, IInv, ClientUpdated(i) PROVE IInv'
    OBVIOUS
  <1>1. PICK d : d = [kind |-> "updated", id |-> i, entry |-> view[i]]
    OBVIOUS
  <1>2. /\ Connected /\ view[i] # None
        /\ Receive(d, known)
        /\ UNCHANGED <<view, dirty, preferred, avatars, chosen>> /\ Aside
    BY <1>1, Zenon DEF ClientUpdated, Unmoved
  <1>3. /\ known \in Known /\ view \in Directory /\ dirty \in BOOLEAN
        /\ preferred \in Channels \cup {None}
        /\ chosen \in [Ids -> People \cup {None}]
        /\ phase # "welcome" => view[Me] # None
        /\ \A j \in Ids : view[j] # None => (j = Me <=> view[j].who = Us)
        /\ phase = "restore" => preferred # None
    BY <1>2, ViewFacts
  <1>4. view[i] \in Entry
    BY <1>2, <1>3 DEF Directory
  <1>5. d \in Event /\ d.kind = "updated" /\ d.id = i /\ d.entry = view[i]
    BY <1>1, <1>4 DEF Event, Delta
  <1>6. Happened(d) /\ Forgotten(d)
    BY <1>2, <1>3, <1>5 DEF Happened, Forgotten
  <1>7. known' \in Known /\ RosterInv' /\ WhisperInv'
    <2>1. phase' = phase /\ Placed(known)
      BY <1>2, PlacedSelf DEF Aside
    <2> QED BY <1>2, <1>3, <1>5, <1>6, <2>1, EventStep
  <1>8. AvatarsKept
    BY <1>2, AvatarsUnchanged DEF Aside
  <1> QED BY <1>2, <1>3, <1>7, <1>8, AsideFrame, Frame

\* The session's own client is moved: what its session knows stands for its place.
LEMMA SelfMovedStep ==
    ASSUME IInv, Connected, phase' = phase, view[Me] # None, NEW to \in Channels,
           view' = [view EXCEPT ![Me].at = to],
           ~dirty' => phase = "welcome",
           chosen' = chosen,
           Learn(Refresh(SelfMoved(known, to), view'))
    PROVE  known' \in Known /\ RosterInv' /\ WhisperInv'
  <1>1. /\ known \in Known /\ view \in Directory
        /\ phase = "live" => known.self /\ known.at = view[Me].at /\ known.at # None
    BY ViewFacts
  <1>2. /\ view' \in Directory /\ view'[Me] # None /\ view'[Me].at = to
        /\ view'[Me].who = view[Me].who
        /\ \A j \in Ids \ {Me} : view'[j] = view[j]
    BY <1>1, MovedView, ClientsAssumption
  <1>3. PICK d \in Event, j \in Known :
           /\ d = [kind |-> "moved", id |-> Me, entry |-> [who |-> Us, at |-> to]]
           /\ SelfMoved(known, to) = ApplyOrQueue(j, d)
           /\ j.ready = known.ready /\ j.pending = known.pending
           /\ j.overflow = known.overflow
           /\ j.clients = known.clients /\ j.departed = known.departed
           /\ j.targets = known.targets /\ j.whispering = known.whispering
           /\ (known.self => j.self /\ j.at = to)
    BY <1>1, SelfMovedEvent
  <1>4. d.kind = "moved" /\ d.id = Me
    BY <1>3
  <1>5. Happened(d) /\ Forgotten(d)
    BY <1>2, <1>4, ClientsAssumption DEF Happened, Forgotten
  <1>6. to # None
    BY NoneAssumption
  <1>7. Placed(j)
    BY <1>1, <1>2, <1>3, <1>6, Zenon DEF Placed
  <1>8. Receive(d, j)
    BY <1>3, Zenon DEF Receive
  <1> QED BY <1>5, <1>7, <1>8, EventStep

LEMMA OwnMoveStep ==
    ASSUME IInv, Connected, view[Me] # None, NEW to \in Channels, OwnMove(to),
           UNCHANGED <<phase, moves, chosen, avatars, late, asked>>
    PROVE  /\ IInv' /\ view'[Me].at = to
           /\ preferred' = IF phase = "welcome" THEN preferred ELSE to
  <1>1. /\ view' = [view EXCEPT ![Me].at = to]
        /\ dirty' = (phase # "welcome")
        /\ preferred' = IF phase = "welcome" THEN preferred ELSE to
        /\ Learn(Refresh(SelfMoved(known, to), view'))
    BY Zenon DEF OwnMove
  <1>2. /\ view \in Directory /\ preferred \in Channels \cup {None}
        /\ chosen \in [Ids -> People \cup {None}]
        /\ \A j \in Ids : view[j] # None => (j = Me <=> view[j].who = Us)
        /\ phase = "restore" => preferred # None
    BY ViewFacts
  <1>3. /\ view' \in Directory /\ view'[Me] # None /\ view'[Me].at = to
        /\ view'[Me].who = view[Me].who
        /\ \A j \in Ids \ {Me} : view'[j] = view[j]
    BY <1>1, <1>2, MovedView, ClientsAssumption
  <1>4. known' \in Known /\ RosterInv' /\ WhisperInv'
    BY <1>1, SelfMovedStep
  <1>5. AvatarsKept
    BY AvatarsUnchanged
  <1>6. to # None
    BY NoneAssumption
  <1>7. /\ dirty' \in BOOLEAN /\ preferred' \in Channels \cup {None}
        /\ \A j \in Ids : view'[j] # None => (j = Me <=> view'[j].who = Us)
        /\ phase = "restore" => preferred' # None
    BY <1>1, <1>2, <1>3, <1>6, ClientsAssumption
  <1>8. IInv'
    BY <1>2, <1>3, <1>4, <1>5, <1>7, Frame
  <1> QED BY <1>1, <1>3, <1>8

LEMMA SnapshotStep == IInv /\ Snapshot => IInv'
  <1> SUFFICES ASSUME IInv, Snapshot PROVE IInv'
    OBVIOUS
  <1>1. PICK s : s = ApplySnapshot(known, view)
    OBVIOUS
  <1>2. /\ Connected /\ phase # "welcome" /\ dirty' = FALSE
        /\ Learn(Refresh(s, view))
        /\ avatars' = Scheduled(avatars, Published)
        /\ UNCHANGED <<view, preferred, chosen>> /\ Aside
    BY <1>1, Zenon DEF Snapshot, Unmoved
  <1>3. /\ known \in Known /\ view \in Directory
        /\ preferred \in Channels \cup {None}
        /\ chosen \in [Ids -> People \cup {None}]
        /\ view[Me] # None
        /\ \A j \in Ids : view[j] # None => (j = Me <=> view[j].who = Us)
        /\ phase = "restore" => preferred # None
    BY <1>2, ViewFacts
  <1>4. phase \in {"join", "restore", "live"} /\ phase' = phase /\ RosterInv
    BY <1>2 DEF Connected, Aside, IInv
  <1>5. known.ready /\ known.pending = <<>>
    BY <1>4 DEF RosterInv
  <1>6. s = Replaced(known, view)
    BY <1>1, <1>3, <1>5, LaterSnapshot
  <1>7. /\ s \in Known /\ s.ready /\ s.pending = <<>> /\ s.overflow = known.overflow
        /\ s.departed = known.departed /\ s.self = known.self /\ s.at = known.at
        /\ s.targets = known.targets
        /\ \A i \in known.departed : s.clients[i] = None
        /\ \A i \in Ids \ known.departed : s.clients[i] = view[i]
    BY <1>3, <1>6, ReplacedKnown
  <1>8. s.whispering = known.whispering
    <2>1. Replaced(known, view).whispering = known.whispering
      BY <1>3, ReplacedKnown
    <2> QED BY <1>6, <2>1, Zenon
  <1>9. \A i \in Ids : view[i] # None /\ s.clients[i] # None => s.clients[i].who = view[i].who
    BY <1>7
  <1>10. phase = "live" =>
            \A i \in Ids : known.clients[i] # None /\ s.clients[i] # None =>
               s.clients[i].who = known.clients[i].who
    BY <1>4, <1>7 DEF RosterInv
  <1>11. /\ \A i \in s.departed : s.clients[i] = None
         /\ \A i \in Ids \ s.departed : s.clients[i] = view[i]
    BY <1>7
  <1>12. known' \in Known /\ RosterInv' /\ WhisperInv'
    BY <1>2, <1>4, <1>7, <1>8, <1>9, <1>10, <1>11, ViewStep
  <1>13. AvatarsKept
    <2>1. Published \in BOOLEAN
      BY DEF Published
    <2> QED BY <1>2, <2>1, AvatarsScheduled DEF Aside
  <1> QED BY <1>2, <1>3, <1>12, <1>13, AsideFrame, Frame

LEMMA StatusRefreshStep == IInv /\ StatusRefresh => IInv'
  <1> SUFFICES ASSUME IInv, StatusRefresh PROVE IInv'
    OBVIOUS
  <1>1. PICK s : s = ApplyList(known, view)
    OBVIOUS
  <1>2. /\ phase = "live" /\ Learn(Refresh(s, view))
        /\ UNCHANGED <<view, dirty, preferred, avatars, chosen>> /\ Aside /\ phase' = phase
    BY <1>1, Zenon DEF StatusRefresh, Unmoved, Published, Aside
  <1>3. Connected /\ RosterInv
    BY <1>2 DEF Connected, IInv
  <1>4. /\ known \in Known /\ view \in Directory /\ dirty \in BOOLEAN
        /\ preferred \in Channels \cup {None}
        /\ chosen \in [Ids -> People \cup {None}]
        /\ view[Me] # None
        /\ \A j \in Ids : view[j] # None => (j = Me <=> view[j].who = Us)
    BY <1>2, <1>3, ViewFacts
  <1>5. /\ s \in Known /\ SameBut(s, known) /\ s.departed = known.departed
        /\ \A i \in Ids : s.clients[i] =
              IF known.clients[i] # None /\ view[i] # None /\ i \notin known.departed
              THEN view[i] ELSE known.clients[i]
    BY <1>1, <1>4, ListKnown
  <1>6. /\ known.ready /\ known.pending = <<>>
        /\ \A i \in known.departed : known.clients[i] = None
        /\ \A i \in Ids : view[i] # None /\ known.clients[i] # None =>
              known.clients[i].who = view[i].who
        /\ ~dirty => \A i \in Ids \ known.departed : known.clients[i] = view[i]
    BY <1>2, <1>3 DEF RosterInv
  <1>7. s.ready /\ s.pending = <<>> /\ s.overflow = known.overflow
        /\ s.self = known.self /\ s.at = known.at
        /\ s.whispering = known.whispering
    BY <1>5, <1>6, Zenon DEF SameBut
  <1>8. s.targets = known.targets
    BY <1>5 DEF SameBut
  <1>9. \A i \in s.departed : s.clients[i] = None
    BY <1>4, <1>5, <1>6 DEF Known
  <1>10. \A i \in Ids : view[i] # None /\ s.clients[i] # None => s.clients[i].who = view[i].who
    BY <1>5, <1>6
  <1>11. ~dirty' => \A i \in Ids \ s.departed : s.clients[i] = view[i]
    BY <1>2, <1>5, <1>6
  <1>12. \A i \in Ids : known.clients[i] # None /\ s.clients[i] # None =>
            s.clients[i].who = known.clients[i].who
    BY <1>5, <1>6
  <1>13. known' \in Known /\ RosterInv' /\ WhisperInv'
    BY <1>2, <1>5, <1>7, <1>8, <1>9, <1>10, <1>11, <1>12, ViewStep
  <1>14. AvatarsKept
    BY <1>2, AvatarsUnchanged DEF Aside
  <1> QED BY <1>2, <1>3, <1>4, <1>13, <1>14, AsideFrame, Frame

-----------------------------------------------------------------------------
(* Each action preserves the invariant: commands of the browser. *)

LEMMA SwitchStep ==
    ASSUME IInv, OwnInv, NEW to \in Channels,
           SwitchChannel(to) \/ SwitchAcknowledged \/ SwitchRefused
    PROVE  IInv'
  <1>1. UNCHANGED <<phase, view, dirty, known, told, chosen, avatars, late, asked>>
    BY DEF SwitchChannel, SwitchAcknowledged, SwitchRefused
  <1>2. /\ moves' \in Seq(Channels) /\ (moves' # <<>> => phase = "live")
        /\ preferred' \in Channels \cup {None} /\ (phase = "restore" => preferred' # None)
    <2>1. /\ moves \in Seq(Channels) /\ (moves # <<>> => phase = "live")
          /\ preferred \in Channels \cup {None} /\ (phase = "restore" => preferred # None)
          /\ executed => moves # <<>>
      BY DEF IInv, Typed, ViewInv, OwnInv
    <2>2. CASE SwitchChannel(to)
      BY <2>1, <2>2 DEF SwitchChannel, Published
    <2>3. CASE SwitchAcknowledged
      BY <2>1, <2>3 DEF SwitchAcknowledged
    <2>4. CASE SwitchRefused
      BY <2>1, <2>4 DEF SwitchRefused
    <2> QED BY <2>2, <2>3, <2>4
  <1>3. Typed' /\ ViewInv'
    BY <1>1, <1>2 DEF IInv, Typed, ViewInv
  <1>4. RosterInv' /\ WhisperInv'
    BY <1>1 DEF IInv, RosterInv, WhisperInv
  <1>5. AvatarInv'
    BY <1>1, AvatarsUnchanged, AvatarsKeptInv
  <1> QED BY <1>3, <1>4, <1>5 DEF IInv

\* Only the whisper state of what the session knows has changed.
SameRoster ==
    /\ known'.ready = known.ready /\ known'.pending = known.pending
    /\ known'.overflow = known.overflow
    /\ known'.clients = known.clients /\ known'.departed = known.departed
    /\ known'.self = known.self /\ known'.at = known.at

LEMMA WhisperFrame ==
    ASSUME IInv, SameRoster, known' \in Known, WhisperInv',
           chosen' \in [Ids -> People \cup {None}],
           UNCHANGED <<phase, view, dirty, preferred, moves, avatars, late, asked>>
    PROVE  IInv'
  <1>1. Typed' /\ ViewInv'
    BY DEF IInv, Typed, ViewInv
  <1>2. RosterInv'
    BY DEF IInv, RosterInv, SameRoster
  <1>3. AvatarInv'
    BY AvatarsUnchanged, AvatarsKeptInv
  <1> QED BY <1>1, <1>2, <1>3 DEF IInv

LEMMA SetWhisperTargetsStep ==
    \A ids \in SUBSET Ids : IInv /\ SetWhisperTargets(ids) => IInv'
  <1> SUFFICES ASSUME NEW ids \in SUBSET Ids, IInv, SetWhisperTargets(ids) PROVE IInv'
    OBVIOUS
  <1>1. PICK w \in BOOLEAN : w = (known.whispering /\ ids # {})
    BY Zenon
  <1>2. w => ids # {}
    BY <1>1, Zenon
  <1>3. PICK k : k = [known EXCEPT !.targets = ids, !.whispering = w]
    OBVIOUS
  <1>4. /\ phase = "live" /\ Me \notin ids /\ ids \subseteq Members(known)
        /\ known' = k
        /\ told' = [targets |-> k.targets, whispering |-> k.whispering]
        /\ chosen' = [i \in Ids |-> IF i \in ids THEN Shown(known)[i].who ELSE None]
        /\ UNCHANGED <<phase, view, dirty, preferred, moves, avatars, late, asked>>
    BY <1>1, <1>3, Zenon DEF SetWhisperTargets, Published, switching
  <1>5. known \in Known /\ known.ready
    BY <1>4 DEF IInv, Typed, RosterInv
  <1>6. /\ k \in Known /\ SameRoster /\ k.targets = ids /\ k.clients = known.clients
    BY <1>3, <1>4, <1>5 DEF Known, SameRoster
  <1>7. k.whispering => ids # {}
    BY <1>2, <1>3, <1>5 DEF Known
  <1>8. \A i \in ids : /\ i # Me /\ known.clients[i] # None /\ known.clients[i] \in Entry
                       /\ Shown(known)[i] = known.clients[i]
    BY <1>4, <1>5, MembersOf DEF Known, Directory
  <1>9. \A i \in ids : Shown(known)[i].who \in People
    BY <1>8 DEF Entry
  <1>10. /\ chosen' \in [Ids -> People \cup {None}]
         /\ \A i \in ids : chosen'[i] = known.clients[i].who
    BY <1>4, <1>8, <1>9
  <1>11. WhisperInv'
    BY <1>4, <1>6, <1>7, <1>8, <1>10, Zenon DEF WhisperInv
  <1> QED BY <1>4, <1>6, <1>10, <1>11, WhisperFrame

LEMMA SetWhisperActiveStep == \A on \in BOOLEAN : IInv /\ SetWhisperActive(on) => IInv'
  <1> SUFFICES ASSUME NEW on \in BOOLEAN, IInv, SetWhisperActive(on) PROVE IInv'
    OBVIOUS
  <1>1. /\ phase = "live" /\ (on => known.targets # {})
        /\ known' = [known EXCEPT !.whispering = on]
        /\ told' = [targets |-> known.targets, whispering |-> on]
        /\ UNCHANGED <<phase, view, dirty, preferred, moves, chosen, avatars, late, asked>>
    BY Zenon DEF SetWhisperActive, Published, switching
  <1>2. known \in Known /\ chosen \in [Ids -> People \cup {None}] /\ WhisperInv
    BY DEF IInv, Typed
  <1>3. /\ known' \in Known /\ SameRoster /\ known'.targets = known.targets
        /\ known'.clients = known.clients
    BY <1>1, <1>2 DEF Known, SameRoster
  <1>4. known'.whispering = on
    BY <1>1, <1>2 DEF Known
  <1>5. WhisperInv'
    <2>1. \A i \in known.targets : /\ i # Me /\ known.clients[i] # None
                                   /\ chosen[i] \in {known.clients[i].who, None}
      BY <1>2 DEF WhisperInv
    <2> QED BY <1>1, <1>3, <1>4, <2>1, Zenon DEF WhisperInv
  <1> QED BY <1>1, <1>2, <1>3, <1>5, WhisperFrame

-----------------------------------------------------------------------------
(* Each action preserves the invariant: avatars. *)

\* What the loop goes on with: nothing, or a download for a member.
LEMMA AdvanceTyped ==
    ASSUME NEW queue \in Seq(Loading)
    PROVE  Advance(queue) \in Seq(Loading)
  <1> DEFINE there == {n \in DOMAIN queue : SameMember(queue[n])}
  <1>1. CASE there = {}
    BY <1>1 DEF Advance
  <1>2. CASE there # {}
    <2>1. Len(queue) \in Nat /\ there \in SUBSET (1 .. Len(queue))
      OBVIOUS
    <2>2. PICK m \in 1 .. Len(queue) : m = Min(there)
      BY <1>2, <2>1, Extremes
    <2>3. PICK rest \in Seq(Loading) : rest = SubSeq(queue, m, Len(queue)) /\ Len(rest) >= 1
      <3>1. /\ m \in Int /\ Len(queue) \in Int /\ m <= Len(queue)
            /\ \A n \in m .. Len(queue) : queue[n] \in Loading
        <4> HIDE DEF there
        <4>1. m \in Nat /\ 1 <= m /\ m <= Len(queue) /\ Len(queue) \in Nat
          BY <2>1, <2>2
        <4>2. \A n \in 1 .. Len(queue) : queue[n] \in Loading
          OBVIOUS
        <4> QED BY <4>1, <4>2
      <3>2. /\ SubSeq(queue, m, Len(queue)) \in Seq(Loading)
            /\ Len(SubSeq(queue, m, Len(queue))) = Len(queue) - m + 1
        BY <3>1, SubSeqProperties
      <3>3. Len(queue) - m + 1 >= 1
        BY <3>1
      <3> QED BY <3>2, <3>3
    <2>4. rest[1] \in Loading
      BY <2>3
    <2>5. PICK found \in BOOLEAN :
             found = (view[rest[1].id] # None /\ view[rest[1].id].who = rest[1].who)
      BY Zenon
    <2>6. Advance(queue) = [rest EXCEPT ![1].found = found]
      BY <1>2, <2>2, <2>3, <2>5, Zenon DEF Advance
    <2>7. PICK h \in Loading : h = [rest[1] EXCEPT !.found = found]
      BY <2>4 DEF Loading
    <2>8. [rest EXCEPT ![1].found = found] = [rest EXCEPT ![1] = h]
      BY <2>3, <2>7
    <2>9. [rest EXCEPT ![1] = h] \in Seq(Loading)
      BY <2>3
    <2> QED BY <2>6, <2>8, <2>9
  <1> QED BY <1>1, <1>2

LEMMA ProceedStep ==
    ASSUME NEW a \in Loader, NEW queue \in Seq(Loading), Proceed(a, queue)
    PROVE  /\ avatars' \in Loader /\ avatars'.cache = a.cache
           /\ asked \subseteq asked'
           /\ avatars'.batch # <<>> => avatars'.batch[1].who \in asked'
  <1>1. PICK next \in Seq(Loading) : next = Advance(queue)
    BY AdvanceTyped
  <1>2. PICK again \in BOOLEAN : again = (Published /\ Lacking(a, known) # {})
    BY Zenon
  <1>3. /\ avatars' = IF next = <<>> THEN [a EXCEPT !.batch = <<>>, !.timer = again]
                      ELSE [a EXCEPT !.batch = next]
        /\ asked' = IF next = <<>> THEN asked ELSE asked \cup {next[1].who}
    BY <1>1, <1>2, Zenon DEF Proceed
  <1>4. <<>> \in Seq(Loading)
    OBVIOUS
  <1>5. CASE next = <<>>
    BY <1>3, <1>4, <1>5 DEF Loader
  <1>6. CASE next # <<>>
    BY <1>1, <1>3, <1>6 DEF Loader
  <1> QED BY <1>5, <1>6

\* Only the avatars and what was asked for have changed.
LEMMA AvatarFrame ==
    ASSUME IInv, avatars' \in Loader, late' \subseteq Loading, AvatarInv',
           UNCHANGED <<phase, view, dirty, preferred, moves, known, told, chosen>>
    PROVE  IInv'
  <1>1. Typed' /\ ViewInv'
    BY DEF IInv, Typed, ViewInv
  <1>2. RosterInv' /\ WhisperInv'
    BY DEF IInv, RosterInv, WhisperInv
  <1> QED BY <1>1, <1>2 DEF IInv

LEMMA AvatarTimerStep == IInv /\ AvatarTimer => IInv'
  <1> SUFFICES ASSUME IInv, AvatarTimer PROVE IInv'
    OBVIOUS
  <1>1. PICK order \in SetToSeqs(Lacking(avatars, known)) :
           \E at \in [DOMAIN order -> Members(known)] :
              Proceed([avatars EXCEPT !.timer = FALSE],
                      [n \in DOMAIN order |-> [id |-> at[n], who |-> order[n], found |-> FALSE]])
    BY DEF AvatarTimer
  <1>2. PICK at \in [DOMAIN order -> Members(known)] :
           Proceed([avatars EXCEPT !.timer = FALSE],
                   [n \in DOMAIN order |-> [id |-> at[n], who |-> order[n], found |-> FALSE]])
    BY <1>1
  <1>3. UNCHANGED <<phase, view, dirty, preferred, moves, known, told, chosen, late>>
    BY DEF AvatarTimer, switching
  <1>4. PICK n \in Nat : DOMAIN order = 1 .. n /\ \A m \in 1 .. n : order[m] \in People
    <2>1. Lacking(avatars, known) \subseteq Pictured
      BY DEF Lacking
    <2>2. IsFiniteSet(Lacking(avatars, known))
      BY <2>1, FS_Subset, ClientsAssumption
    <2>3. Cardinality(Lacking(avatars, known)) \in Nat
      BY <2>2, FS_CardinalityType
    <2>4. order \in [1 .. Cardinality(Lacking(avatars, known)) -> Lacking(avatars, known)]
      BY <1>1 DEF SetToSeqs
    <2> QED BY <2>1, <2>3, <2>4, ClientsAssumption
  <1>5. PICK queue \in Seq(Loading) :
           queue = [m \in DOMAIN order |-> [id |-> at[m], who |-> order[m], found |-> FALSE]]
    <2>1. \A m \in 1 .. n : [id |-> at[m], who |-> order[m], found |-> FALSE] \in Loading
      BY <1>2, <1>4 DEF Loading, Members
    <2>2. [m \in DOMAIN order |-> [id |-> at[m], who |-> order[m], found |-> FALSE]]
          \in [1 .. n -> Loading]
      BY <1>4, <2>1
    <2>3. [m \in DOMAIN order |-> [id |-> at[m], who |-> order[m], found |-> FALSE]]
          \in Seq(Loading)
      BY <1>4, <2>2
    <2> QED BY <2>3
  <1>6. PICK a \in Loader : a = [avatars EXCEPT !.timer = FALSE] /\ a.cache = avatars.cache
    <2>1. /\ [avatars EXCEPT !.timer = FALSE] \in Loader
          /\ [avatars EXCEPT !.timer = FALSE].cache = avatars.cache
      BY DEF IInv, Typed, Loader
    <2> QED BY <2>1
  <1>7. /\ avatars' \in Loader /\ avatars'.cache = avatars.cache
        /\ asked \subseteq asked'
        /\ avatars'.batch # <<>> => avatars'.batch[1].who \in asked'
    <2>1. Proceed(a, queue)
      BY <1>2, <1>5, <1>6, Zenon
    <2> QED BY <1>6, <2>1, ProceedStep
  <1>8. AvatarInv'
    BY <1>7 DEF IInv, AvatarInv, AvatarsBelong
  <1>9. late' \subseteq Loading
    BY <1>3 DEF IInv, Typed
  <1> QED BY <1>3, <1>7, <1>8, <1>9, AvatarFrame

\* A download that answers stores at most the avatar of its owner.
LEMMA StoredCache ==
    ASSUME IInv, NEW h \in Loading, NEW image \in BOOLEAN
    PROVE  /\ Stored(h, image, FALSE) = avatars.cache
           /\ Stored(h, image, TRUE) \in Cache
           /\ \A p \in Pictured : \/ Stored(h, image, TRUE)[p] = avatars.cache[p]
                                  \/ p = h.who /\ Stored(h, image, TRUE)[p] \in {"none", p}
  <1>1. avatars.cache \in Cache
    BY DEF IInv, Typed, Loader
  <1>2. Stored(h, image, FALSE) = avatars.cache
    BY DEF Stored, Keeps
  <1>3. PICK c : c = Stored(h, image, TRUE)
    OBVIOUS
  <1>4. PICK v \in {"none", h.who} : v = IF image /\ h.found THEN h.who ELSE "none"
    OBVIOUS
  <1>5. c = avatars.cache \/ c = [avatars.cache EXCEPT ![h.who] = v]
    BY <1>3, <1>4 DEF Stored
  <1>6. /\ c \in Cache
        /\ \A p \in Pictured : c[p] = avatars.cache[p] \/ (p = h.who /\ c[p] \in {"none", p})
    BY <1>1, <1>4, <1>5 DEF Cache
  <1> QED BY <1>2, <1>3, <1>6

LEMMA AvatarAnsweredStep == IInv /\ AvatarAnswered => IInv'
  <1> SUFFICES ASSUME IInv, AvatarAnswered PROVE IInv'
    OBVIOUS
  <1>1. PICK image \in BOOLEAN :
           Proceed([avatars EXCEPT !.cache = Stored(avatars.batch[1], image, TRUE)],
                   Tail(avatars.batch))
    BY DEF AvatarAnswered
  <1>2. /\ avatars.batch # <<>>
        /\ UNCHANGED <<phase, view, dirty, preferred, moves, known, told, chosen, late>>
    BY DEF AvatarAnswered, switching
  <1>3. avatars \in Loader /\ avatars.batch \in Seq(Loading) /\ late \subseteq Loading
    BY DEF IInv, Typed, Loader
  <1>4. PICK h \in Loading : h = avatars.batch[1]
    BY <1>2, <1>3
  <1>5. PICK queue \in Seq(Loading) : queue = Tail(avatars.batch)
    <2>1. Tail(avatars.batch) \in Seq(Loading)
      BY <1>2, <1>3, HeadTailProperties
    <2> QED BY <2>1
  <1>6. PICK c \in Cache : c = Stored(h, image, TRUE)
    BY StoredCache
  <1>7. \A p \in Pictured : c[p] = avatars.cache[p] \/ (p = h.who /\ c[p] \in {"none", p})
    BY <1>6, StoredCache
  <1>8. PICK a \in Loader : a = [avatars EXCEPT !.cache = c] /\ a.cache = c
    <2>1. [avatars EXCEPT !.cache = c] \in Loader /\ [avatars EXCEPT !.cache = c].cache = c
      BY <1>3 DEF Loader
    <2> QED BY <2>1
  <1>9. /\ avatars' \in Loader /\ avatars'.cache = c
        /\ asked \subseteq asked'
        /\ avatars'.batch # <<>> => avatars'.batch[1].who \in asked'
    <2>1. Proceed(a, queue)
      BY <1>1, <1>4, <1>5, <1>6, <1>8, Zenon
    <2> QED BY <1>8, <2>1, ProceedStep
  <1>10. h.who \in asked
    BY <1>2, <1>4 DEF IInv, AvatarInv
  <1>11. AvatarInv'
    BY <1>7, <1>9, <1>10 DEF IInv, AvatarInv, AvatarsBelong
  <1> QED BY <1>2, <1>3, <1>9, <1>11, AvatarFrame

LEMMA LateAvatarStep == IInv /\ LateAvatar => IInv'
  <1> SUFFICES ASSUME IInv, LateAvatar PROVE IInv'
    OBVIOUS
  <1>1. PICK h \in late, image \in BOOLEAN :
           /\ late' = late \ {h}
           /\ avatars' = [avatars EXCEPT !.cache = Stored(h, image, FALSE)]
           /\ UNCHANGED <<phase, view, dirty, preferred, moves, known, told, chosen, asked>>
    BY DEF LateAvatar, switching
  <1>2. late \subseteq Loading /\ avatars \in Loader /\ AvatarInv
    BY DEF IInv, Typed
  <1>3. Stored(h, image, FALSE) = avatars.cache
    BY <1>2, StoredCache
  <1>4. avatars' = avatars /\ late' \subseteq Loading
    BY <1>1, <1>2, <1>3 DEF Loader
  <1>5. AvatarInv'
    BY <1>1, <1>2, <1>4 DEF AvatarInv, AvatarsBelong
  <1> QED BY <1>1, <1>2, <1>4, <1>5, AvatarFrame

-----------------------------------------------------------------------------
(* The channel kept for the next reconnect. *)

\* The actions that are not about it: the own client stays where it is, or there
\* is no channel to compare with yet.
LEMMA OwnFrame ==
    ASSUME OwnInv, UNCHANGED <<phase, preferred, target, moves, executed, crossed>>,
           view'[Me] = view[Me] \/ (phase \notin {"restore", "live"} /\ moves = <<>>)
    PROVE  OwnInv'
  BY DEF OwnInv

\* Neither connected nor to be moved back.
LEMMA OwnElsewhere ==
    ASSUME phase' \notin {"restore", "live"}, target' = None, ~executed',
           crossed' \in BOOLEAN, executed' \in BOOLEAN
    PROVE  OwnInv'
  BY DEF OwnInv

LEMMA OwnFacts ==
    ASSUME IInv, OwnInv
    PROVE  /\ preferred \in Channels \cup {None} /\ moves \in Seq(Channels)
           /\ moves # <<>> => phase = "live" /\ moves[1] \in Channels
           /\ phase # "live" => ~executed
           /\ phase # "restore" => target = None
           /\ executed \in BOOLEAN /\ crossed \in BOOLEAN
           /\ phase \in {"join", "restore", "dead", "live"} =>
                 view[Me] # None /\ Here(view) = view[Me].at /\ Here(view) \in Channels
  <1>1. /\ preferred \in Channels \cup {None} /\ moves \in Seq(Channels) /\ view \in Directory
        /\ moves # <<>> => phase = "live"
        /\ phase \in {"join", "restore", "dead", "live"} => view[Me] # None
    BY DEF IInv, Typed, ViewInv
  <1>2. moves # <<>> => moves[1] \in Channels
    BY <1>1
  <1>3. view[Me] # None => Here(view) = view[Me].at /\ Here(view) \in Channels
    BY <1>1, HereTyped
  <1> QED BY <1>1, <1>2, <1>3 DEF OwnInv

LEMMA OwnConnects ==
    ASSUME IInv, OwnInv,
           Connect \/ ViewReady \/ Subscribed \/ RestoreAcknowledged \/ RestoreRefused
              \/ RestoreDropped \/ Drop
    PROVE  OwnInv'
  <1>1. CASE Connect \/ ViewReady \/ RestoreDropped
    <2>1. /\ phase \notin {"restore", "live"} /\ phase' \notin {"restore", "live"}
          /\ UNCHANGED <<target, executed, crossed>>
      BY <1>1 DEF Connect, ViewReady, RestoreDropped, switching
    <2> QED BY <2>1, OwnFacts, OwnElsewhere
  <1>2. CASE Drop
    BY <1>2, OwnElsewhere DEF Drop
  <1>3. CASE Subscribed
    <2>1. PICK k : k = Refresh(ApplySnapshot(known, view), view)
      OBVIOUS
    <2>2. /\ phase = "join"
          /\ IF preferred \in {None, Here(view)}
             THEN GoLive(k, view) /\ UNCHANGED target
             ELSE phase' = "restore" /\ target' = preferred
          /\ preferred' = IF preferred = None THEN Here(view) ELSE preferred
          /\ UNCHANGED <<view, moves, executed, crossed>>
      BY <1>3, <2>1, Zenon DEF Subscribed, switching
    <2>3. ~executed /\ target = None /\ Here(view) = view[Me].at
      BY <2>2, OwnFacts
    <2>4. CASE preferred \in {None, Here(view)}
      BY <2>2, <2>3, <2>4, OwnFacts DEF GoLive, OwnInv
    <2>5. CASE preferred \notin {None, Here(view)}
      BY <2>2, <2>3, <2>5, OwnFacts DEF OwnInv
    <2> QED BY <2>4, <2>5
  <1>4. CASE RestoreAcknowledged
    BY <1>4, OwnFacts DEF RestoreAcknowledged, GoLive, OwnInv, switching
  <1>5. CASE RestoreRefused
    BY <1>5, OwnFacts DEF RestoreRefused, PreferredRefused, GoLive, OwnInv, switching
  <1> QED BY <1>1, <1>2, <1>3, <1>4, <1>5

LEMMA RestoreExecutedStep == IInv /\ OwnInv /\ RestoreExecuted => IInv' /\ OwnInv'
  <1> SUFFICES ASSUME IInv, OwnInv, RestoreExecuted PROVE IInv' /\ OwnInv'
    OBVIOUS
  <1>1. PICK to : to = target
    OBVIOUS
  <1>2. /\ phase = "restore" /\ to # None /\ OwnMove(to) /\ target' = None
        /\ UNCHANGED <<phase, moves, executed, crossed, chosen, avatars, late, asked>>
    BY <1>1, Zenon DEF RestoreExecuted, switching
  <1>3. Connected /\ to \in Channels /\ view[Me] # None
    BY <1>1, <1>2, OwnFacts DEF Connected, OwnInv
  <1>4. IInv' /\ view'[Me].at = to /\ preferred' = to
    BY <1>2, <1>3, OwnMoveStep
  <1>5. OwnInv'
    BY <1>2, <1>4, OwnFacts DEF OwnInv
  <1> QED BY <1>4, <1>5

LEMMA MovedByOtherStep ==
    \A to \in Channels : IInv /\ OwnInv /\ MovedByOther(to) => IInv' /\ OwnInv'
  <1> SUFFICES ASSUME NEW to \in Channels, IInv, OwnInv, MovedByOther(to)
               PROVE  IInv' /\ OwnInv'
    OBVIOUS
  <1>1. /\ Connected /\ view[Me] # None /\ OwnMove(to)
        /\ crossed' = (executed /\ to # moves[1])
        /\ UNCHANGED <<phase, target, moves, executed, chosen, avatars, late, asked>>
    BY Zenon DEF MovedByOther
  <1>2. /\ IInv' /\ view'[Me].at = to
        /\ preferred' = IF phase = "welcome" THEN preferred ELSE to
    BY <1>1, OwnMoveStep
  <1>3. OwnInv'
    BY <1>1, <1>2, OwnFacts DEF OwnInv
  <1> QED BY <1>2, <1>3

LEMMA SwitchExecutedStep == IInv /\ OwnInv /\ SwitchExecuted => IInv' /\ OwnInv'
  <1> SUFFICES ASSUME IInv, OwnInv, SwitchExecuted PROVE IInv' /\ OwnInv'
    OBVIOUS
  <1>1. PICK to : to = moves[1]
    OBVIOUS
  <1>2. /\ moves # <<>> /\ OwnMove(to) /\ executed' = TRUE /\ crossed' = FALSE
        /\ UNCHANGED <<phase, target, moves, chosen, avatars, late, asked>>
    BY <1>1, Zenon DEF SwitchExecuted
  <1>3. phase = "live" /\ Connected /\ to \in Channels /\ view[Me] # None
    BY <1>1, <1>2, OwnFacts DEF Connected
  <1>4. IInv' /\ view'[Me].at = to /\ preferred' = to
    BY <1>2, <1>3, OwnMoveStep
  <1>5. OwnInv'
    BY <1>1, <1>2, <1>3, <1>4, OwnFacts DEF OwnInv
  <1> QED BY <1>4, <1>5

LEMMA OwnSwitches ==
    ASSUME IInv, OwnInv, NEW to \in Channels,
           SwitchChannel(to) \/ SwitchAcknowledged \/ SwitchRefused
    PROVE  OwnInv'
  <1>1. moves \in Seq(Channels) /\ executed \in BOOLEAN /\ crossed \in BOOLEAN
    BY OwnFacts
  <1>2. CASE SwitchChannel(to)
    <2>1. moves # <<>> => moves'[1] = moves[1]
      BY <1>1, <1>2 DEF SwitchChannel
    <2>2. moves' # <<>>
      BY <1>1, <1>2 DEF SwitchChannel
    <2> QED BY <1>2, <2>1, <2>2 DEF SwitchChannel, OwnInv
  <1>3. CASE SwitchAcknowledged
    BY <1>1, <1>3, OwnFacts DEF SwitchAcknowledged, OwnInv
  <1>4. CASE SwitchRefused
    BY <1>1, <1>4, OwnFacts DEF SwitchRefused, OwnInv
  <1> QED BY <1>2, <1>3, <1>4

\* What every other action leaves alone.
OwnKept ==
    /\ UNCHANGED <<phase, preferred, target, moves, executed, crossed>>
    /\ view'[Me] = view[Me] \/ (phase \notin {"restore", "live"} /\ moves = <<>>)

LEMMA OwnAside ==
    ASSUME IInv, NEW i \in Ids,
           \/ Snapshot \/ StatusRefresh
           \/ ClientLeaves(i) \/ ClientVanishes(i) \/ ClientUpdated(i)
           \/ \E entry \in Entry : ClientEnters(i, entry)
           \/ \E to \in Channels : ClientMoves(i, to)
    PROVE  OwnKept
  <1>1. /\ view \in Directory /\ DOMAIN view = Ids /\ Me \in Ids
        /\ phase \in {"restore", "live"} => view[Me] # None
        /\ moves # <<>> => phase = "live"
    BY ClientsAssumption DEF IInv, Typed, ViewInv, Directory
  <1>2. CASE Snapshot \/ StatusRefresh
    BY <1>2, AsideFrame DEF Snapshot, StatusRefresh, Unmoved, OwnKept
  <1>3. CASE ClientLeaves(i) \/ ClientVanishes(i) \/ ClientUpdated(i)
    BY <1>1, <1>3, AsideFrame
       DEF ClientLeaves, ClientVanishes, ClientUpdated, Unmoved, OwnKept
  <1>4. ASSUME NEW entry \in Entry, ClientEnters(i, entry) PROVE OwnKept
    <2>1. view[i] = None /\ view' = [view EXCEPT ![i] = entry] /\ preferred' = preferred /\ Aside
      BY <1>4 DEF ClientEnters
    <2> QED BY <1>1, <2>1, AsideFrame DEF OwnKept
  <1>5. ASSUME NEW to \in Channels, ClientMoves(i, to) PROVE OwnKept
    <2>1. i # Me /\ view' = [view EXCEPT ![i].at = to] /\ preferred' = preferred /\ Aside
      BY <1>5 DEF ClientMoves, Unmoved
    <2> QED BY <1>1, <2>1, AsideFrame DEF OwnKept
  <1> QED BY <1>2, <1>3, <1>4, <1>5

LEMMA OwnOthers ==
    ASSUME \/ \E ids \in SUBSET Ids : SetWhisperTargets(ids)
           \/ \E on \in BOOLEAN : SetWhisperActive(on)
           \/ AvatarTimer \/ AvatarAnswered \/ LateAvatar
           \/ UNCHANGED vars
    PROVE  OwnKept
  <1>1. UNCHANGED <<phase, view, preferred, target, switching>>
    BY DEF SetWhisperTargets, SetWhisperActive, AvatarTimer, AvatarAnswered, LateAvatar, vars
  <1> QED BY <1>1 DEF OwnKept, switching

-----------------------------------------------------------------------------
(* The theorems. *)

LEMMA NextStep == IInv /\ OwnInv /\ [Next]_vars => IInv' /\ OwnInv'
  <1> SUFFICES ASSUME IInv, OwnInv, [Next]_vars PROVE IInv' /\ OwnInv'
    OBVIOUS
  <1> USE OwnFrame DEF OwnKept
  <1>1. CASE Connect \/ ViewReady \/ Subscribed
    BY <1>1, ConnectStep, ViewReadyStep, SubscribedStep, OwnConnects
  <1>2. CASE RestoreAcknowledged \/ RestoreRefused \/ RestoreDropped \/ Drop
    BY <1>2, RestoredStep, RestoreDroppedStep, DropStep, OwnConnects
  <1>3. CASE Snapshot \/ StatusRefresh
    BY <1>3, SnapshotStep, StatusRefreshStep, OwnAside, ClientsAssumption
  <1>4. CASE \E i \in Ids : ClientLeaves(i) \/ ClientVanishes(i) \/ ClientUpdated(i)
    BY <1>4, ClientLeavesStep, ClientVanishesStep, ClientUpdatedStep, OwnAside
  <1>5. CASE \E i \in Ids, entry \in Entry : ClientEnters(i, entry)
    BY <1>5, ClientEntersStep, OwnAside
  <1>6. CASE \E i \in Ids, to \in Channels : ClientMoves(i, to)
    BY <1>6, ClientMovesStep, OwnAside
  <1>7. CASE \E to \in Channels : MovedByOther(to) \/ SwitchChannel(to)
    BY <1>7, MovedByOtherStep, SwitchStep, OwnSwitches
  <1>8. CASE RestoreExecuted \/ SwitchExecuted
    BY <1>8, RestoreExecutedStep, SwitchExecutedStep
  <1>9. CASE SwitchAcknowledged \/ SwitchRefused
    <2>1. moves # <<>>
      BY <1>9 DEF OwnInv, SwitchAcknowledged, SwitchRefused
    <2>2. moves[1] \in Channels
      BY <2>1, OwnFacts
    <2> QED BY <1>9, <2>2, SwitchStep, OwnSwitches
  <1>10. CASE \E ids \in SUBSET Ids : SetWhisperTargets(ids)
    BY <1>10, SetWhisperTargetsStep, OwnOthers
  <1>11. CASE \E on \in BOOLEAN : SetWhisperActive(on)
    BY <1>11, SetWhisperActiveStep, OwnOthers
  <1>12. CASE AvatarTimer \/ AvatarAnswered \/ LateAvatar
    BY <1>12, AvatarTimerStep, AvatarAnsweredStep, LateAvatarStep, OwnOthers
  <1>13. CASE UNCHANGED vars
    <2>1. UNCHANGED <<phase, view, dirty, preferred, moves, known, told, chosen, avatars, late, asked>>
      BY <1>13 DEF vars, switching
    <2>2. Typed' /\ ViewInv' /\ RosterInv' /\ WhisperInv'
      BY <2>1 DEF IInv, Typed, ViewInv, RosterInv, WhisperInv
    <2>3. AvatarInv'
      BY <2>1, AvatarsUnchanged, AvatarsKeptInv
    <2> QED BY <1>13, <2>2, <2>3, OwnOthers DEF IInv
  <1> QED BY <1>1, <1>2, <1>3, <1>4, <1>5, <1>6, <1>7, <1>8, <1>9, <1>10, <1>11, <1>12, <1>13
          DEF Next

(* Every reachable state satisfies the inductive invariant. *)
THEOREM Inductive == Spec => [](IInv /\ OwnInv)
  <1>1. Init => OwnInv
    BY DEF Init, OwnInv
  <1> QED BY <1>1, InitStep, NextStep, PTL DEF Spec

(* Every variable keeps its type, the queue of deltas and the batch of downloads
   included. *)
THEOREM TypeCorrect == Spec => []TypeOK
  <1>1. IInv /\ OwnInv => TypeOK
    <2>1. Event \subseteq Delta
      BY DEF Event
    <2>2. \A q \in Seq(Event) : q \in Seq(Delta)
      BY <2>1
    <2> QED BY <2>2 DEF IInv, OwnInv, Typed, TypeOK, Known, Loader, Cache
  <1> QED BY <1>1, Inductive, PTL

(* The members shown are those of the live view once its last change is published,
   unless a delta was dropped before the first snapshot: the tombstones of
   ApplySnapshot name nobody who is in view, because what is queued ends with an enter
   for each client in view. The channel kept for the next reconnect is the client's
   own, unless somebody moved the client between the execution of its own switch and
   the acknowledgement. *)
THEOREM DirectoryTruth == Spec => []DirectoryAgrees
  <1>1. IInv /\ OwnInv => DirectoryAgrees
    <2> SUFFICES ASSUME IInv, OwnInv, phase = "live", ~dirty
                 PROVE  /\ ~known.overflow => Shown(known) = view
                        /\ ~crossed => preferred = view[Me].at
      BY DEF DirectoryAgrees, Settled, Published
    <2>1. /\ known \in Known /\ view \in Directory /\ view[Me] # None
          /\ RosterInv
          /\ \A i \in Ids : view[i] # None => (i = Me <=> view[i].who = Us)
      BY DEF IInv, Typed, ViewInv
    <2>2. /\ known.ready /\ known.at = view[Me].at /\ known.clients \in Directory
          /\ \A i \in known.departed : known.clients[i] = None
          /\ \A i \in Ids \ known.departed : known.clients[i] = view[i]
          /\ ~known.overflow => \A i \in known.departed : view[i] = None
      BY <2>1 DEF RosterInv, Known
    <2>3. known.at # None
      BY <2>1, <2>2, HereTyped
    <2>4. view[Me] \in Entry /\ view[Me].who = Us
      BY <2>1, ClientsAssumption DEF Directory
    <2>5. view[Me] = [who |-> Us, at |-> known.at]
      BY <2>2, <2>4 DEF Entry
    <2>6. Shown(known) = [known.clients EXCEPT ![Me] = view[Me]]
      BY <2>2, <2>3, <2>5 DEF Shown
    <2>7. ASSUME ~known.overflow PROVE Shown(known) = view
      <3>1. \A i \in Ids : known.clients[i] = view[i]
        <4>1. \A i \in known.departed : view[i] = None
          BY <2>2, <2>7, Zenon
        <4> QED BY <2>2, <4>1
      <3> QED BY <2>1, <2>2, <2>6, <3>1 DEF Directory
    <2>8. ~crossed => preferred = view[Me].at
      BY DEF OwnInv
    <2> QED BY <2>7, <2>8
  <1> QED BY <1>1, Inductive, PTL

(* A whisper reaches the people it was meant for, and the browser knows who they are,
   in whatever order the refreshes came in and ids were used again, except where an id
   was taken over before the disappearance of its holder was published. *)
THEOREM WhisperTruth == Spec => []WhisperReachesChosen
  <1>1. IInv => WhisperReachesChosen
    <2> SUFFICES ASSUME IInv, phase = "live"
                 PROVE  /\ told = [targets |-> known.targets, whispering |-> known.whispering]
                        /\ known.whispering => known.targets # {}
                        /\ \A i \in known.targets : i # Me /\ Shown(known)[i] # None
                              /\ chosen[i] \in {Shown(known)[i].who, None}
      BY Zenon DEF WhisperReachesChosen, Published
    <2>1. known \in Known /\ known.ready /\ known.targets \subseteq Ids
      BY DEF IInv, Typed, RosterInv, Known
    <2>2. \A i \in known.targets : /\ i # Me /\ known.clients[i] # None
                                   /\ chosen[i] \in {known.clients[i].who, None}
      BY DEF IInv, WhisperInv
    <2>3. \A i \in known.targets : Shown(known)[i] = known.clients[i]
      BY <2>1, <2>2, MembersOf
    <2>4. /\ told = [targets |-> known.targets, whispering |-> known.whispering]
          /\ known.whispering => known.targets # {}
      BY Zenon DEF IInv, WhisperInv
    <2> QED BY <2>2, <2>3, <2>4
  <1> QED BY <1>1, Inductive, PTL

(* An avatar belongs to the identity it is shown for and comes from a download of the
   present connection. *)
THEOREM AvatarTruth == Spec => []AvatarsBelong
  <1>1. IInv => AvatarsBelong
    BY DEF IInv, AvatarInv
  <1> QED BY <1>1, Inductive, PTL

=============================================================================
