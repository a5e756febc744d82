-------------------------- MODULE SessionContract --------------------------
(***************************************************************************)
(* What the gateway promises about voice sessions, without saying how: a   *)
(* session joins, talks, may be interrupted and resume, and ends; its slot *)
(* and its remembered identity are its own from the join until the end has *)
(* been completed; nothing joins once the gateway has been closed.         *)
(***************************************************************************)
EXTENDS Naturals, FiniteSets

CONSTANTS Sessions, Keys, NoOwner, KeyOf, MaxActive

VARIABLES
    open,    \* the gateway still admits sessions
    holder,  \* the session each remembered identity belongs to
    phase    \* "out", "joining", "talking", "recovering" or "ending"

cvars == <<open, holder, phase>>

Inside == {s \in Sessions : phase[s] # "out"}

Present == {s \in Sessions : phase[s] \in {"joining", "talking", "recovering"}}

Init ==
    /\ open = TRUE
    /\ holder = [k \in Keys |-> NoOwner]
    /\ phase = [s \in Sessions |-> "out"]

\* A join takes the slot and the identity; it may fail at once.
Join(s) ==
    /\ open
    /\ phase[s] = "out"
    /\ Cardinality(Inside) < MaxActive
    /\ \A k \in Keys : k = KeyOf[s] => holder[k] = NoOwner
    /\ holder' = [k \in Keys |-> IF k = KeyOf[s] THEN s ELSE holder[k]]
    /\ \E next \in {"joining", "ending"} : phase' = [phase EXCEPT ![s] = next]
    /\ UNCHANGED open

Establish(s) ==
    /\ phase[s] \in {"joining", "recovering"}
    /\ phase' = [phase EXCEPT ![s] = "talking"]
    /\ UNCHANGED <<open, holder>>

Interrupt(s) ==
    /\ phase[s] = "talking"
    /\ phase' = [phase EXCEPT ![s] = "recovering"]
    /\ UNCHANGED <<open, holder>>

\* Any number of sessions may be ended in one step.
Depart ==
    /\ \E leaving \in SUBSET Present :
          phase' = [s \in Sessions |-> IF s \in leaving THEN "ending" ELSE phase[s]]
    /\ UNCHANGED <<open, holder>>

Close ==
    /\ open
    /\ open' = FALSE
    /\ phase' = [s \in Sessions |-> IF s \in Present THEN "ending" ELSE phase[s]]
    /\ UNCHANGED holder

End(s) ==
    /\ phase[s] = "ending"
    /\ phase' = [phase EXCEPT ![s] = "out"]
    /\ holder' = [k \in Keys |-> IF holder[k] = s THEN NoOwner ELSE holder[k]]
    /\ UNCHANGED open

Next ==
    \/ Depart \/ Close
    \/ \E s \in Sessions : Join(s) \/ Establish(s) \/ Interrupt(s) \/ End(s)

Spec == Init /\ [][Next]_cvars

=============================================================================
