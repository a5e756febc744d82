--------------------------- MODULE MCVoiceSession ---------------------------
(* Instances of VoiceSession for TLC. *)
EXTENDS VoiceSession, TLC

CONSTANTS k1, k2, s1, s2, s3, s4

Browsers == {s1, s2, s3, s4}

\* s1 and s2 present the same remembered identity, s3 and s4 present none.
Contended == [s \in Browsers |-> IF s \in {s1, s2} THEN k1 ELSE NoKey]

Two == {s1, s2}

\* Each presents an identity of its own.
Distinct == [s \in Two |-> IF s = s1 THEN k1 ELSE k2]

Same == [s \in Two |-> k1]

NoSessions == {}

OnlyS2 == {s2}

Contenders == Permutations({s1, s2}) \cup Permutations({s3, s4})

=============================================================================
