---------------------------- MODULE MCVoiceMedia ----------------------------
(* Instances of VoiceMedia for TLC. *)
EXTENDS VoiceMedia, TLC

CONSTANTS o1, o2

TwoOffers == {o1, o2}

AnyValue == BOOLEAN

Unmuted == {FALSE}

AnyOffer == Permutations(Offers)

=============================================================================
