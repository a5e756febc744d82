---------------------------- MODULE MCTsDirectory ----------------------------
(* A small instance of TsDirectory for TLC. *)
EXTENDS TsDirectory, TLC

CONSTANTS i0, i1, u, p, q, c1, c2

TheIds == {i0, i1}
ThePeople == {u, p, q}
OnePicture == {p}
TwoChannels == {c1, c2}
ChannelSymmetry == Permutations(TwoChannels)
=============================================================================
