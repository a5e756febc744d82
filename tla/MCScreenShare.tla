---------------------------- MODULE MCScreenShare ----------------------------
(* Small instances of ScreenShare for TLC. *)
EXTENDS ScreenShare, TLC

CONSTANTS b1, b2, n1, c1, c2, s1, s2

BothBrowsers == {b1, b2}
OneChannel == {c1}
OneBrowser == {b1}
OneNative == {n1}
NoOne == {}
TwoChannels == {c1, c2}
TwoIds == {s1, s2}
OneId == {s1}

\* One sharing browser: ids and channels are interchangeable.
ShareSymmetry == Permutations(TwoIds) \cup Permutations(Channels)

\* No sharing browser: the browsers are too.
CardSymmetry == Permutations(BothBrowsers) \cup Permutations(Channels)
=============================================================================
