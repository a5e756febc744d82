---------------------------- MODULE MCScreenPeers ----------------------------
(* A small instance of ScreenPeers for TLC. *)
EXTENDS ScreenPeers, TLC

CONSTANTS b1, b2, n1

BothBrowsers == {b1, b2}
OneBrowser == {b1}
OneNative == {n1}
OneRequest == {1}
TwoRequests == {1, 2}
=============================================================================
