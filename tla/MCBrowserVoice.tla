--------------------------- MODULE MCBrowserVoice ---------------------------
(* BrowserVoice for TLC: a headset and the device built in. *)
EXTENDS BrowserVoice, TLC

CONSTANTS headset, internal

MCDevices == {headset, internal}

\* Devices differ in nothing but their names.
MCSymmetry == Permutations(MCDevices)
=============================================================================
