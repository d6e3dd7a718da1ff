--------------------------- MODULE MCWebController ---------------------------
(***************************************************************************)
(* An instance of WebController for TLC: two browsers and two devices.     *)
(***************************************************************************)
EXTENDS WebController

CONSTANTS b1, b2, d1, d2

TwoBrowsers == {b1, b2}
TwoDevices  == {d1, d2}

\* "all", and one service after the other.
SomeScopes == {<<{d1, d2}>>, <<{d1}, {d2}>>}

\* Every kind of command: forward, backward, and leaving.
SomeCommands == {"Connect", "InitTask", "Run", "Stop", "End"}
=============================================================================
