--------------------------- MODULE MCBoardSessions ---------------------------
(* Two hosts and two sessions over a history of one chunk: packets of one   *)
(* session and host arrive in the other, acknowledgements wait for one host *)
(* while the other is served, and duplicates older than the history occur.  *)
EXTENDS BoardRx, TLC

CONSTANTS p1, p2
MCPeers == {p1, p2}
MCLens  == {1, 2}
MCCrc   == {TRUE}
PeerSymmetry == Permutations(MCPeers)
=============================================================================
