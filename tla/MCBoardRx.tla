------------------------------ MODULE MCBoardRx ------------------------------
(* One host; two blocks of two bytes, so that a chunk of two bytes can meet *)
(* a filling block with one byte left and no free block.                    *)
EXTENDS BoardRx

CONSTANTS p1
MCPeers == {p1}
MCLens  == {1, 2}
MCCrc   == {TRUE}
=============================================================================
