----------------------------- MODULE MCReceiver -----------------------------
(* Two transfers of files one after the other; a long transfer of a file     *)
(* with a packet of video behind it; a transfer of video.                    *)
EXTENDS Receiver

MCTwo  == [t \in 1 .. 2 |-> IF t = 1 THEN 3 ELSE 2]
MCLong == [t \in 1 .. 2 |-> IF t = 1 THEN 4 ELSE 1]
MCFour == [t \in 1 .. 1 |-> 4]

MCFiles == [t \in 1 .. 2 |-> "air0"]
MCMixed == [t \in 1 .. 2 |-> IF t = 1 THEN "air0" ELSE "airv"]
MCVideo == [t \in 1 .. 1 |-> "airv"]
=============================================================================
