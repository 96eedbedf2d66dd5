----------------------------- MODULE MCEndToEnd -----------------------------
(* One transfer of chunks of two bytes and a last one of one byte; a block  *)
(* holds two bytes.                                                         *)
EXTENDS EndToEnd

MCModes      == {"throughput"}
MCBothModes  == {"plain", "throughput"}
MCSessionIds == [t \in 1 .. MaxTransfers |-> {t}]
MCChunkLen   == [n \in 0 .. Total |-> IF n < Total - 1 THEN 2 ELSE 1]
=============================================================================
