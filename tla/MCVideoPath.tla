---------------------------- MODULE MCVideoPath -----------------------------
(* Frames of one and two fragments.  The view leaves out what no step and no *)
(* property of the video run reads: which frames the decoder was given and   *)
(* which results wait, the frame that found the queue full once the queue is *)
(* cleared, and the assembler's flag that only counts.                       *)
EXTENDS VideoPath

MCFragCount == [f \in 1 .. NumFrames |-> IF f < 4 THEN 2 ELSE 1]
MCWhole     == [f \in 1 .. NumFrames |-> 1]

MCView == <<at, arrived, got, open, spoilt, latest, shown, frameDrop, missing, flushed,
            session, rx, handed, events, gui, IF gui = "clear" THEN full ELSE 0, inputWait,
            queue, stopEvent, pc, item, decoder.waiting, decoder.errors, Len(results)>>
=============================================================================
