----------------------------- MODULE VideoPath ------------------------------
(* The way of a realtime frame from the parser to the decoder: the assembler *)
(* of the receiver thread (VideoRx) and the preview (Preview), joined where  *)
(* run() emits a "video_frame" event for each frame the assembler completes  *)
(* and "done" at its end (receiver_core.py).  Every start makes a receiver,  *)
(* and so an assembler, of its own, to which the stream is sent anew.        *)
EXTENDS Preview

CONSTANTS FragCount, MaxIncomplete   \* as in VideoRx

VARIABLES at, arrived, got, open, spoilt, latest, shown, frameDrop, missing, waiting, flushed

rxVars == <<at, arrived, got, open, spoilt, latest, shown, frameDrop, missing, waiting, flushed>>

Rx == INSTANCE VideoRx

ASSUME VideoPathAssumption ==
  MaxIncomplete \in Nat /\ FragCount \in [Frames -> Nat \ {0}]

pathVars == <<rxVars, previewVars>>

PathInit == Rx!VideoInit /\ PreviewInit

Put(e) ==
  /\ events' = Append(events, e)
  /\ UNCHANGED <<session, guiVars, queue, stopEvent, workerVars, results>>

StartReceiver == Start /\ Rx!VideoRenew

(* A fragment that completes a frame emits the frame. *)
Assemble ==
  /\ rx = "on" /\ UNCHANGED rx
  /\ Rx!LoseFragment \/ \E ok \in BOOLEAN : Rx!TakeFragment(ok)
  /\ IF shown' = shown THEN UNCHANGED previewVars
     ELSE handed' = handed \cup {Rx!AtFrame} /\ Put(Rx!AtFrame)

(* The end of the receiver: flush_missing, then "done". *)
EndReceiver ==
  /\ rx = "on" /\ rx' = "done" /\ Rx!Flush
  /\ Put(0) /\ UNCHANGED handed

Show ==
  /\ Gui \/ \E s \in Sessions : Worker(s)
  /\ UNCHANGED rxVars

PathNext == StartReceiver \/ Assemble \/ EndReceiver \/ Show

PathSpec == PathInit /\ [][PathNext]_pathVars

-----------------------------------------------------------------------------
(* The assembler is the receiver thread that Preview supposes: it hands over *)
(* frames in increasing order, each once, and nothing after the end; so what *)
(* holds of the preview holds behind any loss of fragments.                  *)
PreviewHolds == PreviewSpec

(* The assembler's counters are exact: each frame of which something arrived *)
(* is shown, dropped or open, each missing fragment of those given up is     *)
(* counted, once; and what is open stays within the window, however many     *)
(* frames lose a fragment (_drop_stale_frames, _complete_frame,              *)
(* flush_missing).                                                           *)
CountsExact == Rx!FramesAccounted /\ Rx!MissingExact /\ Rx!WindowBounded

(* A frame is handed on, once, just when all its fragments came: damaged     *)
(* payload keeps none back, and what happens to other frames costs it        *)
(* nothing (process_fragment).                                               *)
ShownIffWhole == Rx!ShownIffWhole
=============================================================================
