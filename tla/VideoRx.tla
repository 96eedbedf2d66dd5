------------------------------ MODULE VideoRx -------------------------------
(* The assembler of realtime video frames (VideoStreamAssembler,             *)
(* tools/pc_sender/video_receiver_core.py).  The parser of the stream        *)
(* (module Receiver) hands it the fragments whose header is valid, in the    *)
(* order of the stream and each once; the header of any of them may be lost, *)
(* its payload damaged.  The fragments are those of one stream, so that the  *)
(* consistency checks on their headers pass (build_airv_stream).             *)
(* An operator whose name ends in _Word, before the one it resembles, is a   *)
(* seeded fault that no specification uses.                                  *)
EXTENDS Integers, Sequences, FiniteSets

CONSTANTS
  NumFrames,      \* frames of the stream
  FragCount,      \* FragCount[f]: fragments frame f is cut into
  KeyFrames,      \* frames of type AIRV_FRAME_KEY
  MaxIncomplete   \* max_incomplete_frames

Frames == 1 .. NumFrames

Frags(f) == 1 .. FragCount[f]
Stream   == UNION {{f} \X Frags(f) : f \in Frames}

VARIABLES
  at,        \* the fragment the parser comes to next
  arrived,   \* fragments whose header was valid
  got,       \* frames[f].fragments: fragments held of frame f
  open,      \* DOMAIN of frames
  spoilt,    \* frames with bad_fragment_crc
  latest,    \* latest_frame_seq
  shown,     \* frames handed on, in order: frame_show is its length
  frameDrop, \* frame_drop
  missing,   \* frag_missing
  waiting,   \* waiting_keyframe
  flushed    \* flush_missing has run

videoVars == <<at, arrived, got, open, spoilt, latest, shown, frameDrop, missing, waiting, flushed>>

VideoInit ==
  /\ at = <<1, 1>> /\ arrived = {}
  /\ got = [f \in Frames |-> {}] /\ open = {} /\ spoilt = {}
  /\ latest = 0 /\ shown = <<>> /\ frameDrop = 0 /\ missing = 0
  /\ waiting = FALSE /\ flushed = FALSE

(* A new receiver makes a new assembler. *)
VideoRenew ==
  /\ at' = <<1, 1>> /\ arrived' = {}
  /\ got' = [f \in Frames |-> {}] /\ open' = {} /\ spoilt' = {}
  /\ latest' = 0 /\ shown' = <<>> /\ frameDrop' = 0 /\ missing' = 0
  /\ waiting' = FALSE /\ flushed' = FALSE

AtFrame == at[1]
After == IF at[2] < FragCount[at[1]] THEN <<at[1], at[2] + 1>> ELSE <<at[1] + 1, 1>>

(* The magic word or the header is damaged: the parser goes past it. *)
LoseFragment ==
  /\ ~flushed /\ AtFrame \in Frames
  /\ at' = After
  /\ UNCHANGED <<arrived, got, open, spoilt, latest, shown, frameDrop, missing, waiting, flushed>>

(* _drop_stale_frames, when a frame newer than any before begins *)
Stale_OneLate == {f \in open : AtFrame > latest /\ f < AtFrame - MaxIncomplete - 1}
Stale == {f \in open : AtFrame > latest /\ f < AtFrame - MaxIncomplete}

(* frag_count - len(fragments), summed over the frames that are dropped *)
Lacking(fs) == Cardinality(UNION {{f} \X (Frags(f) \ got[f]) : f \in fs})

Held(fs) == open \ fs

Complete_Intact == got[AtFrame] \cup {at[2]} = Frags(AtFrame) /\ AtFrame \notin spoilt
Complete_Early == at[2] >= FragCount[AtFrame] - 1
Complete == got[AtFrame] \cup {at[2]} = Frags(AtFrame)

(* process_fragment, _complete_frame *)
TakeFragment(ok) ==
  /\ ~flushed /\ AtFrame \in Frames
  /\ at' = After /\ arrived' = arrived \cup {at}
  /\ latest' = IF AtFrame > latest THEN AtFrame ELSE latest
  /\ frameDrop' = frameDrop + Cardinality(Stale)
  /\ missing' = missing + Lacking(Stale)
  /\ open' = IF Complete THEN Held(Stale \cup {AtFrame}) ELSE Held(Stale) \cup {AtFrame}
  /\ got' = [f \in Frames |->
               IF f \in Stale \/ (f = AtFrame /\ Complete) THEN {}
               ELSE IF f = AtFrame THEN got[f] \cup {at[2]} ELSE got[f]]
  /\ spoilt' = IF ok THEN spoilt ELSE spoilt \cup {AtFrame}
  /\ shown' = IF Complete THEN Append(shown, AtFrame) ELSE shown
  /\ waiting' = IF Complete /\ AtFrame \in KeyFrames THEN FALSE ELSE waiting \/ Stale # {}
  /\ UNCHANGED flushed

(* flush_missing, when the receiver ends *)
Flush ==
  /\ ~flushed /\ flushed' = TRUE
  /\ frameDrop' = frameDrop + Cardinality(open)
  /\ missing' = missing + Lacking(open)
  /\ open' = Held(open) /\ got' = [f \in Frames |-> {}]
  /\ waiting' = (waiting \/ open # {})
  /\ UNCHANGED <<at, arrived, spoilt, latest, shown>>

VideoNext == LoseFragment \/ (\E ok \in BOOLEAN : TakeFragment(ok)) \/ Flush

VideoSpec == VideoInit /\ [][VideoNext]_videoVars

-----------------------------------------------------------------------------
Shown == {shown[i] : i \in 1 .. Len(shown)}
Begun == {f \in Frames : \E i \in Frags(f) : <<f, i>> \in arrived}

(* A frame of which anything arrived is counted once: it is shown, dropped   *)
(* or still under assembly, whether it aged out of the window, was completed *)
(* in or out of it, or was left when the receiver ended.                     *)
FramesAccounted == Len(shown) + frameDrop + Cardinality(open) = Cardinality(Begun)

(* frag_missing is the number of fragments that did not arrive of frames     *)
(* given up: none is counted for a frame still open, none twice.             *)
MissingExact ==
  missing = Cardinality({c \in Stream : c[1] \in Begun \ open /\ c \notin arrived})

(* The assembler holds the frames of its window and the newest one, however  *)
(* many lose a fragment.                                                     *)
WindowBounded == Cardinality(open) <= MaxIncomplete + 1

(* A frame is shown, and once, just when every fragment of it arrived with a *)
(* valid header: damaged payload keeps none back, and what happens to other  *)
(* frames costs it nothing.                                                  *)
ShownIffWhole ==
  /\ \A f \in Frames : f \in Shown <=> {f} \X Frags(f) \subseteq arrived
  /\ Len(shown) = Cardinality(Shown)
=============================================================================
