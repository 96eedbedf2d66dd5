------------------------------ MODULE NalSplit ------------------------------
(* The split of an H.264 stream into the frames that AIRV sends              *)
(* (iter_h264_annexb_frames, _iter_frames_by_aud, frame_type_for_h264_annexb *)
(* in tools/pc_sender/video_protocol.py), a NAL unit of the list at a time.  *)
(*                                                                           *)
(* A NAL unit is an access unit delimiter, a parameter set, the first slice  *)
(* of a key or of another picture, or a further slice of a picture.  A       *)
(* stream has delimiters before every picture ("each"), before some          *)
(* ("some"), or none ("none"); the code asks only whether there is any.      *)
(*                                                                           *)
(* An operator whose name ends in _Word, before the one it resembles, is a   *)
(* seeded fault that no specification uses.                                  *)
EXTENDS Integers, Sequences, FiniteSets

CONSTANT MaxNals   \* bound: units of the stream

Kinds == {"aud", "param", "key", "delta", "more"}

IsVcl(k)   == k \in {"key", "delta", "more"}
IsFirst(k) == k \in {"key", "delta"}

VARIABLES
  delimited,  \* how the stream is delimited
  nals,       \* the units so far
  prefix, current, hasVcl,
  frames,     \* the frames yielded; each a sequence of positions in nals
  ended

nalVars == <<delimited, nals, prefix, current, hasVcl, frames, ended>>

NalInit ==
  /\ delimited \in {"each", "some", "none"}
  /\ nals = <<>> /\ prefix = <<>> /\ current = <<>> /\ hasVcl = FALSE
  /\ frames = <<>> /\ ended = FALSE

Last == IF nals = <<>> THEN "none" ELSE nals[Len(nals)]
SeenVcl == \E i \in DOMAIN nals : IsVcl(nals[i])

(* The order an encoder writes: a further slice follows a slice; where every *)
(* picture has a delimiter, that comes first and parameter sets behind it.   *)
Written(k) ==
  /\ k = "more" => IsVcl(Last)
  /\ k = "aud" => delimited # "none" /\ Last # "aud"
  /\ delimited = "each" =>
       /\ k = "param" => Last \in {"aud", "param"}
       /\ IsFirst(k)  => Last \in {"aud", "param"}
       /\ k = "aud"   => nals = <<>> \/ IsVcl(Last)
       /\ nals = <<>> => k = "aud"

Position == Len(nals) + 1

(* _iter_frames_by_aud *)
Boundary(k) == k = "aud" /\ current # <<>> /\ hasVcl

KeepPrefix(k) == current = <<>> /\ ~IsVcl(k)

ByAud(k) ==
  \/ /\ Boundary(k)
     /\ frames' = Append(frames, current) /\ current' = Append(prefix, Position)
     /\ prefix' = <<>> /\ hasVcl' = FALSE
  \/ /\ k = "aud" /\ ~Boundary(k)
     /\ current' = Append(current \o prefix, Position) /\ prefix' = <<>>
     /\ UNCHANGED <<hasVcl, frames>>
  \/ /\ k # "aud" /\ KeepPrefix(k)
     /\ prefix' = Append(prefix, Position) /\ UNCHANGED <<current, hasVcl, frames>>
  \/ /\ k # "aud" /\ ~KeepPrefix(k)
     /\ current' = Append(current, Position) /\ hasVcl' = (hasVcl \/ IsVcl(k))
     /\ UNCHANGED <<prefix, frames>>

(* Without delimiters a slice that starts at macroblock 0 starts a frame.    *)
Cut_EverySlice(k) == IsVcl(k) /\ hasVcl
Cut(k) == IsFirst(k) /\ hasVcl

BySlice(k) ==
  /\ IF Cut(k) THEN frames' = Append(frames, current) /\ current' = <<Position>>
     ELSE current' = Append(current, Position) /\ UNCHANGED frames
  /\ hasVcl' = (IF Cut(k) THEN TRUE ELSE hasVcl \/ IsVcl(k))
  /\ UNCHANGED prefix

Unit(k) ==
  /\ ~ended /\ Len(nals) < MaxNals /\ Written(k)
  /\ nals' = Append(nals, k)
  /\ IF delimited = "none" THEN BySlice(k) ELSE ByAud(k)
  /\ UNCHANGED <<delimited, ended>>

(* The list ends, in a delimited stream behind at least one delimiter.       *)
LastFrame_WithVcl == IF hasVcl THEN Append(frames, current) ELSE frames
LastFrame == IF current # <<>> THEN Append(frames, current) ELSE frames

End ==
  /\ ~ended /\ (delimited # "none" => \E i \in DOMAIN nals : nals[i] = "aud")
  /\ ended' = TRUE
  /\ frames' = LastFrame
  /\ UNCHANGED <<delimited, nals, prefix, current, hasVcl>>

NalNext == End \/ \E k \in Kinds : Unit(k)

NalSpec == NalInit /\ [][NalNext]_nalVars

-----------------------------------------------------------------------------
In(f) == {f[i] : i \in DOMAIN f}
Openers(f) == {i \in In(f) : IsFirst(nals[i])}

(* When the stream ends every unit of it is in exactly one frame, also those *)
(* before the first delimiter and those behind the last picture; and the     *)
(* frames, one behind the other, are the stream, unless only some of its     *)
(* pictures are delimited (then units before the first picture move behind   *)
(* it).                                                                      *)
EachUnitOnce == \A i \in DOMAIN nals : Cardinality({j \in DOMAIN frames : i \in In(frames[j])}) = 1
InOrder      == \A j, l \in DOMAIN frames : j < l => \A x \in In(frames[j]), y \in In(frames[l]) : x < y
FramesAreTheStream ==
  /\ ended => EachUnitOnce
  /\ delimited # "some" => InOrder

(* A frame carries the slices of one picture, all of them, so that a lost    *)
(* frame costs one picture; and in a delimited stream the parameter sets     *)
(* written for the picture (test_h264_multislice_frame_is_not_overcounted,   *)
(* test_h264_aud_boundaries_are_used).                                       *)
WrittenFor(i, p) == IsFirst(nals[p]) /\ p > i /\ \A q \in i .. (p - 1) : ~IsFirst(nals[q])
OnePicture(f) ==
  /\ Cardinality(Openers(f)) <= 1
  /\ \A i \in In(f) : nals[i] = "more" => Openers(f) # {}
ParametersTravelAlong(f) ==
  \A i \in In(f) : nals[i] = "param" => \A p \in DOMAIN nals : WrittenFor(i, p) => p \in In(f)
FrameIsPicture ==
  /\ delimited # "some" => \A j \in DOMAIN frames : OnePicture(frames[j])
  /\ delimited = "each" => \A j \in DOMAIN frames : ParametersTravelAlong(frames[j])
=============================================================================
