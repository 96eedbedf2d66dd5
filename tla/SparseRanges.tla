---------------------------- MODULE SparseRanges ----------------------------
(* SparseFileAssembler (tools/pc_sender/receiver_core.py): the ranges of the *)
(* bytes written so far, as a sorted list in which _add_range merges each    *)
(* new one, and coverage(), which every decision of the receiver rests on.   *)
(* A range is <<start, end>>, end excluded.                                  *)
(*                                                                           *)
(* An operator whose name ends in _Word, before the one it resembles, is a   *)
(* seeded fault that no specification uses.                                  *)
EXTENDS Integers, Sequences, FiniteSets

CONSTANT Size   \* bound: bytes of the file

ASSUME SizeAssumption == Size \in Nat

VARIABLES ranges, written   \* written: every byte ever given to write()

sparseVars == <<ranges, written>>

Bytes(r) == r[1] .. (r[2] - 1)
Lower(a, b) == IF a < b THEN a ELSE b
Upper(a, b) == IF a < b THEN b ELSE a
Merged_TakesEnd(r, q) == <<Lower(r[1], q[1]), r[2]>>
Merged(r, q) == <<Lower(r[1], q[1]), Upper(r[2], q[2])>>

(* bisect_left: the ranges of rs that come before r *)
Before(rs, r) == Cardinality({i \in DOMAIN rs : rs[i][1] < r[1] \/ (rs[i][1] = r[1] /\ rs[i][2] < r[2])})

Touches(q, r) == q[2] >= r[1]

Reaches(r, q) == q[1] <= r[2]

(* The loop over the ranges that follow: r grows over each that it reaches,  *)
(* up to the first that it does not.                                         *)
Grown(r, rest) ==
  LET grown[n \in 0 .. Len(rest)] == IF n = 0 THEN r ELSE Merged(grown[n - 1], rest[n])
  IN  grown

Stops(r, rest, n) ==
  /\ \A i \in 1 .. n : Reaches(Grown(r, rest)[i - 1], rest[i])
  /\ n < Len(rest) => ~Reaches(Grown(r, rest)[n], rest[n + 1])

Absorb(r, rest) ==
  LET n == CHOOSE n \in 0 .. Len(rest) : Stops(r, rest, n)
  IN  <<Grown(r, rest)[n]>> \o SubSeq(rest, n + 1, Len(rest))

(* _add_range *)
AddRange(rs, r) ==
  LET index == Before(rs, r)
      back  == index > 0 /\ Touches(rs[index], r)
      kept  == SubSeq(rs, 1, IF back THEN index - 1 ELSE index)
  IN  kept \o Absorb(IF back THEN Merged(r, rs[index]) ELSE r, SubSeq(rs, index + 1, Len(rs)))

Hole_Touching(start, contiguous) == start >= contiguous
Hole(start, contiguous) == start > contiguous

(* coverage(), a range at a time *)
Covered(rs) ==
  LET seen[n \in 0 .. Len(rs)] ==
        IF n = 0 THEN [contiguous |-> 0, gaps |-> 0]
        ELSE IF Hole(rs[n][1], seen[n - 1].contiguous)
        THEN [seen[n - 1] EXCEPT !.gaps = @ + 1]
        ELSE [seen[n - 1] EXCEPT !.contiguous = Upper(@, rs[n][2])]
  IN  seen

Coverage(rs) == Covered(rs)[Len(rs)]

SparseInit == ranges = <<>> /\ written = {}

SparseWrite(start, end) ==
  /\ ranges' = AddRange(ranges, <<start, end>>)
  /\ written' = written \cup Bytes(<<start, end>>)

SparseNext == \E start \in 0 .. Size, end \in 0 .. Size : start < end /\ SparseWrite(start, end)

SparseSpec == SparseInit /\ [][SparseNext]_sparseVars

-----------------------------------------------------------------------------
(* The ranges cover just the bytes given to write() so far: a write adds its *)
(* own bytes to what they cover and none else, and takes none away, however  *)
(* the ranges touch, overlap and merge (_add_range).                         *)
Set == INSTANCE ByteSet
  WITH given   <- written,
       covered <- UNION {Bytes(ranges[i]) : i \in DOMAIN ranges}
IsByteSet == Set!Spec

(* coverage() gives the length of the part without holes and the number of   *)
(* pieces behind it, whatever was written twice or in several pieces.        *)
Starts == {o \in written : o - 1 \notin written}
CoverageExact ==
  LET c == Coverage(ranges) IN
  /\ 0 .. (c.contiguous - 1) \subseteq written /\ c.contiguous \notin written
  /\ c.gaps = Cardinality(Starts \ {0})
=============================================================================
