------------------------------ MODULE ByteSet -------------------------------
(* What a sparse file promises: it knows which of its bytes were written,    *)
(* whatever the order, the overlap and the repetition of the writes.  What   *)
(* it says is covered grows with every write by the bytes given to write(),  *)
(* and by no other.                                                          *)
EXTENDS Integers

CONSTANT Size   \* bound: bytes of the file

VARIABLES
  given,     \* the bytes given to write() so far
  covered    \* those the file says it has

Stretch(start, end) == start .. (end - 1)

Init == given = {} /\ covered = {}

Write(start, end) ==
  /\ given' = given \cup Stretch(start, end)
  /\ covered' = covered \cup Stretch(start, end)

Next == \E start \in 0 .. Size, end \in 0 .. Size : start < end /\ Write(start, end)

Spec == Init /\ [][Next]_<<given, covered>>
=============================================================================
