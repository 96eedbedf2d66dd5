----------------------------- MODULE StreamPipe -----------------------------
(***************************************************************************)
(* What the board promises its hosts, without blocks, interrupts, packets  *)
(* or acknowledgements: an ordered pipe from the network to the            *)
(* transmitter.  Chunks are taken one at a time and given on in the same   *)
(* order, any number at once; a restart, possible until the pipe has       *)
(* halted, forgets what was not yet given.                                 *)
(***************************************************************************)
EXTENDS Naturals, Sequences

CONSTANT Chunk

VARIABLES
  taken,   \* chunks accepted since the last restart
  given,   \* chunks handed to the transmitter since then
  halted

pvars == <<taken, given, halted>>

Init == taken = <<>> /\ given = <<>> /\ halted = FALSE

Take ==
  /\ ~halted /\ halted' \in BOOLEAN
  /\ \E c \in Chunk : taken' = Append(taken, c)
  /\ UNCHANGED given

Give ==
  /\ \E k \in Len(given) + 1 .. Len(taken) : given' = SubSeq(taken, 1, k)
  /\ UNCHANGED <<taken, halted>>

Halt == halted' = TRUE /\ UNCHANGED <<taken, given>>

Restart ==
  /\ ~halted
  /\ taken' = <<>> /\ given' = <<>>
  /\ UNCHANGED halted

Next == Take \/ Give \/ Halt \/ Restart

Spec == Init /\ [][Next]_pvars
=============================================================================
