----------------------------- MODULE WireWords ------------------------------
(* The words of fixed width by which the board counts without end            *)
(* (drivers/net/net_rx.c): the sequence number of a chunk, compared as a     *)
(* signed difference.  BoardRx counts with numbers that do not wrap.         *)
(*                                                                           *)
(* The module runs the counts that wrap beside the true ones.  A chunk that  *)
(* reaches the board is at most Span chunks from the one it expects: the     *)
(* sender's window in front, what the network may still hold behind.         *)
(*                                                                           *)
(* An operator whose name ends in _Word, before the one it resembles, is a   *)
(* seeded fault that no specification uses.                                  *)
EXTENDS Integers

CONSTANTS
  Half,      \* half the number of words, 2^31
  Span,      \* how far a chunk under way is from the expected one
  Depth,     \* NET_COMPLETED_HISTORY_DEPTH
  MaxChunks  \* bound: chunks of the session

Word == 2 * Half

ASSUME WireWordsAssumption ==
  /\ Half \in Nat \ {0} /\ Span \in Nat /\ Depth \in Nat
  /\ MaxChunks \in Nat
  /\ Span < Half /\ Depth + Span < Word

VARIABLES
  accepted,      \* chunks accepted in this session
  expected,      \* next_expected_seq
  last           \* the chunk that arrived last, and what the board took it for

wireVars == <<accepted, expected, last>>

NameOf(n) == n % Word   \* the word that names chunk n

WireInit ==
  /\ accepted = 0 /\ expected = 0
  /\ last = [chunk |-> 0, at |-> 0, as |-> "none"]

(* net_seq_before: the difference of two words, read as signed *)
SeqBefore_Unsigned(a, b) == a < b
SeqBefore(a, b) == (a - b) % Word >= Half

(* net_find_accepted_len: the history names the last Depth chunks accepted. *)
Remembered(w) == \E j \in 0 .. (accepted - 1) : j >= accepted - Depth /\ w = NameOf(j)

Verdict(w) ==
  CASE Remembered(w)                       -> "duplicate"
    [] ~Remembered(w) /\ w = expected      -> "next"
    [] ~Remembered(w) /\ w # expected      ->
         IF SeqBefore(w, expected) THEN "duplicate" ELSE "pending"

Near(n) == n >= accepted - Span /\ n <= accepted + Span

(* A chunk that is a repetition, or comes too early. *)
Refuse(n) ==
  /\ Near(n) /\ Verdict(NameOf(n)) # "next"
  /\ last' = [chunk |-> n, at |-> accepted, as |-> Verdict(NameOf(n))]
  /\ UNCHANGED <<accepted, expected>>

(* The expected one. *)
Accept(n) ==
  /\ accepted < MaxChunks /\ Near(n) /\ Verdict(NameOf(n)) = "next"
  /\ last' = [chunk |-> n, at |-> accepted, as |-> "next"]
  /\ accepted' = accepted + 1 /\ expected' = (NameOf(n) + 1) % Word

WireNext ==
  \E n \in 0 .. (MaxChunks + Span) : Refuse(n) \/ Accept(n)

WireSpec == WireInit /\ [][WireNext]_wireVars

-----------------------------------------------------------------------------
WireTypeOK ==
  /\ accepted \in 0 .. MaxChunks /\ expected \in 0 .. (Word - 1)
  /\ last \in [chunk : Nat, at : Nat, as : {"none", "next", "duplicate", "pending"}]

(* However often the words have wrapped, the board takes a chunk for what it *)
(* is: the next one only when it is that, and OK is answered to no chunk     *)
(* that was not accepted (README: PENDING when seq > next_expected_seq).     *)
VerdictIsRight ==
  CASE last.as = "next"      -> last.chunk = last.at
    [] last.as = "duplicate" -> last.chunk < last.at
    [] last.as = "pending"   -> last.chunk > last.at
    [] OTHER                 -> TRUE
=============================================================================
