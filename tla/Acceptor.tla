------------------------------ MODULE Acceptor ------------------------------
(* What the board promises a host that speaks the UDP protocol to it,       *)
(* without blocks, DMA or history: a session, the next chunk it expects and *)
(* the OK it holds back.  BoardRx implements it (BoardRx!HostSpec) and Link *)
(* composes it with the sender.                                             *)
EXTENDS Naturals, Sequences

CONSTANTS
  Peers,          \* sockets of the hosts
  NoPeer,
  Sessions,
  NoSession,      \* no RESET was accepted yet
  Seqs,           \* sequence numbers a data packet may carry
  CoalesceCount   \* an OK is held back for at most so many chunks

VARIABLES
  session,
  nextSeq,        \* the chunk expected next
  pend,           \* the OK held back
  halted,         \* a fatal DMA error has happened
  out             \* the answers of the last step

vars == <<session, nextSeq, pend, halted, out>>

NoPend == [to |-> NoPeer, seq |-> 0, count |-> 0]

Init ==
  /\ session = NoSession /\ nextSeq = 0
  /\ pend = NoPend /\ halted = FALSE
  /\ out = <<>>

Ack(p, n, status, re) == [to |-> p, seq |-> n, status |-> status, re |-> re]

HeldBack == IF pend.count = 0 THEN <<>> ELSE <<Ack(pend.to, pend.seq, "OK", "data")>>

Answer(p, n, status, re) ==
  /\ out' = Append(HeldBack, Ack(p, n, status, re))
  /\ pend' = NoPend
  /\ UNCHANGED <<session, nextSeq, halted>>

(* A new session.  It forgets the old one with the OK that waited.          *)
Reset(p, s) ==
  /\ ~halted
  /\ session' = s /\ nextSeq' = 0
  /\ pend' = NoPend
  /\ out' = <<Ack(p, 0, "OK", "ctl")>>
  /\ UNCHANGED halted

ResetRefused(p) == Answer(p, 0, IF halted THEN "DMA_ERROR" ELSE "BUSY", "ctl")

Malformed(p) == \E status \in {"BAD_LENGTH", "BAD_MAGIC"} : Answer(p, 0, status, "ctl")

Register(p) ==
  /\ out' = <<Ack(p, 0, "OK", "ctl")>>
  /\ UNCHANGED <<session, nextSeq, pend, halted>>

Refused(s, n) ==
  CASE session # s -> {"PENDING"}
    [] session = s /\ halted -> {"DMA_ERROR"}
    [] session = s /\ ~halted /\ n > nextSeq -> {"PENDING"}
    [] session = s /\ ~halted /\ n = nextSeq -> {"BUSY", "BAD_LENGTH", "BAD_CHECKSUM"}
    [] OTHER -> {}

Refuse(p, s, n) == \E status \in Refused(s, n) : Answer(p, n, status, "data")

Repeated(p, s, n) ==
  /\ session = s /\ ~halted /\ n < nextSeq
  /\ Answer(p, n, "OK", "data")

(* The expected chunk.  Its OK may wait for later chunks of the same peer,  *)
(* and starting the DMA for it may fail.                                    *)
Accept(p, s, n) ==
  /\ session = s /\ ~halted /\ n = nextSeq
  /\ nextSeq' = n + 1
  /\ LET same  == pend.count > 0 /\ pend.to = p
         count == IF same THEN pend.count + 1 ELSE 1
         first == IF same THEN <<>> ELSE HeldBack
     IN \/ /\ count >= CoalesceCount
           /\ out' = Append(first, Ack(p, n, "OK", "data")) /\ pend' = NoPend
        \/ /\ count < CoalesceCount
           /\ out' = first /\ pend' = [to |-> p, seq |-> n, count |-> count]
  /\ halted' \in BOOLEAN
  /\ UNCHANGED session

Data(p, s, n) == Refuse(p, s, n) \/ Repeated(p, s, n) \/ Accept(p, s, n)

(* The timer of the OK that waits *)
Flush ==
  /\ pend.count > 0
  /\ out' = HeldBack /\ pend' = NoPend
  /\ UNCHANGED <<session, nextSeq, halted>>

(* Work inside the board, which may end in a fatal error but in no answer   *)
Internal ==
  /\ out' = <<>>
  /\ halted' \in {halted, TRUE}
  /\ UNCHANGED <<session, nextSeq, pend>>

Next ==
  \/ Flush \/ Internal
  \/ \E p \in Peers :
       \/ Malformed(p) \/ Register(p) \/ ResetRefused(p)
       \/ \E s \in Sessions : Reset(p, s) \/ \E n \in Seqs : Data(p, s, n)

Spec == Init /\ [][Next]_vars
=============================================================================
