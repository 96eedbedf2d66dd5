------------------------------ MODULE EndToEnd ------------------------------
(* The sender and the whole board, from the file to the transmitter, over   *)
(* the one Ethernet cable of the README: packets and acknowledgements may   *)
(* be lost, but are neither repeated nor reordered.  It is LinkOrdered with *)
(* BoardRx in the place of Acceptor, and implements it (CableSpec).         *)
EXTENDS Sender

CONSTANTS
  NumBlocks, BlockBytes, LbBytes, CoalesceCount, HistoryDepth,   \* see BoardRx
  ChunkLen,     \* ChunkLen[n]: bytes of chunk n
  MaxQueue      \* bound: packets under way in a direction; more are lost

VARIABLES
  pc, session, crcOn, nextSeq, total, hist, histHead, blk, fill, nextOrder,
  dma, irq, hw, pend, lbPeer, lbLocked, out, accepted, air, lb, epoch,
  toBoard,      \* packets under way, oldest first
  toHost,       \* acknowledgements under way, oldest first
  content,      \* history, see Link: whose chunks the board accepted since the last RESET
  reached       \* history, see Link

boardVars == <<pc, session, crcOn, nextSeq, total, hist, histHead, blk, fill, nextOrder,
               dma, irq, hw, pend, lbPeer, lbLocked, out, accepted, air, lb, epoch>>
histVars  == <<content, reached>>
allVars   == <<senderVars, boardVars, toBoard, toHost, histVars>>

Sockets == (1 .. MaxTransfers) \X {"reset", "data"}

ASSUME EndAssumption ==
  /\ NumBlocks \in Nat \ {0} /\ BlockBytes \in Nat \ {0} /\ LbBytes \in Nat \ {0}
  /\ CoalesceCount \in Nat \ {0} /\ HistoryDepth \in Nat \ {0}
  /\ \A n \in 0 .. Total - 1 : ChunkLen[n] \in 1 .. BlockBytes
  /\ MaxQueue \in Nat

(* MaxResets never binds: no handshake sends more RESETs. *)
Board == INSTANCE BoardRx
  WITH Peers     <- Sockets,
       NoPeer    <- <<0, "none">>,
       Lens      <- {ChunkLen[n] : n \in 0 .. Total - 1},
       Sessions  <- UNION {SessionIds[t] : t \in 1 .. MaxTransfers},
       CrcModes  <- {TRUE},
       MaxSeq    <- Total,
       MaxResets <- MaxTransfers * (ResetRetries + 1)

(* What LinkOrdered sees of the board's answers; the sender does not read   *)
(* the length they report.                                                  *)
Seen(answers) ==
  [i \in DOMAIN answers |-> [to |-> answers[i].to, seq |-> answers[i].seq,
                             status |-> answers[i].status, re |-> answers[i].re]]

Cable == INSTANCE LinkOrdered
  WITH bSession <- session,
       pend     <- [to |-> pend.to, seq |-> pend.seq, count |-> pend.count],
       halted   <- dma.fatal,
       out      <- Seen(out)

EndInit ==
  /\ SenderInit /\ Board!Init
  /\ toBoard = <<>> /\ toHost = <<>>
  /\ content = <<>> /\ reached = [t \in 1 .. MaxTransfers |-> 0]

SenderStep ==
  /\ Local
  /\ toBoard' \in Cable!Queue(toBoard, sent')
  /\ UNCHANGED <<boardVars, toHost, histVars>>

SenderReads ==
  /\ toHost # <<>> /\ toHost' = Tail(toHost)
  /\ IF Cable!Open(Head(toHost).to) THEN Take(Head(toHost)) ELSE UNCHANGED senderVars
  /\ UNCHANGED <<boardVars, toBoard, histVars>>

Answered(p, n, len) ==
  \/ p.kind = "reset" /\ (Board!ResetRefused(p.from) \/ Board!Reset(p.from, p.sess, TRUE))
  \/ /\ p.kind = "data"
     /\ \/ Board!DataWrongSession(p.from, p.sess, n)
        \/ Board!DataAfterFatal(p.from, p.sess, n)
        \/ Board!DataAhead(p.from, p.sess, n)
        \/ Board!DataDuplicate(p.from, p.sess, n, len)
        \/ Board!DataNoSpace(p.from, p.sess, n, len)
        \/ Board!DataDamaged(p.from, p.sess, n, len)
        \/ Board!DataAccept(p.from, p.sess, n, len)

ContentAfter(p) ==
  IF epoch' # epoch THEN <<>> ELSE IF nextSeq' # nextSeq THEN Append(content, p.from[1]) ELSE content

BoardReceives ==
  /\ toBoard # <<>> /\ toBoard' = Tail(toBoard)
  /\ LET p == Head(toBoard) IN Answered(p, p.seq, ChunkLen[p.seq]) /\ content' = ContentAfter(p)
  /\ toHost' \in Cable!Answer(toHost, Seen(out'))
  /\ Cable!Reach
  /\ UNCHANGED senderVars

(* Net_Poll takes the packets that have arrived, up to its budget.          *)
BoardRuns ==
  /\ Board!MainLoop
  /\ toHost' \in Cable!Answer(toHost, Seen(out'))
  /\ UNCHANGED <<senderVars, toBoard, content>> /\ Cable!Reach

Interrupt ==
  /\ Board!Hardware
  /\ UNCHANGED <<senderVars, toBoard, toHost, content>> /\ Cable!Reach

EndNext == SenderStep \/ SenderReads \/ BoardReceives \/ BoardRuns \/ Interrupt

EndSpec == EndInit /\ [][EndNext]_allVars

(* The board's main loop never blocks and reads at most a budget of packets *)
(* at a time, so it keeps turning; a timer polled for ever is found elapsed. *)
(* Nothing is assumed of the hardware, the network or the sender.           *)
EndFairSpec ==
  /\ EndSpec
  /\ WF_allVars(BoardRuns)
  /\ SF_allVars(Board!AggTimeout /\ BoardRuns)

-----------------------------------------------------------------------------
(* Properties *)

(* The whole is the link of LinkOrdered: nothing of the board's blocks, DMA  *)
(* or history shows on the cable but as an answer that Acceptor may give.   *)
CableSpec == Cable!OrderedSpec

(* From the file to the air: while a transfer runs the board has chunks of  *)
(* this transfer only, no more than were sent, and each one the sender      *)
(* counts as acked was read by the transmitter or is held by exactly one    *)
(* block, unless the DMA failed.                                            *)
AckedIsOnItsWay ==
  stage \in {"fill", "drain", "retry", "done"} =>
    /\ session = sess
    /\ base <= nextSeq /\ nextSeq <= next
    /\ \A i \in DOMAIN content : content[i] = transfer
    /\ ~dma.fatal => \A n \in Len(air) .. base - 1 : Cardinality(Board!Holders(n)) = 1

(* A file reported as sent is transmitted to its last chunk, if the DMA     *)
(* channels keep becoming idle, unless the DMA fails or the user starts     *)
(* another transfer, whose RESET empties the board.                         *)
DoneReachesAir ==
  []<>(hw = Board!IdleHw) =>
    (stage = "done" ~> (Len(air) = Total \/ dma.fatal \/ stage # "done"))
=============================================================================
