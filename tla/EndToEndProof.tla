---------------------------- MODULE EndToEndProof ----------------------------
(***************************************************************************)
(* The sender, the cable and the complete board together are LinkOrdered,  *)
(* and the board among them is BoardRx.  So what was proved of the link    *)
(* about Acceptor and what was proved of the blocks and the DMA hold of    *)
(* the whole, and join: what the sender counts as acked was read by the    *)
(* transmitter or is in exactly one block.                                 *)
(***************************************************************************)
EXTENDS EndToEnd, TLAPS

(* The theorems about the board, for the board of this system ...           *)
B == INSTANCE BoardHostProof
  WITH Peers     <- Sockets,
       NoPeer    <- <<0, "none">>,
       Lens      <- {ChunkLen[n] : n \in 0 .. Total - 1},
       Sessions  <- UNION {SessionIds[t] : t \in 1 .. MaxTransfers},
       CrcModes  <- {TRUE},
       MaxSeq    <- Total,
       MaxResets <- MaxTransfers * (ResetRetries + 1)

(* ... and those about the link, for this cable.                            *)
Cab == INSTANCE LinkProof
  WITH bSession <- session,
       pend     <- [to |-> pend.to, seq |-> pend.seq, count |-> pend.count],
       halted   <- dma.fatal,
       out      <- Seen(out)

-----------------------------------------------------------------------------
(* Names.  Board and B are instances of the same module with the same       *)
(* parameters, and so are Cable and Cab; the provers are told so here.      *)

LEMMA SameReturn == Board!Return <=> B!Return
<1>1. Board!None = B!None /\ Board!Returned = B!Returned
  BY Zenon DEF Board!None, B!None, Board!Returned, B!Returned
<1>2. \A len : Board!Leaving(len) = B!Leaving(len)
  BY DEF Board!Leaving, B!Leaving
<1> QED
  BY Zenon, <1>1, <1>2 DEF Board!Return, B!Return

LEMMA SameStart ==
  ASSUME NEW X, NEW d, NEW f
  PROVE  Board!StartDma(X, d, f) <=> B!StartDma(X, d, f)
  BY Zenon DEF Board!StartDma, B!StartDma, Board!CanStart, B!CanStart, Board!InState, B!InState,
    Board!Block, B!Block, Board!Earliest, B!Earliest, Board!S2mmRefused, B!S2mmRefused,
    Board!Mm2sRefused, B!Mm2sRefused, Board!BothStarted, B!BothStarted, Board!NoFlags, B!NoFlags

LEMMA SameRelease ==
  ASSUME NEW d, NEW f
  PROVE  Board!ReleaseIfDone(d, f) <=> B!ReleaseIfDone(d, f)
  BY Zenon DEF Board!ReleaseIfDone, B!ReleaseIfDone, Board!CanRelease, B!CanRelease,
    Board!StartDma, B!StartDma, Board!FreeBlk, B!FreeBlk, Board!None, B!None, Board!CanStart,
    B!CanStart, Board!InState, B!InState, Board!Block, B!Block, Board!Earliest, B!Earliest,
    Board!S2mmRefused, B!S2mmRefused, Board!Mm2sRefused, B!Mm2sRefused, Board!BothStarted,
    B!BothStarted, Board!NoFlags, B!NoFlags

LEMMA SameControl ==
  ASSUME NEW p, NEW s, NEW crc, NEW status
  PROVE  /\ Board!Malformed(p, status) <=> B!Malformed(p, status)
         /\ Board!RxCfg(p) <=> B!RxCfg(p)
         /\ Board!ResetRefused(p) <=> B!ResetRefused(p)
         /\ Board!Reset(p, s, crc) <=> B!Reset(p, s, crc)
  BY Zenon DEF Board!Malformed, B!Malformed, Board!RxCfg, B!RxCfg, Board!ResetRefused,
    B!ResetRefused, Board!Reset, B!Reset, Board!SendNow, B!SendNow, Board!Unchanged,
    B!Unchanged, Board!Ack, B!Ack, Board!streamVars, B!streamVars, Board!aggVars, B!aggVars,
    Board!dmaVars, B!dmaVars, Board!ghostVars, B!ghostVars, Board!ResetAllowed, B!ResetAllowed,
    Board!NoChunk, B!NoChunk, Board!Block, B!Block, Board!FreeBlk, B!FreeBlk, Board!None,
    B!None, Board!IdleDma, B!IdleDma, Board!NoFlags, B!NoFlags, Board!NoPend, B!NoPend,
    Board!NoReturn, B!NoReturn, Board!PendingOk, B!PendingOk, Board!peerVars, B!peerVars

LEMMA SameRepeats ==
  ASSUME NEW p, NEW s, NEW n, NEW len
  PROVE  /\ Board!DataWrongSession(p, s, n) <=> B!DataWrongSession(p, s, n)
         /\ Board!DataAfterFatal(p, s, n) <=> B!DataAfterFatal(p, s, n)
         /\ Board!DataAhead(p, s, n) <=> B!DataAhead(p, s, n)
         /\ Board!DataDuplicate(p, s, n, len) <=> B!DataDuplicate(p, s, n, len)
  BY Zenon DEF Board!DataWrongSession, B!DataWrongSession, Board!DataAfterFatal,
    B!DataAfterFatal, Board!DataAhead, B!DataAhead, Board!DataDuplicate, B!DataDuplicate,
    Board!InSession, B!InSession, Board!SendNow, B!SendNow, Board!Unchanged, B!Unchanged,
    Board!Remembered, B!Remembered, Board!SeqBefore, B!SeqBefore, Board!None, B!None,
    Board!PendingOk, B!PendingOk, Board!Ack, B!Ack, Board!NoPend, B!NoPend, Board!streamVars,
    B!streamVars, Board!aggVars, B!aggVars, Board!dmaVars, B!dmaVars, Board!peerVars,
    B!peerVars, Board!ghostVars, B!ghostVars

LEMMA SameRefusals ==
  ASSUME NEW p, NEW s, NEW n, NEW len
  PROVE  /\ Board!DataNoSpace(p, s, n, len) <=> B!DataNoSpace(p, s, n, len)
         /\ Board!DataDamaged(p, s, n, len) <=> B!DataDamaged(p, s, n, len)
  BY Zenon DEF Board!DataNoSpace, B!DataNoSpace, Board!DataDamaged, B!DataDamaged,
    Board!Expected, B!Expected, Board!NoTarget, B!NoTarget, Board!RefuseExpected,
    B!RefuseExpected, Board!InSession, B!InSession, Board!Remembered, B!Remembered, Board!Fits,
    B!Fits, Board!InState, B!InState, Board!MadeRoom, B!MadeRoom, Board!FillAfterRefusal,
    B!FillAfterRefusal, Board!OrderAfter, B!OrderAfter, Board!SendNow, B!SendNow,
    Board!streamVars, B!streamVars, Board!dmaVars, B!dmaVars, Board!peerVars, B!peerVars,
    Board!ghostVars, B!ghostVars, Board!None, B!None, Board!Block, B!Block, Board!Submitted,
    B!Submitted, Board!PendingOk, B!PendingOk, Board!Ack, B!Ack, Board!NoPend, B!NoPend,
    Board!FreeBlk, B!FreeBlk

LEMMA SameAccept ==
  ASSUME NEW p, NEW s, NEW n, NEW len
  PROVE  Board!DataAccept(p, s, n, len) <=> B!DataAccept(p, s, n, len)
  BY Zenon DEF Board!DataAccept, B!DataAccept, Board!Expected, B!Expected, Board!Block, B!Block,
    Board!FillTarget, B!FillTarget, Board!Written, B!Written, Board!OrderAfter, B!OrderAfter,
    Board!None, B!None, Board!StartDma, B!StartDma, Board!Record, B!Record, Board!QueueOk,
    B!QueueOk, Board!ghostVars, B!ghostVars, Board!InSession, B!InSession, Board!Remembered,
    B!Remembered, Board!Fits, B!Fits, Board!InState, B!InState, Board!MadeRoom, B!MadeRoom,
    Board!Opened, B!Opened, Board!CanStart, B!CanStart, Board!Earliest, B!Earliest,
    Board!S2mmRefused, B!S2mmRefused, Board!Mm2sRefused, B!Mm2sRefused, Board!BothStarted,
    B!BothStarted, Board!NextHead, B!NextHead, Board!PendingOk, B!PendingOk, Board!CoalesceFull,
    B!CoalesceFull, Board!Ack, B!Ack, Board!NoPend, B!NoPend, Board!Submitted, B!Submitted,
    Board!NewFill, B!NewFill, Board!NoFlags, B!NoFlags, Board!FreeBlk, B!FreeBlk

LEMMA SameTimers ==
  /\ Board!InputDrained <=> B!InputDrained
  /\ Board!AggTimeout <=> B!AggTimeout
  /\ Board!AggNotDue <=> B!AggNotDue
  /\ Board!AckTimeout <=> B!AckTimeout
  /\ Board!AckNotDue <=> B!AckNotDue
  BY Zenon DEF Board!InputDrained, B!InputDrained, Board!AggTimeout, B!AggTimeout,
    Board!AggNotDue, B!AggNotDue, Board!AckTimeout, B!AckTimeout, Board!AckNotDue, B!AckNotDue,
    Board!Quiet, B!Quiet, Board!streamVars, B!streamVars, Board!aggVars, B!aggVars,
    Board!dmaVars, B!dmaVars, Board!peerVars, B!peerVars, Board!ghostVars, B!ghostVars,
    Board!AggDue, B!AggDue, Board!Submitted, B!Submitted, Board!None, B!None, Board!PendingOk,
    B!PendingOk, Board!NoPend, B!NoPend, Board!FreeBlk, B!FreeBlk, Board!Ack, B!Ack

LEMMA SameS2mm ==
  /\ Board!S2mmNothing <=> B!S2mmNothing
  /\ Board!S2mmError <=> B!S2mmError
  /\ Board!S2mmDone <=> B!S2mmDone
  BY Zenon, SameReturn DEF Board!S2mmNothing, B!S2mmNothing, Board!S2mmError, B!S2mmError,
    Board!S2mmDone, B!S2mmDone, Board!Quiet, B!Quiet, Board!streamVars, B!streamVars,
    Board!aggVars, B!aggVars, Board!dmaVars, B!dmaVars, Board!peerVars, B!peerVars,
    Board!ghostVars, B!ghostVars, Board!ReleaseIfDone, B!ReleaseIfDone, Board!CanRelease,
    B!CanRelease, Board!StartDma, B!StartDma, Board!FreeBlk, B!FreeBlk, Board!None, B!None,
    Board!CanStart, B!CanStart, Board!InState, B!InState, Board!Block, B!Block, Board!Earliest,
    B!Earliest, Board!S2mmRefused, B!S2mmRefused, Board!Mm2sRefused, B!Mm2sRefused,
    Board!BothStarted, B!BothStarted, Board!NoFlags, B!NoFlags

LEMMA SameTx ==
  /\ Board!PollStart <=> B!PollStart
  /\ Board!TxNothing <=> B!TxNothing
  /\ Board!TxFailed <=> B!TxFailed
  /\ Board!TxDone <=> B!TxDone
  BY Zenon DEF Board!PollStart, B!PollStart, Board!TxNothing, B!TxNothing, Board!TxFailed,
    B!TxFailed, Board!TxDone, B!TxDone, Board!dmaVars, B!dmaVars, Board!StartDma, B!StartDma,
    Board!Quiet, B!Quiet, Board!streamVars, B!streamVars, Board!peerVars, B!peerVars,
    Board!ghostVars, B!ghostVars, Board!aggVars, B!aggVars, Board!ReleaseIfDone,
    B!ReleaseIfDone, Board!CanStart, B!CanStart, Board!InState, B!InState, Board!Block, B!Block,
    Board!Earliest, B!Earliest, Board!S2mmRefused, B!S2mmRefused, Board!Mm2sRefused,
    B!Mm2sRefused, Board!BothStarted, B!BothStarted, Board!CanRelease, B!CanRelease,
    Board!FreeBlk, B!FreeBlk, Board!None, B!None, Board!NoFlags, B!NoFlags

LEMMA SameHardware == Board!Hardware <=> B!Hardware
  BY Zenon DEF Board!Hardware, B!Hardware, Board!TxIoc, B!TxIoc, Board!TxErrIrq, B!TxErrIrq,
    Board!RxIoc, B!RxIoc, Board!RxErrIrq, B!RxErrIrq, Board!None, B!None, Board!IrqFrame,
    B!IrqFrame, Board!IdleHw, B!IdleHw, Board!streamVars, B!streamVars, Board!aggVars,
    B!aggVars, Board!peerVars, B!peerVars

LEMMA SameBoard ==
  ASSUME NEW p, NEW s, NEW n, NEW len, NEW crc
  PROVE  /\ Board!Init <=> B!Init
         /\ Board!Next <=> B!Next
         /\ Board!vars = B!vars
         /\ Board!ResetRefused(p) <=> B!ResetRefused(p)
         /\ Board!Reset(p, s, crc) <=> B!Reset(p, s, crc)
         /\ Board!DataWrongSession(p, s, n) <=> B!DataWrongSession(p, s, n)
         /\ Board!DataAfterFatal(p, s, n) <=> B!DataAfterFatal(p, s, n)
         /\ Board!DataAhead(p, s, n) <=> B!DataAhead(p, s, n)
         /\ Board!DataDuplicate(p, s, n, len) <=> B!DataDuplicate(p, s, n, len)
         /\ Board!DataNoSpace(p, s, n, len) <=> B!DataNoSpace(p, s, n, len)
         /\ Board!DataDamaged(p, s, n, len) <=> B!DataDamaged(p, s, n, len)
         /\ Board!DataAccept(p, s, n, len) <=> B!DataAccept(p, s, n, len)
         /\ Board!MainLoop <=> B!MainLoop
         /\ Board!Hardware <=> B!Hardware
         /\ Cardinality(Board!Holders(n)) = B!Cardinality(B!Holders(n))
<1>1. Board!Init <=> B!Init
  BY Zenon DEF Board!Init, B!Init, Board!None, B!None, Board!NoChunk, B!NoChunk, Board!Block,
    B!Block, Board!FreeBlk, B!FreeBlk, Board!IdleDma, B!IdleDma, Board!NoFlags, B!NoFlags,
    Board!IdleHw, B!IdleHw, Board!NoPend, B!NoPend, Board!NoReturn, B!NoReturn
<1>2. Board!vars = B!vars
  BY Zenon DEF Board!vars, B!vars, Board!streamVars, B!streamVars, Board!aggVars, B!aggVars,
    Board!dmaVars, B!dmaVars, Board!ackVars, B!ackVars, Board!peerVars, B!peerVars,
    Board!ghostVars, B!ghostVars
<1>3. Board!MainLoop <=> B!MainLoop
  BY Zenon, SameTimers, SameS2mm, SameTx DEF Board!MainLoop, B!MainLoop
<1>4. ASSUME NEW host PROVE Board!Receive(host) <=> B!Receive(host)
  <2>1. \A id, k, l :
          /\ Board!DataWrongSession(host, id, k) <=> B!DataWrongSession(host, id, k)
          /\ Board!DataAfterFatal(host, id, k) <=> B!DataAfterFatal(host, id, k)
          /\ Board!DataAhead(host, id, k) <=> B!DataAhead(host, id, k)
          /\ Board!DataDuplicate(host, id, k, l) <=> B!DataDuplicate(host, id, k, l)
    BY SameRepeats
  <2>2. \A id, k, l :
          /\ Board!DataNoSpace(host, id, k, l) <=> B!DataNoSpace(host, id, k, l)
          /\ Board!DataDamaged(host, id, k, l) <=> B!DataDamaged(host, id, k, l)
          /\ Board!DataAccept(host, id, k, l) <=> B!DataAccept(host, id, k, l)
    BY SameRefusals, SameAccept
  <2>3. \A id, c, why :
          /\ Board!Malformed(host, why) <=> B!Malformed(host, why)
          /\ Board!RxCfg(host) <=> B!RxCfg(host)
          /\ Board!ResetRefused(host) <=> B!ResetRefused(host)
          /\ Board!Reset(host, id, c) <=> B!Reset(host, id, c)
    BY SameControl
  <2>4. ASSUME Board!Receive(host) PROVE B!Receive(host)
    BY ZenonT(60), <2>1, <2>2, <2>3, <2>4 DEF Board!Receive, B!Receive
  <2>5. ASSUME B!Receive(host) PROVE Board!Receive(host)
    BY ZenonT(60), <2>1, <2>2, <2>3, <2>5 DEF Board!Receive, B!Receive
  <2> QED
    BY <2>4, <2>5
<1>5. Board!Next <=> B!Next
  BY Zenon, <1>3, <1>4, SameHardware DEF Board!Next, B!Next
<1>6. Cardinality(Board!Holders(n)) = B!Cardinality(B!Holders(n))
  BY Zenon DEF Cardinality, B!Cardinality, Board!Holders, B!Holders, Board!Block, B!Block
<1> QED
  BY Zenon, <1>1, <1>2, <1>3, <1>5, <1>6, SameHardware, SameControl, SameRepeats, SameRefusals,
    SameAccept

LEMMA SameLink ==
  ASSUME NEW a, NEW q, NEW r, NEW to
  PROVE  /\ Cable!OrderedInit <=> Cab!OrderedInit
         /\ Cable!OrderedNext <=> Cab!OrderedNext
         /\ Cable!linkVars = Cab!linkVars
         /\ SenderInit <=> Cab!SenderInit
         /\ Local <=> Cab!Local
         /\ Take(a) <=> Cab!Take(a)
         /\ Cable!Queue(q, r) = Cab!Queue(q, r)
         /\ Cable!Answer(q, r) = Cab!Answer(q, r)
         /\ Cable!Reach <=> Cab!Reach
         /\ Cable!Open(to) <=> Cab!Open(to)
  BY Zenon DEF Seen, Cardinality, Cab!Cardinality, Cable!Cardinality,
    windowVars, Cab!windowVars, Cable!windowVars, transferVars, Cab!transferVars,
    Cable!transferVars, senderVars, Cab!senderVars, Cable!senderVars, Ended, Cab!Ended,
    Cable!Ended, ResetSocket, Cab!ResetSocket, Cable!ResetSocket, DataSocket, Cab!DataSocket,
    Cable!DataSocket, ResetPacket, Cab!ResetPacket, Cable!ResetPacket, DataPacket,
    Cab!DataPacket, Cable!DataPacket, Emit, Cab!Emit, Cable!Emit, Silent, Cab!Silent,
    Cable!Silent, SenderInit, Cab!SenderInit, Cable!SenderInit, Begin, Cab!Begin, Cable!Begin,
    RequestStop, Cab!RequestStop, Cable!RequestStop, SendReset, Cab!SendReset, Cable!SendReset,
    ResetGivenUp, Cab!ResetGivenUp, Cable!ResetGivenUp, ResetTimeout, Cab!ResetTimeout,
    Cable!ResetTimeout, ResetOutcome, Cab!ResetOutcome, Cable!ResetOutcome, ResetAnswer,
    Cab!ResetAnswer, Cable!ResetAnswer, Limit, Cab!Limit, Cable!Limit, HasRoom, Cab!HasRoom,
    Cable!HasRoom, Extended, Cab!Extended, Cable!Extended, AllAcked, Cab!AllAcked,
    Cable!AllAcked, SendNext, Cab!SendNext, Cable!SendNext, Stop, Cab!Stop, Cable!Stop, Filled,
    Cab!Filled, Cable!Filled, Finish, Cab!Finish, Cable!Finish, Oldest, Cab!Oldest, Cable!Oldest,
    AckTaken, Cab!AckTaken, Cable!AckTaken, AfterAck, Cab!AfterAck, Cable!AfterAck, Halved,
    Cab!Halved, Cable!Halved, Adapt, Cab!Adapt, Cable!Adapt, IgnoreAck, Cab!IgnoreAck,
    Cable!IgnoreAck, Completed, Cab!Completed, Cable!Completed, OkAck, Cab!OkAck, Cable!OkAck,
    PendingAck, Cab!PendingAck, Cable!PendingAck, Exhausted, Cab!Exhausted, Cable!Exhausted,
    RefusedAck, Cab!RefusedAck, Cable!RefusedAck, RefusedTooOften, Cab!RefusedTooOften,
    Cable!RefusedTooOften, TakeAck, Cab!TakeAck, Cable!TakeAck, Drained, Cab!Drained,
    Cable!Drained, NothingDue, Cab!NothingDue, Cable!NothingDue, MayResend, Cab!MayResend,
    Cable!MayResend, Resent, Cab!Resent, Cable!Resent, Resend, Cab!Resend, Cable!Resend,
    RetriesExhausted, Cab!RetriesExhausted, Cable!RetriesExhausted, Local, Cab!Local,
    Cable!Local, Take, Cab!Take, Cable!Take, Cable!boardVars, Cab!boardVars, Cable!netVars,
    Cab!netVars, Cable!histVars, Cab!histVars, Cable!linkVars, Cab!linkVars, Cable!Transfers,
    Cab!Transfers, Cable!Sockets, Cab!Sockets, Cable!Open, Cab!Open, Cable!InARow, Cab!InARow,
    Cable!Reach, Cab!Reach, Cable!BoardReset, Cab!BoardReset, Cable!BoardData, Cab!BoardData,
    Cable!OrderedInit, Cab!OrderedInit, Cable!Queue, Cab!Queue, Cable!OrderedSend,
    Cab!OrderedSend, Cable!OrderedRead, Cab!OrderedRead, Cable!Answer, Cab!Answer,
    Cable!OrderedBoard, Cab!OrderedBoard, Cable!OrderedNext, Cab!OrderedNext, Cable!Board!NoPend,
    Cab!Board!NoPend, Cable!Board!Init, Cab!Board!Init, Cable!Board!Ack, Cab!Board!Ack,
    Cable!Board!HeldBack, Cab!Board!HeldBack, Cable!Board!Answer, Cab!Board!Answer,
    Cable!Board!Reset, Cab!Board!Reset, Cable!Board!ResetRefused, Cab!Board!ResetRefused,
    Cable!Board!Refused, Cab!Board!Refused, Cable!Board!Refuse, Cab!Board!Refuse,
    Cable!Board!Repeated, Cab!Board!Repeated, Cable!Board!Accept, Cab!Board!Accept,
    Cable!Board!Data, Cab!Board!Data, Cable!Board!Flush, Cab!Board!Flush, Cable!Board!Internal,
    Cab!Board!Internal

(* The board as the host sees it is the board of the link.                  *)
LEMMA SameHost ==
  ASSUME NEW p, NEW s, NEW n
  PROVE  /\ B!Host!Init <=> Cab!Board!Init
         /\ B!Host!Reset(p, s) <=> Cab!Board!Reset(p, s)
         /\ B!Host!ResetRefused(p) <=> Cab!Board!ResetRefused(p)
         /\ B!Host!Data(p, s, n) <=> Cab!Board!Data(p, s, n)
         /\ B!Host!Flush <=> Cab!Board!Flush
         /\ B!Host!Internal <=> Cab!Board!Internal
  BY Zenon DEF Seen, B!None,
    B!Host!NoPend, Cab!Board!NoPend, B!Host!Init, Cab!Board!Init, B!Host!Ack, Cab!Board!Ack,
    B!Host!HeldBack, Cab!Board!HeldBack, B!Host!Answer, Cab!Board!Answer, B!Host!Reset,
    Cab!Board!Reset, B!Host!ResetRefused, Cab!Board!ResetRefused, B!Host!Refused,
    Cab!Board!Refused, B!Host!Refuse, Cab!Board!Refuse, B!Host!Repeated, Cab!Board!Repeated,
    B!Host!Accept, Cab!Board!Accept, B!Host!Data, Cab!Board!Data, B!Host!Flush, Cab!Board!Flush,
    B!Host!Internal, Cab!Board!Internal

-----------------------------------------------------------------------------
(* The parameters are in range. *)
LEMMA BoardParams == B!BoardAssumption
<1> DEFINE L == {ChunkLen[n] : n \in 0 .. Total - 1}
           S == UNION {SessionIds[t] : t \in 1 .. MaxTransfers}
<1>1. L \subseteq 1 .. BlockBytes
  BY EndAssumption DEF EndAssumption
<1>2. S \subseteq Nat
  BY Zenon, SenderAssumption DEF SenderAssumption
<1>3. <<0, "none">> \notin Sockets
  BY DEF Sockets
<1>4. {TRUE} \subseteq BOOLEAN
  OBVIOUS
<1>5. Total \in Nat /\ MaxTransfers * (ResetRetries + 1) \in Nat
  BY SenderAssumption DEF SenderAssumption
<1>6. /\ NumBlocks \in Nat \ {0} /\ BlockBytes \in Nat \ {0} /\ LbBytes \in Nat \ {0}
      /\ CoalesceCount \in Nat \ {0} /\ HistoryDepth \in Nat \ {0}
  BY EndAssumption DEF EndAssumption
<1> QED
  BY Zenon, <1>1, <1>2, <1>3, <1>4, <1>5, <1>6 DEF B!BoardAssumption

LEMMA CabParams == Cab!SenderAssumption
  BY Zenon, SenderAssumption DEF SenderAssumption, Cab!SenderAssumption

-----------------------------------------------------------------------------
(* What is true of the whole *)

EndInv == B!TypeOK /\ B!HistInv /\ Cab!OrderedInv

(* The packet at the front is one the board may be given.                   *)
LEMMA FrontPacket ==
  ASSUME EndInv, toBoard # <<>>, toBoard' = Tail(toBoard), NEW p, p = Head(toBoard)
  PROVE  /\ p.from \in Sockets /\ p.from[1] \in 1 .. MaxTransfers
         /\ p.kind \in {"reset", "data"}
         /\ p.sess \in UNION {SessionIds[t] : t \in 1 .. MaxTransfers}
         /\ p.kind = "data" => /\ p.seq \in 0 .. Total - 1
                               /\ ChunkLen[p.seq] \in {ChunkLen[n] : n \in 0 .. Total - 1}
<1>1. Cab!SenderInv /\ Cab!InOrder
  BY DEF EndInv, Cab!OrderedInv
<1>2. p \in Cab!Elements(toBoard) /\ p \in Cab!Packets
  BY <1>1, CabParams, Cab!BehindTheFront
<1>3. Cab!Genuine(p)
  BY <1>1, <1>2 DEF Cab!InOrder
<1>4. p.from \in Sockets /\ p.kind \in {"reset", "data"} /\ p.from[1] \in 1 .. MaxTransfers
  BY <1>2 DEF Cab!Packets, Cab!Sockets, Cab!Transfers, Sockets
<1>5. p.sess \in SessionIds[p.from[1]] /\ (p.kind = "data" => p.seq \in 0 .. Total - 1)
  BY <1>3 DEF Cab!Genuine
<1> QED
  BY Zenon, <1>4, <1>5

-----------------------------------------------------------------------------
(* Every step of the whole is one of the board, or none.                    *)

LEMMA BoardStep == EndInv /\ [EndNext]_allVars => [B!Next]_(B!vars)
<1> SUFFICES ASSUME EndInv, [EndNext]_allVars PROVE [B!Next]_(B!vars)
  OBVIOUS
<1>1. CASE UNCHANGED boardVars
  BY Zenon, <1>1 DEF boardVars, B!vars, B!streamVars, B!aggVars, B!dmaVars, B!ackVars, B!peerVars,
                     B!ghostVars
<1>2. CASE UNCHANGED allVars
  BY Zenon, <1>1, <1>2 DEF allVars
<1>3. CASE SenderStep \/ SenderReads
  BY Zenon, <1>1, <1>3 DEF SenderStep, SenderReads
<1>4. CASE BoardReceives
  <2> DEFINE p == Head(toBoard)
             n == p.seq
             len == ChunkLen[p.seq]
  <2>1. Answered(p, n, len)
    BY Zenon, <1>4 DEF BoardReceives
  <2>2. /\ p.from \in Sockets
        /\ p.sess \in UNION {SessionIds[t] : t \in 1 .. MaxTransfers}
        /\ p.kind = "data" => /\ n \in 0 .. Total - 1
                              /\ len \in {ChunkLen[m] : m \in 0 .. Total - 1}
    BY Zenon, <1>4, FrontPacket DEF BoardReceives
  <2> HIDE DEF p, n, len
  <2>3. B!Receive(p.from)
    BY Zenon, <2>1, <2>2, SameBoard DEF Answered, B!Receive
  <2> QED
    BY Zenon, <2>2, <2>3 DEF B!Next
<1>5. CASE BoardRuns \/ Interrupt
  BY Zenon, <1>5, SameBoard DEF BoardRuns, Interrupt, B!Next
<1> QED
  BY Zenon, <1>2, <1>3, <1>4, <1>5 DEF EndNext

-----------------------------------------------------------------------------
(* Every step of the whole is one of the link, or none.                     *)

LEMMA SenderOnCable ==
  ASSUME SenderStep \/ SenderReads
  PROVE  Cab!OrderedNext
<1>1. UNCHANGED boardVars => UNCHANGED Cab!boardVars
  BY Zenon DEF boardVars, Cab!boardVars, Seen
<1>2. CASE SenderStep
  <2>1. Cab!Local /\ toBoard' \in Cab!Queue(toBoard, sent') /\ UNCHANGED <<boardVars, toHost, histVars>>
    BY Zenon, <1>2, SameLink DEF SenderStep
  <2> QED
    BY Zenon, <1>1, <2>1 DEF Cab!OrderedNext, Cab!OrderedSend, histVars, Cab!histVars
<1>3. CASE SenderReads
  <2> DEFINE a == Head(toHost)
  <2>1. /\ toHost # <<>> /\ toHost' = Tail(toHost)
        /\ IF Cable!Open(a.to) THEN Take(a) ELSE UNCHANGED senderVars
        /\ UNCHANGED <<boardVars, toBoard, histVars>>
    BY Zenon, <1>3 DEF SenderReads
  <2>2. (Cable!Open(a.to) <=> Cab!Open(a.to)) /\ (Take(a) <=> Cab!Take(a))
    BY Zenon, SameLink
  <2>3. senderVars = Cab!senderVars /\ senderVars' = Cab!senderVars'
    BY Zenon DEF senderVars, Cab!senderVars, transferVars, Cab!transferVars, windowVars, Cab!windowVars
  <2> QED
    BY Zenon, <1>1, <2>1, <2>2, <2>3
       DEF Cab!OrderedNext, Cab!OrderedRead, histVars, Cab!histVars
<1> QED
  BY Zenon, <1>2, <1>3

(* A packet is handled as Acceptor may handle it; the chunks it counts and  *)
(* whose they are change with it.                                           *)
LEMMA PacketOnCable ==
  ASSUME EndInv, B!TypeOK', toBoard # <<>>, toBoard' = Tail(toBoard),
         NEW p, NEW n, NEW len, p = Head(toBoard), n = p.seq, len = ChunkLen[p.seq],
         Answered(p, n, len), content' = ContentAfter(p)
  PROVE  Cab!BoardReset(p) \/ Cab!BoardData(p)
<1> DEFINE S == UNION {SessionIds[t] : t \in 1 .. MaxTransfers}
           L == {ChunkLen[m] : m \in 0 .. Total - 1}
<1>2. /\ p.from \in Sockets /\ p.sess \in S
      /\ p.kind = "data" => n \in 0 .. Total - 1 /\ len \in L
  BY Zenon, FrontPacket
<1>3. B!TypeOK /\ B!HistInv
  BY DEF EndInv
<1>4. epoch \in Nat
  BY <1>3 DEF B!TypeOK
<1> HIDE DEF S, L
<1>5. CASE p.kind = "reset"
  <2>1. B!ResetRefused(p.from) \/ B!Reset(p.from, p.sess, TRUE)
    BY Zenon, <1>5, SameBoard DEF Answered
  <2>2. CASE B!ResetRefused(p.from)
    <3>1. epoch' = epoch /\ nextSeq' = nextSeq
      BY Zenon, <2>2 DEF B!ResetRefused, B!Unchanged, B!streamVars, B!ghostVars
    <3>2. B!Host!ResetRefused(p.from)
      BY Zenon, <1>3, <2>2, BoardParams, B!ResetRefusedMaps
    <3>3. Cab!Board!ResetRefused(p.from)
      BY Zenon, <3>2, SameHost
    <3>4. content' = content
      BY Zenon, <3>1 DEF ContentAfter
    <3> QED
      BY Zenon, <1>5, <3>3, <3>4 DEF Cab!BoardReset
  <2>3. CASE B!Reset(p.from, p.sess, TRUE)
    <3>1. epoch' = epoch + 1
      BY Zenon, <2>3 DEF B!Reset
    <3>2. content' = <<>>
      BY <1>4, <3>1 DEF ContentAfter
    <3>3. B!Host!Reset(p.from, p.sess)
      BY Zenon, <1>3, <2>3, BoardParams, B!ResetMaps
    <3>4. Cab!Board!Reset(p.from, p.sess)
      BY Zenon, <3>3, SameHost
    <3> QED
      BY Zenon, <1>5, <3>2, <3>4 DEF Cab!BoardReset
  <2> QED
    BY Zenon, <2>1, <2>2, <2>3
<1>6. CASE p.kind = "data"
  <2>1. \/ \/ B!DataWrongSession(p.from, p.sess, n) \/ B!DataAfterFatal(p.from, p.sess, n)
           \/ B!DataAhead(p.from, p.sess, n) \/ B!DataDuplicate(p.from, p.sess, n, len)
           \/ B!DataNoSpace(p.from, p.sess, n, len) \/ B!DataDamaged(p.from, p.sess, n, len)
        \/ B!DataAccept(p.from, p.sess, n, len)
    BY Zenon, <1>6, SameBoard DEF Answered
  <2>2. epoch' = epoch
    BY Zenon, <2>1 DEF B!DataWrongSession, B!DataAfterFatal, B!DataAhead, B!DataDuplicate,
       B!DataNoSpace, B!DataDamaged, B!RefuseExpected, B!DataAccept, B!Unchanged, B!ghostVars
  <2>3. B!Host!Data(p.from, p.sess, n)
    <3>1. CASE B!DataAccept(p.from, p.sess, n, len)
      <4>1. B!Host!Accept(p.from, p.sess, n)
        BY Zenon, <1>2, <1>3, <1>6, <3>1, BoardParams, B!AcceptMaps DEF S, L
      <4> QED
        BY Zenon, <4>1 DEF B!Host!Data
    <3>2. CASE \/ B!DataWrongSession(p.from, p.sess, n) \/ B!DataAfterFatal(p.from, p.sess, n)
               \/ B!DataAhead(p.from, p.sess, n) \/ B!DataDuplicate(p.from, p.sess, n, len)
               \/ B!DataNoSpace(p.from, p.sess, n, len) \/ B!DataDamaged(p.from, p.sess, n, len)
      BY Zenon, <1>2, <1>3, <1>6, <3>2, BoardParams, B!RefusalMaps DEF S
    <3> QED
      BY Zenon, <2>1, <3>1, <3>2
  <2>4. Cab!Board!Data(p.from, p.sess, n)
    BY Zenon, <2>3, SameHost
  <2>5. content' = IF nextSeq' # nextSeq THEN Append(content, p.from[1]) ELSE content
    BY Zenon, <2>2 DEF ContentAfter
  <2> QED
    BY Zenon, <1>6, <2>4, <2>5 DEF Cab!BoardData
<1> QED
  BY Zenon, <1>5, <1>6 DEF Answered

LEMMA BoardOnCable ==
  ASSUME EndInv, B!TypeOK', BoardReceives \/ BoardRuns \/ Interrupt
  PROVE  Cab!OrderedNext
<1>1. /\ toHost' \in Cab!Answer(toHost, Seen(out)') /\ Cab!Reach /\ UNCHANGED senderVars
      /\ \/ BoardReceives /\ toBoard # <<>> /\ toBoard' = Tail(toBoard)
         \/ (B!MainLoop \/ B!Hardware) /\ UNCHANGED <<content, toBoard>>
  <2>1. toHost \in Cab!Answer(toHost, Seen(out'))
    BY Zenon DEF Cab!Answer, Cab!Queue
  <2>2. Seen(out)' = Seen(out')
    BY Zenon DEF Seen
  <2> QED
    BY Zenon, <2>1, <2>2, SameBoard, SameLink DEF BoardReceives, BoardRuns, Interrupt
<1>2. senderVars = Cab!senderVars /\ senderVars' = Cab!senderVars'
  BY Zenon DEF senderVars, Cab!senderVars, transferVars, Cab!transferVars, windowVars, Cab!windowVars
<1>3. CASE BoardReceives
  <2>1. PICK p, n, len : p = Head(toBoard) /\ n = p.seq /\ len = ChunkLen[p.seq]
    OBVIOUS
  <2>2. Answered(p, n, len) /\ content' = ContentAfter(p)
    BY Zenon, <1>3, <2>1 DEF BoardReceives
  <2>3. Cab!BoardReset(p) \/ Cab!BoardData(p)
    BY Zenon, <1>1, <1>3, <2>1, <2>2, PacketOnCable DEF BoardReceives
  <2>4. Cab!BoardReset(Head(toBoard)) \/ Cab!BoardData(Head(toBoard))
    BY Zenon, <2>1, <2>3
  <2> QED
    BY Zenon, <1>1, <1>2, <1>3, <2>4 DEF BoardReceives, Cab!OrderedNext, Cab!OrderedBoard
<1>4. CASE (B!MainLoop \/ B!Hardware) /\ UNCHANGED <<content, toBoard>>
  <2>1. dma.fatal => dma'.fatal
    BY Zenon, <1>4, BoardParams, B!FatalStep DEF EndInv, B!Next
  <2>2. B!Host!Flush \/ B!Host!Internal
    BY Zenon, <1>4, <2>1, BoardParams, B!InnerMaps DEF EndInv
  <2>3. Cab!Board!Flush \/ Cab!Board!Internal
    BY Zenon, <2>2, SameHost
  <2> QED
    BY Zenon, <1>1, <1>2, <1>4, <2>3 DEF Cab!OrderedNext, Cab!OrderedBoard
<1> QED
  BY Zenon, <1>1, <1>3, <1>4

LEMMA CableStep ==
  EndInv /\ B!TypeOK' /\ [EndNext]_allVars => [Cab!OrderedNext]_(Cab!linkVars)
<1> SUFFICES ASSUME EndInv, B!TypeOK', [EndNext]_allVars PROVE [Cab!OrderedNext]_(Cab!linkVars)
  OBVIOUS
<1>1. CASE UNCHANGED allVars
  BY Zenon, <1>1 DEF allVars, senderVars, transferVars, windowVars, boardVars, histVars,
     Cab!linkVars, Cab!senderVars, Cab!transferVars, Cab!windowVars, Cab!boardVars, Cab!netVars,
     Cab!histVars, Seen
<1> QED
  BY Zenon, <1>1, SenderOnCable, BoardOnCable DEF EndNext

-----------------------------------------------------------------------------
(* Net_RxInit and a sender without a transfer, at the two ends of a cable   *)
(* with nothing on it.                                                      *)
LEMMA EndStart == EndInit => B!Init /\ Cab!OrderedInit /\ EndInv
<1> SUFFICES ASSUME EndInit PROVE B!Init /\ Cab!OrderedInit /\ EndInv
  OBVIOUS
<1>1. B!Init
  BY Zenon, SameBoard DEF EndInit
<1>2. Cab!OrderedInit
  <2>1. Cab!Board!Init
    BY Zenon, <1>1, BoardParams, B!HostInit, SameHost
  <2> QED
    BY Zenon, <2>1, SameLink DEF EndInit, Cab!OrderedInit, Cab!Transfers
<1>3. B!TypeOK
  BY Zenon, <1>1, BoardParams, B!InitType
<1>4. B!HistInv
  BY <1>1 DEF B!Init, B!HistInv, B!NoChunk
<1>5. Cab!OrderedInv
  BY Zenon, <1>2, CabParams, Cab!OrderedInitInv
<1> QED
  BY Zenon, <1>1, <1>2, <1>3, <1>4, <1>5 DEF EndInv

(* The invariants of the two ends keep each other: the board is given       *)
(* packets in its range because the sender sent them, and the sender may    *)
(* count on the answers because the board is typed.                         *)
LEMMA EndStep == EndInv /\ [EndNext]_allVars => EndInv'
<1> SUFFICES ASSUME EndInv, [EndNext]_allVars PROVE EndInv'
  OBVIOUS
<1>1. [B!Next]_(B!vars)
  BY Zenon, BoardStep
<1>2. B!TypeOK' /\ B!HistInv'
  BY Zenon, <1>1, BoardParams, B!TypeStep, B!HistStep DEF EndInv
<1>3. [Cab!OrderedNext]_(Cab!linkVars)
  BY Zenon, <1>2, CableStep
<1>4. Cab!OrderedInv'
  BY Zenon, <1>3, CabParams, Cab!OrderedStep DEF EndInv
<1> QED
  BY Zenon, <1>2, <1>4 DEF EndInv

(* The two ends are typed, and on the cable the packets stay in order.      *)
THEOREM EndHolds == EndSpec => []EndInv
<1>1. EndInit => EndInv
  BY EndStart
<1> QED
  BY <1>1, EndStep, PTL DEF EndSpec

(* Both as the theorems about them know them. *)
LEMMA EndRunsBoard == EndSpec => B!Spec
<1>1. EndInit => B!Init
  BY EndStart
<1> QED
  BY <1>1, BoardStep, EndHolds, PTL DEF EndSpec, B!Spec

LEMMA EndRunsCable == EndSpec => Cab!OrderedSpec
<1>1. EndInit => Cab!OrderedInit
  BY EndStart
<1>2. EndInv /\ EndInv' /\ [EndNext]_allVars => [Cab!OrderedNext]_(Cab!linkVars)
  BY Zenon, CableStep DEF EndInv
<1> QED
  BY <1>1, <1>2, EndHolds, PTL DEF EndSpec, Cab!OrderedSpec

(* The board of the whole behaves as BoardRx says, so every theorem about   *)
(* BoardRx holds of the whole.                                              *)
THEOREM EndIsBoard == EndSpec => Board!Spec
<1>1. B!Init <=> Board!Init
  BY Zenon, SameBoard
<1>2. [B!Next]_(B!vars) <=> [Board!Next]_(Board!vars)
  <2>1. B!Next <=> Board!Next
    BY Zenon, SameBoard
  <2>2. B!vars = Board!vars /\ B!vars' = Board!vars'
    BY Zenon DEF B!vars, B!streamVars, B!aggVars, B!dmaVars, B!ackVars, B!peerVars, B!ghostVars,
       Board!vars, Board!streamVars, Board!aggVars, Board!dmaVars, Board!ackVars, Board!peerVars,
       Board!ghostVars
  <2> QED
    BY Zenon, <2>1, <2>2
<1> QED
  BY <1>1, <1>2, EndRunsBoard, PTL DEF Board!Spec, B!Spec

(* The blocks, the DMA and the history of the board show on the cable only  *)
(* as answers that Acceptor may give: what was proved of the sender with    *)
(* Acceptor holds with the board.                                           *)
THEOREM EndIsCable == EndSpec => CableSpec
<1>1. Cab!OrderedInit <=> Cable!OrderedInit
  BY Zenon, SameLink
<1>2. [Cab!OrderedNext]_(Cab!linkVars) <=> [Cable!OrderedNext]_(Cable!linkVars)
  <2>1. Cab!OrderedNext <=> Cable!OrderedNext
    BY Zenon, SameLink
  <2>2. Cab!linkVars = Cable!linkVars /\ Cab!linkVars' = Cable!linkVars'
    BY Zenon DEF Cab!linkVars, Cab!senderVars, Cab!transferVars, Cab!windowVars, Cab!boardVars,
       Cab!netVars, Cab!histVars, Cable!linkVars, Cable!senderVars, Cable!transferVars,
       Cable!windowVars, Cable!boardVars, Cable!netVars, Cable!histVars
  <2> QED
    BY Zenon, <2>1, <2>2
<1> QED
  BY <1>1, <1>2, EndRunsCable, PTL DEF CableSpec, Cable!OrderedSpec, Cab!OrderedSpec

(* From the file to the air: while a transfer runs the board has chunks of  *)
(* this transfer only, and each one the sender counts as acked was read by  *)
(* the transmitter or is in exactly one block, unless the DMA failed.       *)
THEOREM AckedReachesAir == EndSpec => []AckedIsOnItsWay
<1>1. EndInv /\ Cab!AckedIsHeld /\ B!NothingLost => AckedIsOnItsWay
  <2> SUFFICES ASSUME EndInv, Cab!AckedIsHeld, B!NothingLost,
                      stage \in {"fill", "drain", "retry", "done"}
               PROVE  /\ session = sess
                      /\ base <= nextSeq /\ nextSeq <= next
                      /\ \A i \in DOMAIN content : content[i] = transfer
                      /\ ~dma.fatal => \A n \in Len(air) .. base - 1 : Cardinality(Board!Holders(n)) = 1
    BY Zenon DEF AckedIsOnItsWay
  <2>1. /\ session = sess
        /\ base <= nextSeq /\ nextSeq <= next
        /\ \A i \in DOMAIN content : content[i] = transfer
    BY DEF Cab!AckedIsHeld
  <2>2. ASSUME ~dma.fatal, NEW n \in Len(air) .. base - 1
        PROVE  Cardinality(Board!Holders(n)) = 1
    <3>1. Len(air) \in Int /\ base \in Int /\ nextSeq \in Int
      BY DEF EndInv, B!TypeOK, Cab!OrderedInv, Cab!SenderInv, Cab!InWindow
    <3>2. n \in Len(air) .. nextSeq - 1
      BY <2>1, <2>2, <3>1
    <3>3. B!Cardinality(B!Holders(n)) = 1
      BY Zenon, <2>2, <3>2 DEF B!NothingLost
    <3> QED
      BY Zenon, <3>3, SameBoard
  <2> QED
    BY Zenon, <2>1, <2>2
<1>2. B!Spec => []B!NothingLost
  BY Zenon, BoardParams, B!AcceptedIsHeld
<1>3. Cab!OrderedSpec => []Cab!AckedIsHeld
  BY Zenon, CabParams, Cab!AckedStaysHeld
<1> QED
  BY <1>1, <1>2, <1>3, EndHolds, EndRunsBoard, EndRunsCable, PTL
=============================================================================
