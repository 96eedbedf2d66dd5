------------------------------- MODULE BoardRx -------------------------------
(***************************************************************************)
(* The board side of the link (drivers/net/net_rx.c): a UDP callback that  *)
(* accepts the chunks of a session strictly in order, packs them into      *)
(* aggregation blocks and acknowledges them, and a poll function that      *)
(* pushes the blocks one at a time through the AXI DMA (MM2S out to the    *)
(* OFDM transmitter, S2MM back from the receiver).                         *)
(*                                                                         *)
(* An operator whose name ends in _Word, before the one it resembles, is    *)
(* a seeded fault: no specification uses it, it shows which property would  *)
(* notice that mistake in the code.                                         *)
(*                                                                         *)
(* Three actors take steps: the network, which may deliver any packet that *)
(* a host sent at any time (hence late, twice or not at all); the DMA      *)
(* hardware with its two interrupt handlers (drivers/dma/AXI_DMA.c), which *)
(* pre-empt the main loop between any two of its functions; and the main   *)
(* loop of main.c, whose position is pc.                                   *)
(*                                                                         *)
(* Time is abstract: a timer the code polls may have elapsed or not.       *)
(* Buffer contents are the sequence numbers of the chunks they hold.       *)
(***************************************************************************)
EXTENDS Integers, Sequences, FiniteSets

CONSTANTS
  NumBlocks,      \* NET_AGG_BLOCK_COUNT
  BlockBytes,     \* NET_AGG_BLOCK_BYTES
  Lens,           \* payload lengths the host uses
  Sessions,       \* session ids
  CrcModes,       \* payload CRC on / off, as a RESET asks
  Peers,          \* (address, port) pairs of the hosts' sockets
  NoPeer,         \* loopback_return_peer_valid = 0
  LbBytes,        \* NET_LOOPBACK_UDP_PAYLOAD_BYTES
  CoalesceCount,  \* NET_ACK_COALESCE_PACKET_COUNT
  HistoryDepth,   \* NET_COMPLETED_HISTORY_DEPTH
  MaxSeq,         \* bound: chunks of one session
  MaxResets       \* bound: sessions of one behaviour

Block == 0 .. NumBlocks - 1
None  == -1       \* fill_block_index, dma_block_index and ids that are not set

ASSUME BoardAssumption ==
  /\ NumBlocks \in Nat \ {0}
  /\ BlockBytes \in Nat \ {0}
  /\ Lens \subseteq 1 .. BlockBytes
  /\ Sessions \subseteq Nat
  /\ CrcModes \subseteq BOOLEAN
  /\ NoPeer \notin Peers
  /\ LbBytes \in Nat \ {0}
  /\ CoalesceCount \in Nat \ {0}
  /\ HistoryDepth \in Nat \ {0}
  /\ MaxSeq \in Nat
  /\ MaxResets \in Nat

VARIABLES
  pc,          \* next function of the main loop
  session,     \* current_session_id, None while session_valid = 0
  crcOn,       \* current_session_validate_crc
  nextSeq,     \* next_expected_seq
  total,       \* total_accepted_bytes
  hist,        \* accepted_history, a ring
  histHead,    \* accepted_history_head_index
  blk,         \* agg_blocks
  fill,        \* fill_block_index
  nextOrder,   \* next_agg_submit_order
  dma,         \* dma_busy, dma_block_index, dma_fatal_error, loopback_rx_*
  irq,         \* the flags the interrupt handlers raise
  hw,          \* the DMA engine: block MM2S reads, whether S2MM is armed
  pend,        \* pending_ok_ack_*
  lbPeer,      \* loopback_return_addr, _port, _peer_valid
  lbLocked,    \* loopback_return_peer_locked
  out,         \* the ACK packets the last step sent
  accepted,    \* history: length and stream offset of each accepted chunk
  air,         \* history: chunks MM2S has completely read, in order
  lb,          \* history: blocks of this session given to net_loopback_return_udp,
               \* and the bytes that left of the last one
  epoch        \* history: number of accepted RESETs

streamVars == <<session, crcOn, nextSeq, total, hist, histHead, accepted>>
aggVars    == <<blk, fill, nextOrder>>
dmaVars    == <<dma, irq, hw>>
ackVars    == <<pend, out>>
peerVars   == <<lbPeer, lbLocked>>
ghostVars  == <<air, lb, epoch>>
vars == <<pc, streamVars, aggVars, dmaVars, ackVars, peerVars, ghostVars>>

Stages == {"input", "agg", "ack", "s2mm", "dma", "tx"}

FreeBlk == [state |-> "free", content |-> <<>>, plen |-> 0, order |-> 0, offset |-> 0]
NoChunk == [seq |-> None, len |-> 0]
NoPend  == [to |-> NoPeer, seq |-> 0, len |-> 0, count |-> 0]
IdleDma == [busy |-> FALSE, blk |-> None, fatal |-> FALSE, rxBusy |-> FALSE, rxDone |-> FALSE]
NoFlags == [txDone |-> FALSE, rxDone |-> FALSE, txErr |-> FALSE, rxErr |-> FALSE]
NoReturn == [blocks |-> <<>>, sent |-> 0]
IdleHw  == [tx |-> None, rx |-> FALSE]

(* Net_RxInit *)
Init ==
  /\ pc = "input"
  /\ session = None /\ crcOn = TRUE
  /\ nextSeq = 0 /\ total = 0
  /\ hist = [i \in 0 .. HistoryDepth - 1 |-> NoChunk] /\ histHead = 0
  /\ blk = [b \in Block |-> FreeBlk] /\ fill = None /\ nextOrder = 0
  /\ dma = IdleDma /\ irq = NoFlags /\ hw = IdleHw
  /\ pend = NoPend /\ out = <<>>
  /\ lbPeer = NoPeer /\ lbLocked = FALSE
  /\ accepted = <<>> /\ air = <<>> /\ lb = NoReturn /\ epoch = 0

-----------------------------------------------------------------------------
(* Acknowledgements.  "re" is not on the wire: it tells an answer to a data *)
(* packet from one to a RESET or RXCFG.                                     *)

Ack(p, n, status, len, re) == [to |-> p, seq |-> n, status |-> status, len |-> len, re |-> re]

(* net_flush_pending_ok_ack: what it sends *)
PendingOk == IF pend.count = 0 THEN <<>> ELSE <<Ack(pend.to, pend.seq, "OK", pend.len, "data")>>

SendNow_NoFlush(p, n, status, len, re) ==
  out' = <<Ack(p, n, status, len, re)>> /\ UNCHANGED pend

(* net_send_immediate_ack: the coalesced OK leaves first *)
SendNow(p, n, status, len, re) ==
  /\ out' = Append(PendingOk, Ack(p, n, status, len, re))
  /\ pend' = NoPend

CoalesceFull_OffByOne(count) == count > CoalesceCount
CoalesceFull(count) == count >= CoalesceCount

(* net_queue_ok_ack: one pending OK, for one peer, for the newest chunk *)
QueueOk(p, n, len) ==
  LET same  == pend.count > 0 /\ pend.to = p
      count == IF same THEN pend.count + 1 ELSE 1
      first == IF same THEN <<>> ELSE PendingOk
  IN IF CoalesceFull(count)
     THEN /\ out' = Append(first, Ack(p, n, "OK", len, "data"))
          /\ pend' = NoPend
     ELSE /\ out' = first
          /\ pend' = [to |-> p, seq |-> n, len |-> len, count |-> count]

Quiet == out' = <<>> /\ UNCHANGED pend

-----------------------------------------------------------------------------
(* Starting and finishing a DMA transfer.  B is the block table, d the DMA  *)
(* bookkeeping and f the interrupt flags as the caller leaves them.         *)

InState(B, s) == {b \in Block : B[b].state = s}

Earliest_ByIndex(B, b) == b \in InState(B, "ready") /\ \A c \in InState(B, "ready") : b <= c

(* net_find_ready_block *)
Earliest(B, b) ==
  /\ b \in InState(B, "ready")
  /\ \A c \in InState(B, "ready") :
       \/ B[b].order < B[c].order
       \/ B[b].order = B[c].order /\ b <= c

(* The driver's status is an external answer; the model lets a start on a   *)
(* busy channel succeed, so that StartsOnIdleChannels shows none is asked.  *)
S2mmRefused(B, d, b) ==
  /\ dma' = [d EXCEPT !.fatal = TRUE, !.blk = b, !.rxDone = FALSE]
  /\ irq' = NoFlags
  /\ blk' = B
  /\ UNCHANGED hw

Mm2sRefused(B, d, b) ==
  /\ dma' = [d EXCEPT !.fatal = TRUE, !.blk = b, !.rxDone = TRUE]
  /\ irq' = NoFlags
  /\ hw' = [hw EXCEPT !.rx = TRUE]
  /\ blk' = B

BothStarted(B, d, b) ==
  /\ dma' = [d EXCEPT !.busy = TRUE, !.blk = b, !.rxBusy = TRUE, !.rxDone = FALSE]
  /\ irq' = NoFlags
  /\ hw' = [tx |-> b, rx |-> TRUE]
  /\ blk' = [B EXCEPT ![b].state = "busy"]

CanStart_AfterFatal(d) == ~d.busy /\ ~d.rxBusy
CanStart_WhileRx(d) == ~d.busy /\ ~d.fatal
CanStart(d) == ~d.busy /\ ~d.fatal /\ ~d.rxBusy

(* net_start_dma_transfer *)
StartDma(B, d, f) ==
  IF CanStart(d) /\ InState(B, "ready") # {}
  THEN \E b \in Block :
         /\ Earliest(B, b)
         /\ S2mmRefused(B, d, b) \/ Mm2sRefused(B, d, b) \/ BothStarted(B, d, b)
  ELSE /\ blk' = B /\ dma' = d /\ irq' = f
       /\ UNCHANGED hw

CanRelease_WhileTx(d) == ~d.rxBusy /\ d.rxDone /\ d.blk # None
CanRelease_WhileRx(d) == ~d.busy /\ d.blk # None
CanRelease(d) == ~d.busy /\ ~d.rxBusy /\ d.rxDone /\ d.blk # None

(* net_loopback_release_dma_block_if_done *)
ReleaseIfDone(d, f) ==
  IF CanRelease(d)
  THEN StartDma([blk EXCEPT ![d.blk] = FreeBlk], [d EXCEPT !.blk = None, !.rxDone = FALSE], f)
  ELSE /\ dma' = d /\ irq' = f
       /\ UNCHANGED <<blk, hw>>

-----------------------------------------------------------------------------
(* Aggregation *)

(* net_submit_fill_block on the table B *)
Submitted(B, b) ==
  [B EXCEPT ![b] = IF @.plen = 0 THEN FreeBlk
                   ELSE [@ EXCEPT !.state = "ready", !.order = nextOrder]]

(* net_ensure_fill_block: a filling block without room is submitted, and    *)
(* stays submitted when no block is free for the chunk.                     *)
Fits(len) == fill # None /\ blk[fill].plen + len <= BlockBytes
MadeRoom_KeepsOpen(len) == blk
MadeRoom(len)   == IF fill # None /\ ~Fits(len) THEN Submitted(blk, fill) ELSE blk
OrderAfter(len) == IF fill # None /\ ~Fits(len) THEN nextOrder + 1 ELSE nextOrder

FillTarget(len, b) ==
  IF Fits(len) THEN b = fill
  ELSE LET free == InState(MadeRoom(len), "free") IN b \in free /\ \A c \in free : b <= c

NoTarget(len) == ~Fits(len) /\ InState(MadeRoom(len), "free") = {}

NewFill == [state |-> "filling", content |-> <<>>, plen |-> 0, order |-> 0, offset |-> total]

Opened(len, b) ==
  IF Fits(len) THEN blk
  ELSE [MadeRoom(len) EXCEPT ![b] = NewFill]

-----------------------------------------------------------------------------
(* The UDP callback (net_udp_receive_callback), one action per early return *)
(* in the order of the code.                                                *)

Unchanged == UNCHANGED <<pc, streamVars, aggVars, dmaVars, peerVars, ghostVars>>

(* A packet with a wrong length or magic, before or after the session check. *)
Malformed(p, status) ==
  /\ pc = "input"
  /\ SendNow(p, 0, status, 0, "ctl")
  /\ Unchanged

RxCfg(p) ==
  /\ pc = "input"
  /\ lbPeer' = p /\ lbLocked' = TRUE
  /\ out' = <<Ack(p, 0, "OK", 0, "ctl")>>
  /\ UNCHANGED <<pc, streamVars, aggVars, dmaVars, pend, ghostVars>>

ResetRefused(p) ==
  /\ pc = "input"
  /\ \/ dma.fatal /\ SendNow(p, 0, "DMA_ERROR", 0, "ctl")
     \/ ~dma.fatal /\ (dma.busy \/ dma.rxBusy) /\ SendNow(p, 0, "BUSY", 0, "ctl")
  /\ Unchanged

ResetAllowed_WhileRx == ~dma.fatal /\ ~dma.busy
ResetAllowed == ~dma.fatal /\ ~dma.busy /\ ~dma.rxBusy

(* net_reset_stream_state; the pending OK is dropped, not sent *)
Reset(p, s, crc) ==
  /\ pc = "input"
  /\ ResetAllowed
  /\ epoch < MaxResets
  /\ session' = s /\ crcOn' = crc
  /\ nextSeq' = 0 /\ total' = 0
  /\ hist' = [i \in 0 .. HistoryDepth - 1 |-> NoChunk] /\ histHead' = 0
  /\ blk' = [b \in Block |-> FreeBlk] /\ fill' = None /\ nextOrder' = 0
  /\ dma' = IdleDma /\ irq' = NoFlags
  /\ pend' = NoPend
  /\ lbPeer' = IF lbLocked THEN lbPeer ELSE p
  /\ out' = <<Ack(p, 0, "OK", 0, "ctl")>>
  /\ accepted' = <<>> /\ air' = <<>> /\ lb' = NoReturn /\ epoch' = epoch + 1
  /\ UNCHANGED <<pc, hw, lbLocked>>

InSession(s) == session # None /\ session = s

DataWrongSession(p, s, n) ==
  /\ pc = "input"
  /\ ~InSession(s)
  /\ SendNow(p, n, "PENDING", 0, "data")
  /\ Unchanged

DataAfterFatal(p, s, n) ==
  /\ pc = "input"
  /\ InSession(s) /\ dma.fatal
  /\ SendNow(p, n, "DMA_ERROR", 0, "data")
  /\ Unchanged

(* net_find_accepted_len *)
Remembered(n) == {i \in DOMAIN hist : hist[i].seq = n}

SeqBefore_Swapped(a, b) == b < a

(* net_seq_before; a session is far shorter than the 2^31 chunks at which   *)
(* the signed 32-bit difference would change sign                           *)
SeqBefore(a, b) == a < b

(* a chunk in the history, or older than the history reaches *)
DataDuplicate(p, s, n, len) ==
  /\ pc = "input"
  /\ InSession(s) /\ ~dma.fatal
  /\ \/ \E i \in Remembered(n) : SendNow(p, n, "OK", hist[i].len, "data")
     \/ Remembered(n) = {} /\ SeqBefore(n, nextSeq) /\ SendNow(p, n, "OK", len, "data")
  /\ Unchanged

DataAhead(p, s, n) ==
  /\ pc = "input"
  /\ InSession(s) /\ ~dma.fatal
  /\ Remembered(n) = {} /\ n # nextSeq /\ ~SeqBefore(n, nextSeq)
  /\ SendNow(p, n, "PENDING", 0, "data")
  /\ Unchanged

Expected_AnyLater(s, n) == InSession(s) /\ ~dma.fatal /\ Remembered(n) = {} /\ n >= nextSeq
Expected(s, n) == InSession(s) /\ ~dma.fatal /\ Remembered(n) = {} /\ n = nextSeq

FillAfterRefusal_Kept(len) == fill
FillAfterRefusal(len) == IF Fits(len) THEN fill ELSE None

(* What net_ensure_fill_block leaves when the chunk is then refused; the    *)
(* block it opened is given back by net_release_empty_fill_block.           *)
RefuseExpected(p, n, len, status) ==
  /\ blk' = MadeRoom(len)
  /\ fill' = FillAfterRefusal(len)
  /\ nextOrder' = OrderAfter(len)
  /\ SendNow(p, n, status, 0, "data")
  /\ UNCHANGED <<pc, streamVars, dmaVars, peerVars, ghostVars>>

DataNoSpace(p, s, n, len) ==
  /\ pc = "input"
  /\ Expected(s, n) /\ NoTarget(len)
  /\ RefuseExpected(p, n, len, "BUSY")

(* The payload could not be copied in full, or its CRC is wrong.            *)
DataDamaged(p, s, n, len) ==
  /\ pc = "input"
  /\ Expected(s, n) /\ ~NoTarget(len)
  /\ \/ RefuseExpected(p, n, len, "BAD_LENGTH")
     \/ crcOn /\ RefuseExpected(p, n, len, "BAD_CHECKSUM")

NextHead_Stuck == histHead
NextHead == (histHead + 1) % HistoryDepth

(* net_record_accepted_chunk *)
Record(n, len) ==
  /\ hist' = [hist EXCEPT ![histHead] = [seq |-> n, len |-> len]]
  /\ histHead' = NextHead

Written(len, b, n) ==
  LET O == Opened(len, b)
  IN [O EXCEPT ![b].content = Append(O[b].content, n), ![b].plen = O[b].plen + len]

DataAccept(p, s, n, len) ==
  /\ pc = "input"
  /\ Expected(s, n)
  /\ \E b \in Block :
       /\ FillTarget(len, b)
       /\ LET W == Written(len, b, n)
              full == W[b].plen >= BlockBytes
              order == OrderAfter(len)
          IN /\ fill' = IF full THEN None ELSE b
             /\ nextOrder' = IF full THEN order + 1 ELSE order
             /\ StartDma(IF full THEN [W EXCEPT ![b].state = "ready", ![b].order = order] ELSE W,
                         dma, irq)
  /\ total' = total + len
  /\ nextSeq' = n + 1
  /\ accepted' = Append(accepted, [len |-> len, off |-> total])
  /\ Record(n, len)
  /\ QueueOk(p, n, len)
  /\ lbPeer' = IF lbLocked THEN lbPeer ELSE p
  /\ UNCHANGED <<pc, session, crcOn, lbLocked, ghostVars>>

Receive(p) ==
  \/ \E status \in {"BAD_LENGTH", "BAD_MAGIC"} : Malformed(p, status)
  \/ RxCfg(p)
  \/ ResetRefused(p)
  \/ \E s \in Sessions, crc \in CrcModes : Reset(p, s, crc)
  \/ \E s \in Sessions, n \in 0 .. MaxSeq - 1 :
       \/ DataWrongSession(p, s, n)
       \/ DataAfterFatal(p, s, n)
       \/ DataAhead(p, s, n)
       \/ \E len \in Lens :
            \/ DataDuplicate(p, s, n, len)
            \/ DataNoSpace(p, s, n, len)
            \/ DataDamaged(p, s, n, len)
            \/ DataAccept(p, s, n, len)

-----------------------------------------------------------------------------
(* The main loop: Net_Poll drains its budget of packets, Net_RxPoll runs    *)
(* the timers, the S2MM poll and the MM2S poll.                             *)

InputDrained ==
  /\ pc = "input" /\ pc' = "agg"
  /\ Quiet
  /\ UNCHANGED <<streamVars, aggVars, dmaVars, peerVars, ghostVars>>

AggDue_MinOnly == fill # None /\ 2 * blk[fill].plen > BlockBytes
AggDue == fill # None /\ blk[fill].plen > 0

(* net_check_agg_timeout when a timer of the filling block has elapsed *)
AggTimeout ==
  /\ pc = "agg" /\ pc' = "ack"
  /\ AggDue
  /\ blk' = Submitted(blk, fill) /\ fill' = None /\ nextOrder' = nextOrder + 1
  /\ Quiet
  /\ UNCHANGED <<streamVars, dmaVars, peerVars, ghostVars>>

AggNotDue ==
  /\ pc = "agg" /\ pc' = "ack"
  /\ Quiet
  /\ UNCHANGED <<streamVars, aggVars, dmaVars, peerVars, ghostVars>>

(* net_check_ack_timeout when the timer of the pending OK has elapsed *)
AckTimeout ==
  /\ pc = "ack" /\ pc' = "s2mm"
  /\ pend.count > 0
  /\ out' = PendingOk /\ pend' = NoPend
  /\ UNCHANGED <<streamVars, aggVars, dmaVars, peerVars, ghostVars>>

AckNotDue ==
  /\ pc = "ack" /\ pc' = "s2mm"
  /\ Quiet
  /\ UNCHANGED <<streamVars, aggVars, dmaVars, peerVars, ghostVars>>

(* net_loopback_poll_s2mm *)
S2mmNothing ==
  /\ pc = "s2mm" /\ pc' = "dma"
  /\ ~dma.rxBusy \/ (~irq.rxErr /\ ~irq.rxDone)
  /\ Quiet
  /\ UNCHANGED <<streamVars, aggVars, dmaVars, peerVars, ghostVars>>

S2mmError ==
  /\ pc = "s2mm" /\ pc' = "dma"
  /\ dma.rxBusy /\ irq.rxErr
  /\ dma' = [dma EXCEPT !.rxBusy = FALSE, !.rxDone = TRUE, !.fatal = TRUE, !.busy = FALSE]
  /\ irq' = [irq EXCEPT !.rxErr = FALSE, !.txDone = FALSE, !.txErr = FALSE]
  /\ Quiet
  /\ UNCHANGED <<streamVars, aggVars, hw, peerVars, ghostVars>>

(* net_loopback_return_udp: the captured payload goes to the return peer    *)
(* under the offset and the length of the block that was sent, LbBytes a    *)
(* packet.  A packet that cannot be allocated or sent ends the return of    *)
(* its block; without a peer nothing of it leaves.                          *)
Leaving(len) == IF lbPeer = NoPeer THEN {0} ELSE {n \in 0 .. len : n = len \/ n % LbBytes = 0}

Returned == [to |-> lbPeer, off |-> blk[dma.blk].offset, len |-> blk[dma.blk].plen]

Return ==
  IF dma.blk = None THEN UNCHANGED lb
  ELSE \E sent \in Leaving(blk[dma.blk].plen) :
         lb' = [blocks |-> Append(lb.blocks, Returned), sent |-> sent]

S2mmDone ==
  /\ pc = "s2mm" /\ pc' = "dma"
  /\ dma.rxBusy /\ ~irq.rxErr /\ irq.rxDone
  /\ Return
  /\ ReleaseIfDone([dma EXCEPT !.rxBusy = FALSE, !.rxDone = TRUE], [irq EXCEPT !.rxDone = FALSE])
  /\ Quiet
  /\ UNCHANGED <<streamVars, fill, nextOrder, peerVars, air, epoch>>

(* Net_RxPoll after the S2MM poll *)
PollStart ==
  /\ pc = "dma"
  /\ IF dma.fatal THEN UNCHANGED <<blk, dmaVars>> ELSE StartDma(blk, dma, irq)
  /\ pc' = IF dma'.fatal \/ ~dma'.busy THEN "input" ELSE "tx"
  /\ Quiet
  /\ UNCHANGED <<streamVars, fill, nextOrder, peerVars, ghostVars>>

TxNothing ==
  /\ pc = "tx" /\ pc' = "input"
  /\ ~irq.txErr /\ ~irq.txDone
  /\ Quiet
  /\ UNCHANGED <<streamVars, aggVars, dmaVars, peerVars, ghostVars>>

TxFailed ==
  /\ pc = "tx" /\ pc' = "input"
  /\ irq.txErr
  /\ dma' = [dma EXCEPT !.fatal = TRUE, !.busy = FALSE]
  /\ irq' = [irq EXCEPT !.txErr = FALSE, !.txDone = FALSE]
  /\ Quiet
  /\ UNCHANGED <<streamVars, aggVars, hw, peerVars, ghostVars>>

TxDone ==
  /\ pc = "tx" /\ pc' = "input"
  /\ ~irq.txErr /\ irq.txDone
  /\ ReleaseIfDone([dma EXCEPT !.busy = FALSE], [irq EXCEPT !.txDone = FALSE])
  /\ Quiet
  /\ UNCHANGED <<streamVars, fill, nextOrder, peerVars, ghostVars>>

MainLoop ==
  \/ InputDrained
  \/ AggTimeout \/ AggNotDue
  \/ AckTimeout \/ AckNotDue
  \/ S2mmNothing \/ S2mmError \/ S2mmDone
  \/ PollStart
  \/ TxNothing \/ TxFailed \/ TxDone

-----------------------------------------------------------------------------
(* The DMA engine and its interrupt handlers.  MM2S reads the buffer when   *)
(* it completes at the latest, so a buffer touched too early shows in air.  *)

IrqFrame == /\ out' = <<>>
            /\ UNCHANGED <<pc, streamVars, aggVars, dma, pend, peerVars, lb, epoch>>

(* TxIntrHandler, IOC *)
TxIoc ==
  /\ hw.tx # None
  /\ air' = air \o blk[hw.tx].content
  /\ hw' = [hw EXCEPT !.tx = None]
  /\ irq' = [irq EXCEPT !.txDone = TRUE]
  /\ IrqFrame

(* TxIntrHandler, error: XAxiDma_Reset stops both channels *)
TxErrIrq ==
  /\ hw.tx # None
  /\ hw' = IdleHw
  /\ irq' = [irq EXCEPT !.txErr = TRUE]
  /\ IrqFrame /\ UNCHANGED air

(* RxIntrHandler, IOC *)
RxIoc ==
  /\ hw.rx
  /\ hw' = [hw EXCEPT !.rx = FALSE]
  /\ irq' = [irq EXCEPT !.rxDone = TRUE]
  /\ IrqFrame /\ UNCHANGED air

(* RxIntrHandler, error.  When it pre-empts net_start_dma_transfer between  *)
(* the two starts, its reset precedes the MM2S start, which then survives.  *)
RxErrIrq ==
  /\ hw.rx
  /\ \E tx \in {None, hw.tx} : hw' = [tx |-> tx, rx |-> FALSE]
  /\ irq' = [irq EXCEPT !.rxErr = TRUE]
  /\ IrqFrame /\ UNCHANGED air

Hardware == TxIoc \/ TxErrIrq \/ RxIoc \/ RxErrIrq

Next == MainLoop \/ Hardware \/ \E p \in Peers : Receive(p)

Spec == Init /\ [][Next]_vars

-----------------------------------------------------------------------------
(* Properties *)

Acks == [to : Peers, seq : Nat, len : Nat, re : {"data", "ctl"},
         status : {"OK", "BAD_MAGIC", "BAD_LENGTH", "BAD_CHECKSUM", "BUSY", "DMA_ERROR", "PENDING"}]

Chunks == [seq : Nat \cup {None}, len : Nat]
Blks   == [Block -> [state : {"free", "filling", "ready", "busy"}, content : Seq(Nat),
                     plen : 0 .. BlockBytes, order : Nat, offset : Nat]]
Dmas   == [busy : BOOLEAN, blk : Block \cup {None}, fatal : BOOLEAN,
           rxBusy : BOOLEAN, rxDone : BOOLEAN]
Flags  == [txDone : BOOLEAN, rxDone : BOOLEAN, txErr : BOOLEAN, rxErr : BOOLEAN]
Hws    == [tx : Block \cup {None}, rx : BOOLEAN]
Returns == [to : Peers \cup {NoPeer}, off : Nat, len : 0 .. BlockBytes]
Loopbacks == [blocks : Seq(Returns), sent : 0 .. BlockBytes]
Pends  == {NoPend} \cup [to : Peers, seq : Nat, len : Nat, count : 1 .. CoalesceCount - 1]

(* Types of the board's variables, with the bounds the code relies on: the  *)
(* ring index stays in the ring, a block never holds more than BlockBytes   *)
(* and fewer than CoalesceCount acknowledgements wait in the coalescer.     *)
TypeOK ==
  /\ pc \in Stages
  /\ session \in Sessions \cup {None} /\ crcOn \in BOOLEAN
  /\ nextSeq \in Nat /\ total \in Nat
  /\ hist \in [0 .. HistoryDepth - 1 -> Chunks]
  /\ histHead \in 0 .. HistoryDepth - 1
  /\ blk \in Blks
  /\ fill \in Block \cup {None} /\ nextOrder \in Nat
  /\ dma \in Dmas /\ irq \in Flags /\ hw \in Hws
  /\ pend \in Pends
  /\ lbPeer \in Peers \cup {NoPeer} /\ lbLocked \in BOOLEAN
  /\ out \in Seq(Acks)
  /\ accepted \in Seq([len : Nat, off : Nat])
  /\ air \in Seq(Nat)
  /\ lb \in Loopbacks
  /\ epoch \in Nat

(* Who owns a block: the callback exactly the one it fills, which always    *)
(* holds something between two handlers; the DMA exactly the one it sends.  *)
(* What the engine reads is never free, filled or queued, whatever was      *)
(* interrupted, refused or reset meanwhile.                                 *)
BlockOwnership ==
  /\ \A b \in Block : blk[b].state = "filling" <=> b = fill
  /\ fill # None => blk[fill].plen > 0
  /\ \A b \in Block : blk[b].state = "busy" => dma.blk = b
  /\ hw.tx # None => blk[hw.tx].state = "busy" /\ (dma.busy \/ dma.fatal)

(* README, "PS to PL": what the transmitter has read is the accepted stream *)
(* of the session from its first chunk on, in order, without a chunk        *)
(* missing, doubled or never accepted, however packets were repeated or     *)
(* refused and blocks were closed early.                                    *)
AirIsPrefix ==
  /\ Len(air) <= nextSeq
  /\ \A i \in 1 .. Len(air) : air[i] = i - 1

Holders(n) == {b \in Block : blk[b].state # "free" /\ \E i \in DOMAIN blk[b].content : blk[b].content[i] = n}

(* A chunk that was acknowledged is not lost: until the transmitter has     *)
(* read it, exactly one block holds it, unless the DMA has failed.          *)
NothingLost ==
  ~dma.fatal => \A n \in Len(air) .. nextSeq - 1 : Cardinality(Holders(n)) = 1

(* README, cumulative OK: an OK for chunk N of a data packet, immediate or  *)
(* coalesced, leaves the board only when every chunk up to N of the present *)
(* session was accepted.                                                    *)
OkIsTrue ==
  \A i \in DOMAIN out : out[i].re = "data" /\ out[i].status = "OK" => out[i].seq < nextSeq

(* The OK for a chunk among the last HistoryDepth ones reports the length   *)
(* that was accepted, also when the duplicate claims another one.           *)
OkLengthRemembered ==
  \A i \in DOMAIN out :
    LET a == out[i] IN
    a.re = "data" /\ a.status = "OK" /\ a.seq < nextSeq /\ a.seq >= nextSeq - HistoryDepth
      => a.len = accepted[a.seq + 1].len

(* README: a refusal is sent at once but after the OK that waits; no peer   *)
(* hears of a failure before it hears of the chunks accepted earlier.       *)
RefusalsFlushOk ==
  [][(\E i \in DOMAIN out' : out'[i].status # "OK")
       => /\ pend'.count = 0
          /\ pend.count > 0 => out'[1].seq = pend.seq /\ out'[1].status = "OK"]_vars

(* README, ACK status 4: BUSY tells the host that no block can take data;   *)
(* then every block is queued or being sent, so only the DMA is waited for. *)
BusyMeansFull ==
  (\E i \in DOMAIN out : out[i].re = "data" /\ out[i].status = "BUSY")
    => \A b \in Block : blk[b].state \in {"ready", "busy"}

(* README: after a fatal DMA error nothing more is pushed to the PL, and no *)
(* later packet or RESET brings the DMA back.                               *)
FatalIsFinal ==
  [][dma.fatal => dma'.fatal /\ hw'.tx \in {None, hw.tx} /\ (hw'.rx => hw.rx)]_vars

(* README: a RESET is taken only while the DMA is idle.  The code looks at  *)
(* its own flags; the engine itself is idle and no interrupt is pending.    *)
SessionStartsQuiet ==
  [][epoch' # epoch => hw = IdleHw /\ irq = NoFlags]_vars

(* A transfer is started only on two idle channels, with no flag of the     *)
(* previous one left for the next poll to take for its own.                 *)
StartsOnIdleChannels ==
  [][hw'.tx # None /\ hw'.tx # hw.tx => hw = IdleHw /\ irq' = NoFlags]_vars

(* The blocks given to net_loopback_return_udp continue each other in the   *)
(* stream: none is left out or given twice when MM2S and S2MM finish in     *)
(* either order, and a peer is known for each.  So what returns over UDP is *)
(* in stream order, and bytes are missing only at the end of a block, from  *)
(* a packet on that could not be sent.                                      *)
LoopbackContiguous ==
  LET given == lb.blocks IN
  /\ \A i \in DOMAIN given :
       /\ given[i].off = IF i = 1 THEN 0 ELSE given[i - 1].off + given[i - 1].len
       /\ given[i].to # NoPeer
  /\ lb.sent <= IF given = <<>> THEN 0 ELSE given[Len(given)].len

(* The board as a pipe: see StreamPipe.                                     *)
Pipe == INSTANCE StreamPipe
  WITH Chunk  <- 0 .. MaxSeq - 1,
       taken  <- [i \in 1 .. Len(accepted) |-> i - 1],
       given  <- air,
       halted <- dma.fatal

PipeSpec == Pipe!Spec

(* The board as the host sees it, which Link composes with the sender: see  *)
(* Acceptor.  The history ring, the blocks and the DMA must not show in the *)
(* answers but as BUSY and DMA_ERROR.                                       *)
Host == INSTANCE Acceptor
  WITH NoSession <- None,
       Seqs      <- 0 .. MaxSeq - 1,
       pend      <- [to |-> pend.to, seq |-> pend.seq, count |-> pend.count],
       halted    <- dma.fatal,
       out       <- [i \in DOMAIN out |->
                       [to |-> out[i].to, seq |-> out[i].seq, status |-> out[i].status,
                        re |-> out[i].re]]

HostSpec == Host!Spec
=============================================================================
