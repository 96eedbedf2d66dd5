----------------------------- MODULE BoardRxProof -----------------------------
(***************************************************************************)
(* Proofs about BoardRx for every number and size of blocks, every set of  *)
(* hosts and sessions and every bound: its types, and the ownership of the *)
(* blocks and of the DMA channels between callback, main loop and          *)
(* interrupt handlers.                                                     *)
(***************************************************************************)
EXTENDS BoardRx, TLAPS

-----------------------------------------------------------------------------
(* Types *)

(* A transfer start leaves well-typed state, whichever of its outcomes the  *)
(* driver produces.                                                         *)
LEMMA StartDmaType ==
  ASSUME NEW B \in Blks, NEW d \in Dmas, NEW f \in Flags, hw \in Hws, StartDma(B, d, f)
  PROVE  blk' \in Blks /\ dma' \in Dmas /\ irq' \in Flags /\ hw' \in Hws
<1>1. NoFlags \in Flags
  BY DEF NoFlags, Flags
<1>2. CASE CanStart(d) /\ InState(B, "ready") # {}
  <2>1. PICK b \in Block : S2mmRefused(B, d, b) \/ Mm2sRefused(B, d, b) \/ BothStarted(B, d, b)
    BY <1>2 DEF StartDma
  <2>2. CASE S2mmRefused(B, d, b)
    BY <2>2, <1>1 DEF S2mmRefused, Dmas
  <2>3. CASE Mm2sRefused(B, d, b)
    BY <2>3, <1>1 DEF Mm2sRefused, Dmas, Hws
  <2>4. CASE BothStarted(B, d, b)
    <3>1. blk' \in Blks
      BY <2>4 DEF BothStarted, Blks
    <3>2. QED
      BY <2>4, <3>1, <1>1 DEF BothStarted, Dmas, Hws
  <2>5. QED
    BY <2>1, <2>2, <2>3, <2>4
<1>3. QED
  BY <1>2 DEF StartDma

(* Releasing a block keeps the type of the block table.                     *)
LEMMA FreeBlkType == ASSUME NEW B \in Blks, NEW b \in Block PROVE [B EXCEPT ![b] = FreeBlk] \in Blks
  BY BoardAssumption DEF Blks, FreeBlk, BoardAssumption

(* Releasing the sent block and starting the next keeps the types.          *)
LEMMA ReleaseType ==
  ASSUME blk \in Blks, NEW d \in Dmas, NEW f \in Flags, hw \in Hws, ReleaseIfDone(d, f)
  PROVE  blk' \in Blks /\ dma' \in Dmas /\ irq' \in Flags /\ hw' \in Hws
<1>1. CASE CanRelease(d)
  <2>1. d.blk \in Block
    BY <1>1 DEF CanRelease, Dmas
  <2>2. [d EXCEPT !.blk = None, !.rxDone = FALSE] \in Dmas
    BY DEF Dmas
  <2>3. QED
    BY <1>1, <2>1, <2>2, StartDmaType, FreeBlkType DEF ReleaseIfDone
<1>2. QED
  BY <1>1 DEF ReleaseIfDone

(* Submitting a filling block keeps the type of the block table.            *)
LEMMA SubmittedType ==
  ASSUME NEW B \in Blks, NEW b \in Block, nextOrder \in Nat
  PROVE  Submitted(B, b) \in Blks
<1>1. CASE B[b].plen = 0
  BY <1>1, FreeBlkType DEF Submitted
<1>2. CASE B[b].plen # 0
  <2>1. Submitted(B, b) = [B EXCEPT ![b] = [@ EXCEPT !.state = "ready", !.order = nextOrder]]
    BY <1>2 DEF Submitted
  <2>2. QED
    BY <2>1 DEF Blks
<1>3. QED
  BY <1>1, <1>2

(* So does making room for a chunk.                                         *)
LEMMA MadeRoomType ==
  ASSUME TypeOK, NEW len \in Lens
  PROVE  MadeRoom(len) \in Blks /\ OrderAfter(len) \in Nat
  BY SubmittedType DEF TypeOK, MadeRoom, OrderAfter

(* Every answer of the callback is a well-formed ACK, also the coalesced    *)
(* one it may send first.                                                   *)
LEMMA PendingOkType == ASSUME pend \in Pends PROVE PendingOk \in Seq(Acks)
<1>1. CASE pend.count = 0
  BY <1>1 DEF PendingOk
<1>2. CASE pend.count # 0
  <2>1. Ack(pend.to, pend.seq, "OK", pend.len, "data") \in Acks
    BY <1>2 DEF Pends, NoPend, Ack, Acks
  <2>2. QED
    BY <1>2, <2>1 DEF PendingOk
<1>3. QED
  BY <1>1, <1>2

(* An immediate acknowledgement is well formed and empties the coalescer.   *)
LEMMA SendNowType ==
  ASSUME pend \in Pends, NEW p \in Peers, NEW n \in Nat, NEW len \in Nat,
         NEW re \in {"data", "ctl"},
         NEW status \in {"OK", "BAD_MAGIC", "BAD_LENGTH", "BAD_CHECKSUM", "BUSY", "DMA_ERROR", "PENDING"},
         SendNow(p, n, status, len, re)
  PROVE  pend' \in Pends /\ out' \in Seq(Acks)
<1>1. Ack(p, n, status, len, re) \in Acks
  BY DEF Ack, Acks
<1>2. QED
  BY <1>1, PendingOkType DEF SendNow, Pends

(* The coalescer never holds CoalesceCount acknowledgements.                *)
LEMMA QueueOkType ==
  ASSUME pend \in Pends, NEW p \in Peers, NEW n \in Nat, NEW len \in Nat, QueueOk(p, n, len)
  PROVE  pend' \in Pends /\ out' \in Seq(Acks)
<1> DEFINE same  == pend.count > 0 /\ pend.to = p
           count == IF same THEN pend.count + 1 ELSE 1
           first == IF same THEN <<>> ELSE PendingOk
<1>1. count \in Nat /\ count > 0
  BY DEF Pends, NoPend
<1>2. first \in Seq(Acks)
  BY PendingOkType
<1>3. Ack(p, n, "OK", len, "data") \in Acks
  BY DEF Ack, Acks
<1>4. CASE CoalesceFull(count)
  <2>1. out' = Append(first, Ack(p, n, "OK", len, "data")) /\ pend' = NoPend
    BY <1>4 DEF QueueOk
  <2>2. QED
    BY <2>1, <1>2, <1>3 DEF Pends
<1>5. CASE ~CoalesceFull(count)
  <2>1. out' = first /\ pend' = [to |-> p, seq |-> n, len |-> len, count |-> count]
    BY <1>5 DEF QueueOk
  <2>2. count \in 1 .. CoalesceCount - 1
    BY <1>1, <1>5, BoardAssumption DEF CoalesceFull, BoardAssumption
  <2>3. QED
    BY <2>1, <2>2, <1>2 DEF Pends
<1>6. QED
  BY <1>4, <1>5

(* The types hold after Net_RxInit.                                         *)
LEMMA InitType == Init => TypeOK
<1> SUFFICES ASSUME Init PROVE TypeOK
  OBVIOUS
<1>1. blk \in Blks
  BY BoardAssumption DEF Init, Blks, FreeBlk, BoardAssumption
<1>2. hist \in [0 .. HistoryDepth - 1 -> Chunks] /\ histHead \in 0 .. HistoryDepth - 1
  BY BoardAssumption DEF Init, Chunks, NoChunk, BoardAssumption
<1>3. dma \in Dmas /\ irq \in Flags /\ hw \in Hws
  BY DEF Init, Dmas, Flags, Hws, IdleDma, NoFlags, IdleHw
<1>4. out \in Seq(Acks) /\ accepted \in Seq([len : Nat, off : Nat]) /\ air \in Seq(Nat)
      /\ lb \in Loopbacks /\ pend \in Pends
  BY BoardAssumption DEF Init, Pends, NoReturn, Loopbacks, BoardAssumption
<1>5. QED
  BY <1>1, <1>2, <1>3, <1>4 DEF Init, TypeOK, Stages

(* The packets that change nothing but the acknowledgements. *)
LEMMA AnswerType ==
  ASSUME TypeOK, NEW p \in Peers, NEW n \in Nat, NEW len \in Nat, NEW re \in {"data", "ctl"},
         NEW status \in {"OK", "BAD_MAGIC", "BAD_LENGTH", "BAD_CHECKSUM", "BUSY", "DMA_ERROR", "PENDING"},
         SendNow(p, n, status, len, re), Unchanged
  PROVE  TypeOK'
<1>1. pend' \in Pends /\ out' \in Seq(Acks)
  BY SendNowType DEF TypeOK
<1>2. QED
  BY <1>1 DEF TypeOK, Unchanged, streamVars, aggVars, dmaVars, peerVars, ghostVars

(* A RESET keeps the types.                                                 *)
LEMMA ResetType == ASSUME TypeOK, NEW p \in Peers, NEW s \in Sessions, NEW crc \in CrcModes, Reset(p, s, crc) PROVE TypeOK'
<1>1. blk' \in Blks
  BY BoardAssumption DEF Reset, Blks, FreeBlk, BoardAssumption
<1>2. hist' \in [0 .. HistoryDepth - 1 -> Chunks] /\ histHead' \in 0 .. HistoryDepth - 1
  BY BoardAssumption DEF Reset, Chunks, NoChunk, BoardAssumption
<1>3. dma' \in Dmas /\ irq' \in Flags /\ hw' \in Hws
  BY DEF Reset, Dmas, Flags, IdleDma, NoFlags, TypeOK
<1>4. accepted' \in Seq([len : Nat, off : Nat]) /\ air' \in Seq(Nat)
      /\ lb' \in Loopbacks /\ pend' \in Pends
  BY BoardAssumption DEF Reset, Pends, NoReturn, Loopbacks, BoardAssumption
<1>5. Ack(p, 0, "OK", 0, "ctl") \in Acks
  BY DEF Ack, Acks
<1>6. out' \in Seq(Acks)
  BY <1>5 DEF Reset
<1>7. crcOn' \in BOOLEAN /\ session' \in Sessions
  BY BoardAssumption DEF Reset, BoardAssumption
<1>8. QED
  BY <1>1, <1>2, <1>3, <1>4, <1>6, <1>7 DEF Reset, TypeOK

(* A refused chunk keeps the types.                                         *)
LEMMA RefuseType ==
  ASSUME TypeOK, NEW p \in Peers, NEW n \in Nat, NEW len \in Lens,
         NEW status \in {"BUSY", "BAD_LENGTH", "BAD_CHECKSUM"}, RefuseExpected(p, n, len, status)
  PROVE  TypeOK'
<1>1. pend' \in Pends /\ out' \in Seq(Acks)
  BY SendNowType DEF TypeOK, RefuseExpected
<1>2. QED
  BY <1>1, MadeRoomType
  DEF TypeOK, RefuseExpected, FillAfterRefusal, streamVars, dmaVars, peerVars, ghostVars

(* The buffer behind the table: a chunk is written into a block that has    *)
(* room for it.                                                             *)
LEMMA WrittenType ==
  ASSUME TypeOK, NEW len \in Lens, NEW n \in Nat, NEW b \in Block, FillTarget(len, b)
  PROVE  Written(len, b, n) \in Blks
<1> DEFINE O == Opened(len, b)
<1>1. len \in 1 .. BlockBytes /\ BlockBytes \in Nat
  BY BoardAssumption DEF BoardAssumption
<1>2. O \in Blks /\ O[b].plen + len <= BlockBytes
  <2>1. CASE Fits(len)
    BY <2>1, <1>1 DEF TypeOK, FillTarget, Opened, Fits
  <2>2. CASE ~Fits(len)
    <3>1. O = [MadeRoom(len) EXCEPT ![b] = NewFill]
      BY <2>2 DEF Opened
    <3>2. QED
      BY <3>1, <1>1, MadeRoomType DEF NewFill, Blks, TypeOK
  <2>3. QED
    BY <2>1, <2>2
<1>3. Append(O[b].content, n) \in Seq(Nat) /\ O[b].plen + len \in 0 .. BlockBytes
  BY <1>1, <1>2 DEF Blks
<1>4. QED
  BY <1>2, <1>3 DEF Written, Blks

(* An accepted chunk keeps the types; it fits its block.                    *)
LEMMA AcceptType ==
  ASSUME TypeOK, NEW p \in Peers, NEW s \in Sessions, NEW n \in Nat, NEW len \in Lens,
         DataAccept(p, s, n, len)
  PROVE  TypeOK'
<1> USE DEF TypeOK
<1>1. len \in Nat /\ BlockBytes \in Nat /\ HistoryDepth \in Nat \ {0}
  BY BoardAssumption DEF BoardAssumption
<1>2. PICK b \in Block :
        /\ FillTarget(len, b)
        /\ LET W == Written(len, b, n)
               full == W[b].plen >= BlockBytes
               order == OrderAfter(len)
           IN /\ fill' = IF full THEN None ELSE b
              /\ nextOrder' = IF full THEN order + 1 ELSE order
              /\ StartDma(IF full THEN [W EXCEPT ![b].state = "ready", ![b].order = order] ELSE W,
                          dma, irq)
  BY DEF DataAccept
<1> DEFINE W == Written(len, b, n)
           full == W[b].plen >= BlockBytes
           order == OrderAfter(len)
           B == IF full THEN [W EXCEPT ![b].state = "ready", ![b].order = order] ELSE W
<1>3. W \in Blks /\ order \in Nat
  BY <1>2, WrittenType, MadeRoomType
<1>4. [W EXCEPT ![b].state = "ready", ![b].order = order] \in Blks
  <2>1. W \in Blks /\ order \in Nat
    BY <1>3
  <2> HIDE DEF W, order, TypeOK
  <2> QED
    BY <2>1 DEF Blks
<1>5. B \in Blks
  BY <1>3, <1>4
<1>6. StartDma(B, dma, irq) /\ fill' \in Block \cup {None} /\ nextOrder' \in Nat
  <2>1. StartDma(B, dma, irq) /\ fill' \in {None, b} /\ nextOrder' \in {order, order + 1}
    BY <1>2
  <2> HIDE DEF B, order
  <2> QED
    BY <1>3, <2>1
<1>7. blk' \in Blks /\ dma' \in Dmas /\ irq' \in Flags /\ hw' \in Hws
  BY <1>5, <1>6, StartDmaType
<1>8. pend' \in Pends /\ out' \in Seq(Acks)
  BY <1>1, QueueOkType DEF DataAccept
<1>9. hist' \in [0 .. HistoryDepth - 1 -> Chunks] /\ histHead' \in 0 .. HistoryDepth - 1
  <2>1. Record(n, len)
    BY DEF DataAccept
  <2>2. hist' \in [0 .. HistoryDepth - 1 -> Chunks]
    BY <1>1, <2>1 DEF Record, Chunks
  <2>3. histHead' \in 0 .. HistoryDepth - 1
    BY <1>1, <2>1 DEF Record, NextHead
  <2>4. QED
    BY <2>2, <2>3
<1>10. nextSeq' \in Nat /\ total' \in Nat /\ accepted' \in Seq([len : Nat, off : Nat])
  <2>1. nextSeq' = n + 1 /\ total' = total + len /\ accepted' = Append(accepted, [len |-> len, off |-> total])
    BY DEF DataAccept
  <2>2. n \in Nat /\ total \in Nat /\ accepted \in Seq([len : Nat, off : Nat])
    OBVIOUS
  <2> QED
    BY <1>1, <2>1, <2>2
<1>11. /\ UNCHANGED <<pc, session, crcOn, lbLocked, air, lb, epoch>>
       /\ lbPeer' \in {lbPeer, p}
  BY DEF DataAccept, ghostVars
<1>12. QED
  BY <1>6, <1>7, <1>8, <1>9, <1>10, <1>11

(* Every packet keeps the types.                                            *)
LEMMA ReceiveType == ASSUME TypeOK, NEW p \in Peers, Receive(p) PROVE TypeOK'
<1>1. Lens \subseteq Nat /\ 0 \in Nat
  BY BoardAssumption DEF BoardAssumption
<1>2. ASSUME NEW status \in {"BAD_LENGTH", "BAD_MAGIC"}, Malformed(p, status) PROVE TypeOK'
  BY <1>1, <1>2, AnswerType DEF Malformed
<1>3. CASE RxCfg(p)
  <2>1. out' \in Seq(Acks)
    <3>1. Ack(p, 0, "OK", 0, "ctl") \in Acks
      BY DEF Ack, Acks
    <3>2. QED
      BY <1>3, <3>1 DEF RxCfg
  <2>2. QED
    BY <1>3, <2>1 DEF RxCfg, TypeOK, streamVars, aggVars, dmaVars, ghostVars
<1>4. CASE ResetRefused(p)
  BY <1>4, <1>1, AnswerType DEF ResetRefused
<1>5. ASSUME NEW s \in Sessions, NEW crc \in CrcModes, Reset(p, s, crc) PROVE TypeOK'
  BY <1>5, ResetType
<1>6. ASSUME NEW s \in Sessions, NEW n \in 0 .. MaxSeq - 1,
             DataWrongSession(p, s, n) \/ DataAfterFatal(p, s, n) \/ DataAhead(p, s, n)
      PROVE TypeOK'
  <2>1. n \in Nat
    OBVIOUS
  <2>2. CASE DataWrongSession(p, s, n)
    BY <2>1, <2>2, <1>1, AnswerType DEF DataWrongSession
  <2>3. CASE DataAfterFatal(p, s, n)
    BY <2>1, <2>3, <1>1, AnswerType DEF DataAfterFatal
  <2>4. CASE DataAhead(p, s, n)
    BY <2>1, <2>4, <1>1, AnswerType DEF DataAhead
  <2>5. QED
    BY <1>6, <2>2, <2>3, <2>4
<1>7. ASSUME NEW s \in Sessions, NEW n \in 0 .. MaxSeq - 1, NEW len \in Lens,
             \/ DataDuplicate(p, s, n, len) \/ DataNoSpace(p, s, n, len)
             \/ DataDamaged(p, s, n, len) \/ DataAccept(p, s, n, len)
      PROVE TypeOK'
  <2>1. n \in Nat /\ len \in Nat
    BY <1>1
  <2>2. CASE DataDuplicate(p, s, n, len)
    <3>1. ASSUME NEW i \in Remembered(n) PROVE hist[i].len \in Nat
      BY DEF Remembered, TypeOK, Chunks
    <3>2. \E l \in Nat : SendNow(p, n, "OK", l, "data")
      BY <2>1, <2>2, <3>1 DEF DataDuplicate
    <3>3. QED
      BY <2>1, <2>2, <3>2, AnswerType DEF DataDuplicate
  <2>3. CASE DataNoSpace(p, s, n, len)
    BY <2>1, <2>3, RefuseType DEF DataNoSpace
  <2>4. CASE DataDamaged(p, s, n, len)
    BY <2>1, <2>4, RefuseType DEF DataDamaged
  <2>5. CASE DataAccept(p, s, n, len)
    BY <2>1, <2>5, AcceptType
  <2>6. QED
    BY <1>7, <2>2, <2>3, <2>4, <2>5
<1>8. QED
  BY <1>2, <1>3, <1>4, <1>5, <1>6, <1>7 DEF Receive

(* What is recorded of a block that is given to be returned.               *)
LEMMA ReturnedType ==
  ASSUME TypeOK, dma.blk # None
  PROVE  Returned \in Returns /\ Returned.off = blk[dma.blk].offset
         /\ Returned.len = blk[dma.blk].plen /\ Returned.to = lbPeer
<1>1. dma.blk \in Block
  BY DEF TypeOK, Dmas
<1>2. blk[dma.blk].offset \in Nat /\ blk[dma.blk].plen \in 0 .. BlockBytes
  BY <1>1 DEF TypeOK, Blks
<1> QED
  BY <1>2 DEF Returned, Returns, TypeOK

(* No return sends more than its block.                                     *)
LEMMA LeavingType == ASSUME NEW len \in Nat, NEW n \in Leaving(len) PROVE n \in 0 .. len
  BY DEF Leaving

(* The record of the returned blocks is well formed.                        *)
LEMMA ReturnType == ASSUME TypeOK, Return PROVE lb' \in Loopbacks
<1>1. CASE dma.blk = None
  BY <1>1 DEF Return, TypeOK
<1>2. CASE dma.blk # None
  <2>1. PICK sent \in Leaving(blk[dma.blk].plen) : lb' = [blocks |-> Append(lb.blocks, Returned), sent |-> sent]
    BY <1>2 DEF Return
  <2>2. Returned \in Returns
    BY <1>2, ReturnedType
  <2>3. blk[dma.blk].plen \in 0 .. BlockBytes
    BY <1>2 DEF TypeOK, Dmas, Blks
  <2>4. sent \in 0 .. BlockBytes
    <3>1. BlockBytes \in Nat
      BY BoardAssumption DEF BoardAssumption
    <3>2. sent \in 0 .. blk[dma.blk].plen
      BY <2>3, <3>1, LeavingType
    <3> QED
      BY <2>3, <3>1, <3>2
  <2>5. Append(lb.blocks, Returned) \in Seq(Returns)
    BY <2>2 DEF TypeOK, Loopbacks
  <2> QED
    BY <2>1, <2>4, <2>5 DEF Loopbacks
<1> QED
  BY <1>1, <1>2

(* Every function of the main loop keeps the types.                         *)
LEMMA MainLoopType == ASSUME TypeOK, MainLoop PROVE TypeOK'
<1> USE DEF TypeOK, Quiet, streamVars, aggVars, dmaVars, peerVars, ghostVars, Stages
<1>1. <<>> \in Seq(Acks)
  OBVIOUS
<1>2. CASE InputDrained \/ AggNotDue \/ AckNotDue \/ S2mmNothing \/ TxNothing
  BY <1>1, <1>2 DEF InputDrained, AggNotDue, AckNotDue, S2mmNothing, TxNothing
<1>3. CASE AggTimeout
  <2>1. Submitted(blk, fill) \in Blks
    BY <1>3, SubmittedType DEF AggTimeout, AggDue
  <2>2. QED
    BY <1>1, <1>3, <2>1 DEF AggTimeout
<1>4. CASE AckTimeout
  BY <1>4, PendingOkType DEF AckTimeout, Pends
<1>5. CASE S2mmError
  BY <1>1, <1>5 DEF S2mmError, Dmas, Flags
<1>6. CASE S2mmDone
  <2>1. [dma EXCEPT !.rxBusy = FALSE, !.rxDone = TRUE] \in Dmas /\ [irq EXCEPT !.rxDone = FALSE] \in Flags
    BY DEF Dmas, Flags
  <2>2. blk' \in Blks /\ dma' \in Dmas /\ irq' \in Flags /\ hw' \in Hws
    BY <1>6, <2>1, ReleaseType DEF S2mmDone
  <2>3. QED
    BY <1>1, <1>6, <2>2, ReturnType DEF S2mmDone
<1>7. CASE PollStart
  <2>1. blk' \in Blks /\ dma' \in Dmas /\ irq' \in Flags /\ hw' \in Hws
    BY <1>7, StartDmaType DEF PollStart
  <2>2. QED
    BY <1>1, <1>7, <2>1 DEF PollStart
<1>8. CASE TxFailed
  BY <1>1, <1>8 DEF TxFailed, Dmas, Flags
<1>9. CASE TxDone
  <2>1. [dma EXCEPT !.busy = FALSE] \in Dmas /\ [irq EXCEPT !.txDone = FALSE] \in Flags
    BY DEF Dmas, Flags
  <2>2. blk' \in Blks /\ dma' \in Dmas /\ irq' \in Flags /\ hw' \in Hws
    BY <1>9, <2>1, ReleaseType DEF TxDone
  <2>3. QED
    BY <1>1, <1>9, <2>2 DEF TxDone
<1>10. QED
  BY <1>2, <1>3, <1>4, <1>5, <1>6, <1>7, <1>8, <1>9 DEF MainLoop

(* Every interrupt keeps the types.                                         *)
LEMMA HardwareType == ASSUME TypeOK, Hardware PROVE TypeOK'
<1> USE DEF TypeOK, streamVars, aggVars, peerVars
<1>1. out' \in Seq(Acks)
  <2>1. IrqFrame
    BY DEF Hardware, TxIoc, TxErrIrq, RxIoc, RxErrIrq
  <2>2. QED
    BY <2>1 DEF IrqFrame
<1> USE DEF IrqFrame
<1>2. CASE TxIoc
  <2>1. blk[hw.tx].content \in Seq(Nat)
    BY <1>2 DEF TxIoc, Hws, Blks
  <2>2. air' \in Seq(Nat)
    BY <1>2, <2>1 DEF TxIoc
  <2>3. hw' \in Hws /\ irq' \in Flags
    BY <1>2 DEF TxIoc, Hws, Flags
  <2>4. QED
    BY <1>1, <1>2, <2>2, <2>3 DEF TxIoc
<1>3. CASE TxErrIrq
  BY <1>1, <1>3 DEF TxErrIrq, IdleHw, Hws, Flags
<1>4. CASE RxIoc
  BY <1>1, <1>4 DEF RxIoc, Hws, Flags
<1>5. CASE RxErrIrq
  <2>1. PICK tx \in {None, hw.tx} : hw' = [tx |-> tx, rx |-> FALSE]
    BY <1>5 DEF RxErrIrq
  <2>2. hw' \in Hws /\ irq' \in Flags
    BY <1>5, <2>1 DEF RxErrIrq, Hws, Flags
  <2>3. QED
    BY <1>1, <1>5, <2>2 DEF RxErrIrq
<1>6. QED
  BY <1>2, <1>3, <1>4, <1>5 DEF Hardware

(* The types are inductive.                                                 *)
LEMMA TypeStep == TypeOK /\ [Next]_vars => TypeOK'
<1> SUFFICES ASSUME TypeOK, [Next]_vars PROVE TypeOK'
  OBVIOUS
<1>1. CASE UNCHANGED vars
  BY <1>1 DEF TypeOK, vars, streamVars, aggVars, dmaVars, ackVars, peerVars, ghostVars
<1>2. QED
  BY <1>1, MainLoopType, HardwareType, ReceiveType DEF Next

(* Types of the board's variables in every behaviour: in particular a block *)
(* never holds more than its buffer (the copy in the UDP callback stays     *)
(* inside it), the history index stays in the ring, and the coalescer never *)
(* holds back as many acknowledgements as it is set to send.                *)
THEOREM TypeCorrect == Spec => []TypeOK
<1>1. QED
  BY InitType, TypeStep, PTL DEF Spec

-----------------------------------------------------------------------------
(***************************************************************************)
(* Ownership of the blocks and of the AXI DMA channels.  Two completions   *)
(* that arrive in either order, and two interrupt handlers that may reset  *)
(* both channels at any moment, leave the main loop with five flags from   *)
(* which it decides what it may start, release or reset; the invariant     *)
(* says what those flags tell of the engine.                               *)
(***************************************************************************)

(* The blocks: B is the table, fl the filling block, d the DMA bookkeeping. *)
BlocksOwned(B, fl, d) ==
  /\ \A b \in Block : B[b].state = "filling" <=> b = fl
  /\ fl # None => B[fl].plen > 0
  /\ \A b \in Block : B[b].state = "busy" => d.blk = b
  /\ d.busy \/ (~d.fatal /\ d.blk # None) => d.blk # None /\ B[d.blk].state = "busy"
  /\ d.blk # None => B[d.blk].state \in {"ready", "busy"}

(* The engine h and the interrupt flags f, as the bookkeeping knows them. *)
EngineKnown(B, d, f, h) ==
  /\ h.tx # None => B[h.tx].state = "busy" /\ (d.busy \/ d.fatal)
  /\ d.fatal /\ d.rxBusy => h.tx = None
  /\ f.txDone \/ f.txErr => h.tx = None /\ (d.busy \/ d.fatal)
  /\ f.rxDone \/ f.rxErr => ~h.rx /\ (d.rxBusy \/ d.fatal)
  /\ h.rx => d.rxBusy \/ d.fatal
  /\ ~d.fatal /\ d.blk # None => d.rxBusy \/ d.rxDone

(* A transfer that has not failed still waits for one of its channels. *)
Underway(d) == d.blk # None => d.fatal \/ d.busy \/ d.rxBusy

Owned(B, fl, d, f, h) == BlocksOwned(B, fl, d) /\ EngineKnown(B, d, f, h)

OwnershipInv ==
  /\ Owned(blk, fill, dma, irq, hw)
  /\ Underway(dma)
  /\ pc = "tx" => dma.busy /\ ~dma.fatal

(* A step that starts MM2S finds an idle engine and leaves no stale flag.   *)
StartQuiet == hw'.tx # None /\ hw'.tx # hw.tx => hw = IdleHw /\ irq' = NoFlags

-----------------------------------------------------------------------------
(* Starting a transfer keeps the invariant, on whatever table and flags the *)
(* caller prepared, and meets an engine with both channels idle.            *)

(* A start is tried only when the engine is idle and no block is being      *)
(* sent.                                                                    *)
LEMMA StartMeetsIdle ==
  ASSUME NEW B \in Blks, NEW fl, NEW d \in Dmas, NEW f \in Flags, hw \in Hws,
         Owned(B, fl, d, f, hw), CanStart(d)
  PROVE  hw = IdleHw /\ f = NoFlags
<1>1. hw.tx = None /\ hw.rx = FALSE
  BY DEF Owned, EngineKnown, CanStart, Hws
<1>2. f.txDone = FALSE /\ f.rxDone = FALSE /\ f.txErr = FALSE /\ f.rxErr = FALSE
  BY DEF Owned, EngineKnown, CanStart, Flags
<1>3. hw = IdleHw
  BY <1>1 DEF Hws, IdleHw
<1>4. f = NoFlags
  BY <1>2 DEF Flags, NoFlags
<1>5. QED
  BY <1>3, <1>4

(* net_start_dma_transfer, from any place that calls it, keeps the          *)
(* ownership and starts on idle channels only.                              *)
LEMMA StartDmaOwned ==
  ASSUME NEW B \in Blks, NEW fl \in Block \cup {None}, NEW d \in Dmas, NEW f \in Flags, hw \in Hws,
         Owned(B, fl, d, f, hw), Underway(d), StartDma(B, d, f)
  PROVE  Owned(blk', fl, dma', irq', hw') /\ Underway(dma') /\ StartQuiet
<1>1. CASE CanStart(d) /\ InState(B, "ready") # {}
  <2>1. PICK b \in Block :
          /\ B[b].state = "ready"
          /\ S2mmRefused(B, d, b) \/ Mm2sRefused(B, d, b) \/ BothStarted(B, d, b)
    BY <1>1 DEF StartDma, Earliest, InState
  <2>2. hw = IdleHw
    BY <1>1, StartMeetsIdle
  <2>3. d.blk = None /\ ~d.busy /\ ~d.fatal /\ ~d.rxBusy
    BY <1>1 DEF CanStart, Underway
  <2>4. \A c \in Block : B[c].state # "busy"
    BY <2>3 DEF Owned, BlocksOwned, Block, None
  <2>5. None \notin Block /\ StartQuiet
    BY <2>1, <2>2 DEF None, Block, StartQuiet, S2mmRefused, Mm2sRefused, BothStarted
  <2>6. CASE S2mmRefused(B, d, b)
    BY <2>1, <2>2, <2>3, <2>4, <2>5, <2>6
    DEF S2mmRefused, Owned, BlocksOwned, EngineKnown, Underway, Dmas, NoFlags, IdleHw
  <2>7. CASE Mm2sRefused(B, d, b)
    BY <2>1, <2>2, <2>3, <2>4, <2>5, <2>7
    DEF Mm2sRefused, Owned, BlocksOwned, EngineKnown, Underway, Dmas, NoFlags, IdleHw
  <2>8. CASE BothStarted(B, d, b)
    <3>1. blk'[b].state = "busy" /\ b # fl
      BY <2>1, <2>8 DEF BothStarted, Blks, Owned, BlocksOwned
    <3>2. \A c \in Block : c # b => blk'[c] = B[c]
      BY <2>8 DEF BothStarted, Blks
    <3>3. dma'.busy /\ dma'.blk = b /\ dma'.rxBusy /\ ~dma'.fatal /\ ~dma'.rxDone
      BY <2>3, <2>8 DEF BothStarted, Dmas
    <3>4. BlocksOwned(blk', fl, dma')
      BY <2>4, <2>5, <3>1, <3>2, <3>3 DEF Owned, BlocksOwned
    <3>5. EngineKnown(blk', dma', irq', hw')
      BY <2>5, <2>8, <3>1, <3>3 DEF BothStarted, EngineKnown, NoFlags
    <3>6. QED
      BY <2>5, <3>3, <3>4, <3>5 DEF Owned, Underway
  <2>9. QED
    BY <2>1, <2>6, <2>7, <2>8
<1>2. QED
  BY <1>1 DEF StartDma, StartQuiet

(* The table without the block that both channels have finished; d and f    *)
(* are the bookkeeping with one completion just entered.                    *)
LEMMA FreedOwned ==
  ASSUME blk \in Blks, NEW fl \in Block \cup {None}, NEW d \in Dmas, NEW f \in Flags, hw \in Hws,
         Owned(blk, fl, d, f, hw), d.fatal => hw.tx = None, CanRelease(d),
         NEW B, B = [blk EXCEPT ![d.blk] = FreeBlk],
         NEW e, e = [d EXCEPT !.blk = None, !.rxDone = FALSE]
  PROVE  B \in Blks /\ e \in Dmas /\ Owned(B, fl, e, f, hw) /\ Underway(e) /\ hw.tx = None
<1>1. d.blk \in Block /\ ~d.busy /\ ~d.rxBusy /\ None \notin Block
  BY DEF CanRelease, Dmas, Block, None
<1>2. B \in Blks /\ e \in Dmas
  BY <1>1, FreeBlkType DEF Dmas
<1>3. B[d.blk].state = "free" /\ \A c \in Block : c # d.blk => B[c] = blk[c]
  BY <1>1 DEF Blks, FreeBlk
<1>4. ~e.busy /\ e.blk = None /\ e.fatal = d.fatal /\ ~e.rxBusy
  BY <1>1 DEF Dmas
<1>5. hw.tx = None /\ fl # d.blk
  BY <1>1 DEF Owned, EngineKnown, BlocksOwned
<1>6. \A c \in Block : B[c].state # "busy"
  BY <1>1, <1>3 DEF Owned, BlocksOwned
<1>7. BlocksOwned(B, fl, e)
  BY <1>1, <1>3, <1>4, <1>5, <1>6 DEF Owned, BlocksOwned
<1>8. EngineKnown(B, e, f, hw)
  BY <1>1, <1>4, <1>5 DEF Owned, EngineKnown
<1>9. QED
  BY <1>2, <1>4, <1>5, <1>7, <1>8 DEF Owned, Underway

(* net_loopback_release_dma_block_if_done, with the start it ends in, keeps *)
(* the ownership.                                                           *)
LEMMA ReleaseOwned ==
  ASSUME blk \in Blks, NEW fl \in Block \cup {None}, NEW d \in Dmas, NEW f \in Flags, hw \in Hws,
         Owned(blk, fl, d, f, hw), d.fatal => hw.tx = None, ReleaseIfDone(d, f)
  PROVE  Owned(blk', fl, dma', irq', hw') /\ Underway(dma') /\ StartQuiet
<1>1. CASE CanRelease(d)
  <2> DEFINE B == [blk EXCEPT ![d.blk] = FreeBlk]
             e == [d EXCEPT !.blk = None, !.rxDone = FALSE]
  <2>1. B \in Blks /\ e \in Dmas /\ Owned(B, fl, e, f, hw) /\ Underway(e)
    BY <1>1, FreedOwned
  <2>2. StartDma(B, e, f)
    BY <1>1 DEF ReleaseIfDone
  <2> HIDE DEF B, e
  <2>3. QED
    BY <2>1, <2>2, StartDmaOwned
<1>2. CASE ~CanRelease(d)
  BY <1>2 DEF ReleaseIfDone, Owned, EngineKnown, Underway, CanRelease, Dmas, StartQuiet
<1>3. QED
  BY <1>1, <1>2

-----------------------------------------------------------------------------
(* The callback touches only free and filling blocks. *)

(* Making the filling block ready keeps the ownership.                      *)
LEMMA SubmitOwned ==
  ASSUME TypeOK, NEW B \in Blks, NEW C \in Blks, NEW b \in Block, Owned(B, b, dma, irq, hw),
         C[b].state = "ready", \A c \in Block : c # b => C[c] = B[c]
  PROVE  Owned(C, None, dma, irq, hw)
<1>1. None \notin Block /\ B[b].state = "filling"
  BY DEF Block, None, Owned, BlocksOwned
<1>2. BlocksOwned(C, None, dma)
  BY <1>1 DEF Owned, BlocksOwned, TypeOK, Dmas
<1>3. EngineKnown(C, dma, irq, hw)
  BY <1>1 DEF Owned, EngineKnown, TypeOK, Hws
<1>4. QED
  BY <1>2, <1>3 DEF Owned

(* A filling block that is submitted becomes ready with its content; the    *)
(* other blocks stay.                                                       *)
LEMMA SubmittedTable ==
  ASSUME TypeOK, OwnershipInv, fill # None
  PROVE  LET C == Submitted(blk, fill)
         IN /\ fill \in Block /\ C \in Blks
            /\ C[fill].state = "ready" /\ C[fill].order = nextOrder
            /\ C[fill].content = blk[fill].content
            /\ \A c \in Block : c # fill => C[c] = blk[c]
<1>1. fill \in Block /\ blk \in Blks /\ Submitted(blk, fill) \in Blks
  BY SubmittedType DEF TypeOK
<1>2. blk[fill].plen # 0
  BY <1>1 DEF OwnershipInv, Owned, BlocksOwned
<1>3. QED
  BY <1>1, <1>2 DEF Submitted, Blks

(* The idle timer hands over a whole block.                                 *)
LEMMA SubmittedOwned ==
  ASSUME TypeOK, OwnershipInv, fill # None
  PROVE  Owned(Submitted(blk, fill), None, dma, irq, hw)
  BY SubmittedTable, SubmitOwned DEF OwnershipInv, TypeOK

(* What net_ensure_fill_block leaves behind when the chunk is refused is    *)
(* owned properly.                                                          *)
LEMMA MadeRoomOwned ==
  ASSUME TypeOK, OwnershipInv, NEW len \in Lens
  PROVE  Owned(MadeRoom(len), FillAfterRefusal(len), dma, irq, hw)
<1>1. CASE Fits(len) \/ fill = None
  BY <1>1 DEF MadeRoom, FillAfterRefusal, Fits, OwnershipInv
<1>2. CASE ~Fits(len) /\ fill # None
  BY <1>2, SubmittedOwned DEF MadeRoom, FillAfterRefusal
<1>3. QED
  BY <1>1, <1>2

(* The table after the chunk was copied into block b: either the filling    *)
(* block has grown, or a free block has become the filling one.             *)
LEMMA WrittenTable ==
  ASSUME TypeOK, OwnershipInv, NEW len \in Lens, NEW n \in Nat, NEW b \in Block, FillTarget(len, b)
  PROVE  LET R == MadeRoom(len)
             W == Written(len, b, n)
         IN /\ W[b].state = "filling" /\ W[b].plen > 0
            /\ \A c \in Block : c # b => W[c] = R[c]
            /\ \/ /\ R[b].state = "filling" /\ FillAfterRefusal(len) = b
                  /\ W[b].content = Append(R[b].content, n)
               \/ /\ R[b].state = "free" /\ FillAfterRefusal(len) = None
                  /\ W[b].content = Append(<<>>, n)
<1>1. len \in Nat /\ len > 0 /\ None \notin Block
  BY BoardAssumption DEF BoardAssumption, Block, None
<1>2. MadeRoom(len) \in Blks /\ Written(len, b, n) \in Blks
  BY MadeRoomType, WrittenType
<1>3. CASE Fits(len)
  <2>1. Opened(len, b) = blk /\ MadeRoom(len) = blk /\ b = fill /\ FillAfterRefusal(len) = fill
    BY <1>3 DEF FillTarget, Opened, MadeRoom, FillAfterRefusal
  <2>2. blk[b].state = "filling" /\ blk[b].plen > 0 /\ blk[b].plen \in Int
    BY <1>1, <2>1 DEF OwnershipInv, Owned, BlocksOwned, TypeOK, Blks
  <2>3. Written(len, b, n) = [blk EXCEPT ![b].content = Append(blk[b].content, n), ![b].plen = blk[b].plen + len]
    BY <2>1 DEF Written
  <2>4. blk \in Blks /\ blk[b].plen + len > 0
    BY <1>1, <2>2 DEF TypeOK
  <2>5. QED
    BY <2>1, <2>2, <2>3, <2>4 DEF Blks
<1>4. CASE ~Fits(len)
  <2>1. Opened(len, b) = [MadeRoom(len) EXCEPT ![b] = NewFill] /\ FillAfterRefusal(len) = None
        /\ MadeRoom(len)[b].state = "free"
    BY <1>4 DEF FillTarget, Opened, FillAfterRefusal, InState
  <2>2. QED
    BY <1>1, <1>2, <2>1 DEF Written, NewFill, Blks
<1>5. QED
  BY <1>3, <1>4

(* So is the table into which a chunk was copied.                           *)
LEMMA WrittenOwned ==
  ASSUME TypeOK, OwnershipInv, NEW len \in Lens, NEW n \in Nat, NEW b \in Block, FillTarget(len, b)
  PROVE  Owned(Written(len, b, n), b, dma, irq, hw)
<1> DEFINE R == MadeRoom(len)
           W == Written(len, b, n)
<1>1. None \notin Block
  BY DEF Block, None
<1>2. Owned(R, FillAfterRefusal(len), dma, irq, hw)
  BY MadeRoomOwned
<1>3. /\ W[b].state = "filling" /\ W[b].plen > 0 /\ R[b].state \in {"free", "filling"}
      /\ \A c \in Block : c # b => W[c] = R[c] /\ c # FillAfterRefusal(len)
  BY <1>1, WrittenTable
<1> HIDE DEF R, W
<1>4. BlocksOwned(W, b, dma)
  BY <1>1, <1>2, <1>3 DEF Owned, BlocksOwned, TypeOK, Dmas
<1>5. EngineKnown(W, dma, irq, hw)
  BY <1>1, <1>2, <1>3 DEF Owned, EngineKnown, TypeOK, Hws
<1>6. QED
  BY <1>4, <1>5 DEF Owned, W

-----------------------------------------------------------------------------
(* Every step keeps the invariant. *)

(* After Net_RxInit nobody owns a block.                                    *)
LEMMA OwnershipInit == Init => OwnershipInv
  BY DEF Init, OwnershipInv, Owned, BlocksOwned, EngineKnown, Underway, FreeBlk, IdleDma, NoFlags,
         IdleHw, Block, None

(* Accepting a chunk, which may close a block and start the DMA, keeps the  *)
(* ownership.                                                               *)
LEMMA AcceptOwned ==
  ASSUME TypeOK, OwnershipInv, NEW p \in Peers, NEW s \in Sessions, NEW n \in Nat, NEW len \in Lens,
         DataAccept(p, s, n, len)
  PROVE  OwnershipInv' /\ StartQuiet
<1>1. PICK b \in Block :
        /\ FillTarget(len, b)
        /\ LET W == Written(len, b, n)
               full == W[b].plen >= BlockBytes
               order == OrderAfter(len)
           IN /\ fill' = IF full THEN None ELSE b
              /\ nextOrder' = IF full THEN order + 1 ELSE order
              /\ StartDma(IF full THEN [W EXCEPT ![b].state = "ready", ![b].order = order] ELSE W,
                          dma, irq)
  BY DEF DataAccept
<1> DEFINE W == Written(len, b, n)
           full == W[b].plen >= BlockBytes
           order == OrderAfter(len)
           F == [W EXCEPT ![b].state = "ready", ![b].order = order]
           B == IF full THEN F ELSE W
           fl == IF full THEN None ELSE b
<1>2. W \in Blks /\ order \in Nat /\ Owned(W, b, dma, irq, hw)
  BY <1>1, WrittenType, MadeRoomType, WrittenOwned
<1>3. F \in Blks /\ F[b].state = "ready" /\ \A c \in Block : c # b => F[c] = W[c]
  BY <1>2 DEF Blks
<1>4. StartDma(B, dma, irq) /\ fl \in Block \cup {None} /\ fill' = fl
  BY <1>1
<1> HIDE DEF W, F, full
<1>5. Owned(F, None, dma, irq, hw)
  BY <1>2, <1>3, SubmitOwned
<1>6. B \in Blks /\ Owned(B, fl, dma, irq, hw)
  BY <1>2, <1>3, <1>5
<1> HIDE DEF B, fl
<1>7. Owned(blk', fill', dma', irq', hw') /\ Underway(dma') /\ StartQuiet
  BY <1>4, <1>6, StartDmaOwned DEF TypeOK, OwnershipInv
<1>8. pc' = "input"
  BY DEF DataAccept
<1>9. QED
  BY <1>7, <1>8 DEF OwnershipInv

(* Every packet keeps the ownership.                                        *)
LEMMA ReceiveOwned == ASSUME TypeOK, OwnershipInv, NEW p \in Peers, Receive(p) PROVE OwnershipInv' /\ StartQuiet
<1>1. ASSUME Unchanged PROVE OwnershipInv' /\ StartQuiet
  BY <1>1 DEF Unchanged, aggVars, dmaVars, OwnershipInv, StartQuiet
<1>2. ASSUME NEW len \in Lens, NEW n, NEW status, RefuseExpected(p, n, len, status) PROVE OwnershipInv' /\ StartQuiet
  BY <1>2, MadeRoomOwned DEF RefuseExpected, dmaVars, OwnershipInv, StartQuiet
<1>3. ASSUME NEW s, NEW crc, Reset(p, s, crc) PROVE OwnershipInv' /\ StartQuiet
  <2>1. hw = IdleHw
    BY <1>3, StartMeetsIdle DEF TypeOK, OwnershipInv, Reset, ResetAllowed, CanStart
  <2>2. QED
    BY <1>3, <2>1
    DEF Reset, OwnershipInv, Owned, BlocksOwned, EngineKnown, Underway, FreeBlk, IdleDma, NoFlags,
        IdleHw, Block, None, StartQuiet
<1>4. CASE RxCfg(p)
  BY <1>4 DEF RxCfg, aggVars, dmaVars, OwnershipInv, StartQuiet
<1>5. ASSUME NEW s \in Sessions, NEW n \in 0 .. MaxSeq - 1, NEW len \in Lens, DataAccept(p, s, n, len)
      PROVE  OwnershipInv' /\ StartQuiet
  BY <1>5, AcceptOwned
<1>6. QED
  BY <1>1, <1>2, <1>3, <1>4, <1>5
  DEF Receive, Malformed, ResetRefused, DataWrongSession, DataAfterFatal, DataAhead, DataDuplicate,
      DataNoSpace, DataDamaged

(* Every function of the main loop keeps the ownership.                     *)
LEMMA MainLoopOwned == ASSUME TypeOK, OwnershipInv, MainLoop PROVE OwnershipInv' /\ StartQuiet
<1> USE DEF aggVars, dmaVars, Underway
<1>1. CASE InputDrained \/ AggNotDue \/ AckTimeout \/ AckNotDue \/ S2mmNothing \/ TxNothing
  BY <1>1 DEF InputDrained, AggNotDue, AckTimeout, AckNotDue, S2mmNothing, TxNothing, OwnershipInv, StartQuiet
<1>2. CASE AggTimeout
  BY <1>2, SubmittedOwned DEF AggTimeout, AggDue, OwnershipInv, StartQuiet
<1>3. CASE S2mmError
  BY <1>3 DEF S2mmError, StartQuiet, OwnershipInv, Owned, BlocksOwned, EngineKnown, TypeOK, Dmas, Flags
<1>4. CASE S2mmDone
  <2> DEFINE d == [dma EXCEPT !.rxBusy = FALSE, !.rxDone = TRUE]
             f == [irq EXCEPT !.rxDone = FALSE]
  <2>1. d \in Dmas /\ f \in Flags
    BY DEF TypeOK, Dmas, Flags
  <2>2. d.fatal => hw.tx = None
    BY <1>4 DEF S2mmDone, OwnershipInv, Owned, EngineKnown, TypeOK, Dmas
  <2>3. Owned(blk, fill, d, f, hw)
    BY <1>4 DEF S2mmDone, OwnershipInv, Owned, BlocksOwned, EngineKnown, TypeOK, Dmas, Flags
  <2>4. Owned(blk', fill', dma', irq', hw') /\ Underway(dma') /\ StartQuiet
    BY <1>4, <2>1, <2>2, <2>3, ReleaseOwned DEF S2mmDone, TypeOK
  <2>5. QED
    BY <1>4, <2>4 DEF S2mmDone, OwnershipInv
<1>5. CASE PollStart
  <2>1. Owned(blk', fill', dma', irq', hw') /\ Underway(dma') /\ StartQuiet
    BY <1>5, StartDmaOwned DEF PollStart, TypeOK, OwnershipInv, StartQuiet
  <2>2. QED
    BY <1>5, <2>1 DEF PollStart, OwnershipInv
<1>6. CASE TxFailed
  BY <1>6 DEF TxFailed, StartQuiet, OwnershipInv, Owned, BlocksOwned, EngineKnown, TypeOK, Dmas, Flags
<1>7. CASE TxDone
  <2> DEFINE d == [dma EXCEPT !.busy = FALSE]
             f == [irq EXCEPT !.txDone = FALSE]
  <2>1. d \in Dmas /\ f \in Flags /\ ~d.fatal
    BY <1>7 DEF TxDone, OwnershipInv, TypeOK, Dmas, Flags
  <2>2. Owned(blk, fill, d, f, hw)
    BY <1>7 DEF TxDone, OwnershipInv, Owned, BlocksOwned, EngineKnown, TypeOK, Dmas, Flags
  <2>3. Owned(blk', fill', dma', irq', hw') /\ Underway(dma') /\ StartQuiet
    BY <1>7, <2>1, <2>2, ReleaseOwned DEF TxDone, TypeOK
  <2>4. QED
    BY <1>7, <2>3 DEF TxDone, OwnershipInv
<1>8. QED
  BY <1>1, <1>2, <1>3, <1>4, <1>5, <1>6, <1>7 DEF MainLoop

(* Every interrupt, between any two of these functions, keeps the           *)
(* ownership.                                                               *)
LEMMA HardwareOwned == ASSUME TypeOK, OwnershipInv, Hardware PROVE OwnershipInv' /\ StartQuiet
<1> USE DEF StartQuiet, OwnershipInv, Owned, BlocksOwned, EngineKnown, Underway, IrqFrame, aggVars,
            TypeOK, Flags, Hws, IdleHw
<1>1. CASE TxIoc
  BY <1>1 DEF TxIoc
<1>2. CASE TxErrIrq
  BY <1>2 DEF TxErrIrq
<1>3. CASE RxIoc
  BY <1>3 DEF RxIoc
<1>4. CASE RxErrIrq
  BY <1>4 DEF RxErrIrq
<1>5. QED
  BY <1>1, <1>2, <1>3, <1>4 DEF Hardware

(* The ownership is inductive relative to the types.                        *)
LEMMA OwnershipStep == TypeOK /\ OwnershipInv /\ [Next]_vars => OwnershipInv' /\ StartQuiet
<1> SUFFICES ASSUME TypeOK, OwnershipInv, [Next]_vars PROVE OwnershipInv' /\ StartQuiet
  OBVIOUS
<1>1. CASE UNCHANGED vars
  BY <1>1 DEF vars, aggVars, dmaVars, OwnershipInv, StartQuiet
<1>2. QED
  BY <1>1, MainLoopOwned, HardwareOwned, ReceiveOwned DEF Next

(* The inductive invariant behind the three theorems below holds in every   *)
(* state of the board.                                                      *)
THEOREM OwnershipHolds == Spec => []OwnershipInv
<1>1. QED
  BY TypeCorrect, OwnershipInit, OwnershipStep, PTL DEF Spec

(* The callback owns exactly the block it fills and the DMA exactly the one *)
(* it sends, whatever interrupts, refusals, errors and resets have happened *)
(* before: no buffer the engine still reads is written or given away.       *)
THEOREM BlocksKeepOwner == Spec => []BlockOwnership
<1>1. OwnershipInv => BlockOwnership
  BY DEF OwnershipInv, Owned, BlocksOwned, EngineKnown, BlockOwnership
<1>2. QED
  BY <1>1, OwnershipHolds, PTL


(* net_start_dma_transfer is reached from the callback, from both           *)
(* completions and from the poll; whenever it starts a transfer, no earlier *)
(* one runs on either channel and no interrupt of one is left to be taken   *)
(* for the new transfer's.                                                  *)
THEOREM StartsAreClean == Spec => StartsOnIdleChannels
<1>1. TypeOK /\ OwnershipInv /\ [Next]_vars
        => [hw'.tx # None /\ hw'.tx # hw.tx => hw = IdleHw /\ irq' = NoFlags]_vars
  BY OwnershipStep DEF StartQuiet
<1>2. QED
  BY <1>1, TypeCorrect, OwnershipHolds, PTL DEF Spec, StartsOnIdleChannels

(* Only a RESET starts a session, and the engine is idle when it does,      *)
(* although the code asks its bookkeeping and not the engine: nothing of    *)
(* the old session can complete into the new one.                           *)
THEOREM SessionsStartClean == Spec => SessionStartsQuiet
<1>1. TypeOK /\ OwnershipInv /\ [Next]_vars => [epoch' # epoch => hw = IdleHw /\ irq = NoFlags]_vars
  <2> SUFFICES ASSUME TypeOK, OwnershipInv, Next, epoch' # epoch PROVE hw = IdleHw /\ irq = NoFlags
    OBVIOUS
  <2>1. PICK p \in Peers, s \in Sessions, crc \in CrcModes : Reset(p, s, crc)
    <3>1. ~MainLoop
      BY DEF MainLoop, InputDrained, AggTimeout, AggNotDue, AckTimeout, AckNotDue, S2mmNothing,
             S2mmError, S2mmDone, PollStart, TxNothing, TxFailed, TxDone, ghostVars
    <3>2. ~Hardware
      BY DEF Hardware, TxIoc, TxErrIrq, RxIoc, RxErrIrq, IrqFrame
    <3>3. PICK p \in Peers : Receive(p)
      BY <3>1, <3>2 DEF Next
    <3>4. ~Unchanged /\ ~RxCfg(p)
      BY DEF Unchanged, RxCfg, ghostVars
    <3>5. \A s, n, len : ~DataNoSpace(p, s, n, len) /\ ~DataDamaged(p, s, n, len) /\ ~DataAccept(p, s, n, len)
      BY DEF DataNoSpace, DataDamaged, DataAccept, RefuseExpected, ghostVars
    <3>6. QED
      BY <3>3, <3>4, <3>5 DEF Receive, Malformed, ResetRefused, DataWrongSession, DataAfterFatal,
                              DataAhead, DataDuplicate
  <2>2. CanStart(dma)
    BY <2>1 DEF Reset, ResetAllowed, CanStart
  <2>3. QED
    BY <2>2, StartMeetsIdle DEF TypeOK, OwnershipInv
<1>2. QED
  BY <1>1, TypeCorrect, OwnershipHolds, PTL DEF Spec, SessionStartsQuiet

(* No step after a fatal error clears it or starts a channel.               *)
LEMMA FatalStep ==
  ASSUME TypeOK, Next, dma.fatal
  PROVE  dma'.fatal /\ hw'.tx \in {None, hw.tx} /\ (hw'.rx => hw.rx)
<1>1. ASSUME NEW B, NEW d \in Dmas, NEW f, d.fatal, StartDma(B, d, f) PROVE dma' = d /\ UNCHANGED hw
  BY <1>1 DEF StartDma, CanStart
<1>2. ASSUME NEW d \in Dmas, NEW f, d.fatal, ReleaseIfDone(d, f) PROVE dma'.fatal /\ UNCHANGED hw
  <2>1. [d EXCEPT !.blk = None, !.rxDone = FALSE] \in Dmas
        /\ [d EXCEPT !.blk = None, !.rxDone = FALSE].fatal
    BY <1>2 DEF Dmas
  <2>2. QED
    BY <1>1, <1>2, <2>1 DEF ReleaseIfDone
<1>3. CASE MainLoop
  <2>1. CASE S2mmDone
    <3>1. [dma EXCEPT !.rxBusy = FALSE, !.rxDone = TRUE] \in Dmas
          /\ [dma EXCEPT !.rxBusy = FALSE, !.rxDone = TRUE].fatal
      BY DEF TypeOK, Dmas
    <3>2. QED
      BY <1>2, <2>1, <3>1 DEF S2mmDone
  <2>2. CASE TxDone
    <3>1. [dma EXCEPT !.busy = FALSE] \in Dmas /\ [dma EXCEPT !.busy = FALSE].fatal
      BY DEF TypeOK, Dmas
    <3>2. QED
      BY <1>2, <2>2, <3>1 DEF TxDone
  <2>3. CASE S2mmError \/ TxFailed
    BY <2>3 DEF S2mmError, TxFailed, TypeOK, Dmas
  <2>4. CASE PollStart
    BY <2>4 DEF PollStart, dmaVars
  <2>5. QED
    BY <1>3, <2>1, <2>2, <2>3, <2>4
    DEF MainLoop, InputDrained, AggTimeout, AggNotDue, AckTimeout, AckNotDue, S2mmNothing, TxNothing, dmaVars
<1>4. CASE Hardware
  <2>1. dma' = dma
    BY <1>4 DEF Hardware, TxIoc, TxErrIrq, RxIoc, RxErrIrq, IrqFrame
  <2>2. hw'.tx \in {None, hw.tx} /\ (hw'.rx => hw.rx)
    <3>1. CASE RxErrIrq
      BY <3>1 DEF RxErrIrq
    <3>2. CASE TxErrIrq
      BY <3>2 DEF TxErrIrq, IdleHw
    <3>3. CASE TxIoc \/ RxIoc
      <4>1. hw \in [tx : Block \cup {None}, rx : BOOLEAN]
        BY DEF TypeOK, Hws
      <4>2. QED
        BY <3>3, <4>1 DEF TxIoc, RxIoc
    <3>4. QED
      BY <1>4, <3>1, <3>2, <3>3 DEF Hardware
  <2>3. QED
    BY <2>1, <2>2
<1>5. ASSUME NEW p \in Peers, Receive(p) PROVE dma' = dma /\ UNCHANGED hw
  <2>1. CASE Unchanged \/ RxCfg(p)
    BY <2>1 DEF Unchanged, RxCfg, dmaVars
  <2>2. \A s, n, len : ~DataNoSpace(p, s, n, len) /\ ~DataDamaged(p, s, n, len) /\ ~DataAccept(p, s, n, len)
    BY DEF DataNoSpace, DataDamaged, DataAccept, Expected
  <2>3. \A s, crc : ~Reset(p, s, crc)
    BY DEF Reset, ResetAllowed
  <2>4. QED
    BY <1>5, <2>1, <2>2, <2>3 DEF Receive, Malformed, ResetRefused, DataWrongSession,
                                  DataAfterFatal, DataAhead, DataDuplicate
<1>6. QED
  BY <1>3, <1>4, <1>5 DEF Next

(* A fatal error is for ever: neither channel is started again and no       *)
(* packet, not even a RESET, clears it.                                     *)
THEOREM FatalForEver == Spec => FatalIsFinal
<1>1. TypeOK /\ [Next]_vars
        => [dma.fatal => dma'.fatal /\ hw'.tx \in {None, hw.tx} /\ (hw'.rx => hw.rx)]_vars
  BY FatalStep
<1>2. QED
  BY <1>1, TypeCorrect, PTL DEF Spec, FatalIsFinal
===============================================================================
