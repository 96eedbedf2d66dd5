---------------------------- MODULE BoardHostProof ----------------------------
(***************************************************************************)
(* The board implements Acceptor, the board as a host sees it: its answers *)
(* depend on the session, the expected chunk, the OK that waits and whether *)
(* the DMA has failed, and the history ring, the blocks and the DMA show   *)
(* only in a BUSY.  So what Link shows of sender and Acceptor holds of     *)
(* sender and board.                                                       *)
(***************************************************************************)
EXTENDS BoardStreamProof

(* An acknowledgement without the length that Acceptor leaves out. *)
Slim(a) == [to |-> a.to, seq |-> a.seq, status |-> a.status, re |-> a.re]

Shown(s) == [i \in DOMAIN s |-> Slim(s[i])]

Held(q) == [to |-> q.to, seq |-> q.seq, count |-> q.count]

(* The ring remembers only chunks that were accepted. *)
HistInv == \A i \in 0 .. HistoryDepth - 1 : hist[i].seq # None => hist[i].seq < nextSeq

-----------------------------------------------------------------------------
(* Acknowledgements *)

(* Leaving out the lengths commutes with sending one more.                  *)
LEMMA ShownAppend ==
  ASSUME NEW s \in Seq(Acks), NEW a
  PROVE  Shown(Append(s, a)) = Append(Shown(s), Slim(a))
<1> DEFINE S == {Slim(s[i]) : i \in 1 .. Len(s)} \cup {Slim(a)}
           t == Append(s, a)
           u == [i \in 1 .. Len(s) |-> Slim(s[i])]
<1>1. Len(s) \in Nat /\ DOMAIN s = 1 .. Len(s) /\ DOMAIN t = 1 .. Len(s) + 1
  OBVIOUS
<1>2. Shown(s) = u
  BY <1>1 DEF Shown
<1>3. u \in Seq(S) /\ Len(u) = Len(s)
  BY <1>1
<1>4. \A i \in 1 .. Len(s) + 1 : t[i] = IF i = Len(s) + 1 THEN a ELSE s[i]
  BY <1>1
<1>5. Append(u, Slim(a)) = [i \in 1 .. Len(s) + 1 |-> IF i = Len(s) + 1 THEN Slim(a) ELSE u[i]]
  BY <1>1, <1>3
<1>6. \A i \in 1 .. Len(s) + 1 : Slim(t[i]) = IF i = Len(s) + 1 THEN Slim(a) ELSE u[i]
  BY <1>1, <1>4
<1>7. Shown(t) = [i \in 1 .. Len(s) + 1 |-> Slim(t[i])]
  BY <1>1 DEF Shown
<1> QED
  BY <1>2, <1>5, <1>6, <1>7

(* The coalescer counts the chunks it waits for.                            *)
LEMMA PendingCounts ==
  ASSUME TypeOK
  PROVE  pend.count \in Nat /\ CoalesceCount \in Nat
<1>1. CoalesceCount \in Nat
  BY BoardAssumption DEF BoardAssumption
<1>2. CASE pend = NoPend
  BY <1>1, <1>2 DEF NoPend
<1>3. CASE pend \in [to : Peers, seq : Nat, len : Nat, count : 1 .. CoalesceCount - 1]
  <2>1. pend.count \in 1 .. CoalesceCount - 1
    BY <1>3
  <2> QED
    BY <1>1, <2>1
<1> QED
  BY <1>2, <1>3 DEF TypeOK, Pends

(* The OK that waits, as a host gets to see it.                             *)
LEMMA ShownPending ==
  ASSUME TypeOK
  PROVE  /\ PendingOk \in Seq(Acks) /\ Shown(PendingOk) = Host!HeldBack
         /\ Shown(<<>>) = <<>> /\ <<>> \in Seq(Acks)
<1>1. Shown(<<>>) = <<>> /\ <<>> \in Seq(Acks)
  BY DEF Shown
<1>2. CASE pend.count = 0
  BY <1>1, <1>2 DEF PendingOk, Host!HeldBack
<1>3. CASE pend.count # 0
  <2> DEFINE a == Ack(pend.to, pend.seq, "OK", pend.len, "data")
  <2>1. a \in Acks
    BY <1>3 DEF TypeOK, Pends, NoPend, Ack, Acks
  <2>2. PendingOk = <<a>>
    BY <1>3 DEF PendingOk
  <2>3. Slim(a) = Host!Ack(pend.to, pend.seq, "OK", "data")
    BY DEF Slim, Ack, Host!Ack
  <2> HIDE DEF a
  <2>4. Shown(PendingOk) = <<Slim(a)>>
    BY <2>2 DEF Shown
  <2>5. PendingOk \in Seq(Acks)
    BY <2>1, <2>2
  <2> QED
    BY <1>1, <1>3, <2>3, <2>4, <2>5 DEF Host!HeldBack
<1> QED
  BY <1>1, <1>2, <1>3

(* net_send_immediate_ack, when nothing else that a host sees changes.      *)
LEMMA SendNowShown ==
  ASSUME TypeOK, NEW p, NEW n, NEW status, NEW len, NEW re, SendNow(p, n, status, len, re),
         UNCHANGED <<session, nextSeq, dma>>
  PROVE  Host!Answer(p, n, status, re)
<1>1. Shown(out') = Append(Host!HeldBack, Slim(Ack(p, n, status, len, re)))
  BY ShownPending, ShownAppend DEF SendNow
<1>2. Slim(Ack(p, n, status, len, re)) = Host!Ack(p, n, status, re)
  BY DEF Slim, Ack, Host!Ack
<1>3. Held(pend') = Host!NoPend
  BY DEF SendNow, NoPend, Host!NoPend, Held
<1> QED
  BY <1>1, <1>2, <1>3 DEF Host!Answer, Shown, Slim, Held

(* An answer to nobody in particular: one packet, and the OK still waits.   *)
LEMMA OneShown ==
  ASSUME NEW p, NEW n, NEW status, NEW len, NEW re, out' = <<Ack(p, n, status, len, re)>>
  PROVE  Shown(out') = <<Host!Ack(p, n, status, re)>>
  BY DEF Shown, Slim, Ack, Host!Ack

-----------------------------------------------------------------------------
(* Packets *)

(* What is refused, repeated or not understood.                             *)
LEMMA RefusalMaps ==
  ASSUME TypeOK, HistInv, NEW p \in Peers, NEW s \in Sessions, NEW n \in 0 .. MaxSeq - 1, NEW len,
         \/ DataWrongSession(p, s, n) \/ DataAfterFatal(p, s, n) \/ DataAhead(p, s, n)
         \/ DataDuplicate(p, s, n, len) \/ DataNoSpace(p, s, n, len) \/ DataDamaged(p, s, n, len)
  PROVE  Host!Data(p, s, n)
<1>1. s # None /\ n \in Nat /\ nextSeq \in Nat /\ dma.fatal \in BOOLEAN
  BY BoardAssumption DEF BoardAssumption, None, TypeOK, Dmas
<1>2. CASE DataWrongSession(p, s, n)
  <2>1. session # s
    BY <1>1, <1>2 DEF DataWrongSession, InSession
  <2>2. Host!Answer(p, n, "PENDING", "data")
    BY <1>2, SendNowShown DEF DataWrongSession, Unchanged, streamVars, dmaVars
  <2> QED
    BY <2>1, <2>2 DEF Host!Data, Host!Refuse, Host!Refused
<1>3. CASE DataAfterFatal(p, s, n)
  <2>1. session = s /\ dma.fatal
    BY <1>3 DEF DataAfterFatal, InSession
  <2>2. Host!Answer(p, n, "DMA_ERROR", "data")
    BY <1>3, SendNowShown DEF DataAfterFatal, Unchanged, streamVars, dmaVars
  <2> QED
    BY <2>1, <2>2 DEF Host!Data, Host!Refuse, Host!Refused
<1>4. CASE DataAhead(p, s, n)
  <2>1. session = s /\ ~dma.fatal /\ n > nextSeq
    BY <1>1, <1>4 DEF DataAhead, InSession, SeqBefore
  <2>2. Host!Answer(p, n, "PENDING", "data")
    BY <1>4, SendNowShown DEF DataAhead, Unchanged, streamVars, dmaVars
  <2> QED
    BY <1>1, <2>1, <2>2 DEF Host!Data, Host!Refuse, Host!Refused
<1>5. CASE DataDuplicate(p, s, n, len)
  <2>1. session = s /\ ~dma.fatal
    BY <1>5 DEF DataDuplicate, InSession
  <2>2. n < nextSeq
    <3>1. ASSUME NEW i \in Remembered(n) PROVE n < nextSeq
      <4>1. i \in 0 .. HistoryDepth - 1 /\ hist[i].seq = n
        BY DEF Remembered, TypeOK
      <4> QED
        BY <1>1, <4>1 DEF HistInv, None
    <3> QED
      BY <1>5, <3>1 DEF DataDuplicate, SeqBefore
  <2>3. \E l : SendNow(p, n, "OK", l, "data")
    BY <1>5 DEF DataDuplicate
  <2>4. Host!Answer(p, n, "OK", "data")
    BY <1>5, <2>3, SendNowShown DEF DataDuplicate, Unchanged, streamVars, dmaVars
  <2> QED
    BY <2>1, <2>2, <2>4 DEF Host!Data, Host!Repeated
<1>6. ASSUME Expected(s, n), NEW status \in {"BUSY", "BAD_LENGTH", "BAD_CHECKSUM"}, RefuseExpected(p, n, len, status)
      PROVE  Host!Data(p, s, n)
  <2>1. session = s /\ ~dma.fatal /\ n = nextSeq
    BY <1>6 DEF Expected, InSession
  <2>2. Host!Answer(p, n, status, "data")
    BY <1>6, SendNowShown DEF RefuseExpected, streamVars, dmaVars
  <2>3. status \in Host!Refused(s, n)
    BY <1>1, <2>1 DEF Host!Refused
  <2> QED
    BY <2>2, <2>3 DEF Host!Data, Host!Refuse
<1> QED
  BY <1>2, <1>3, <1>4, <1>5, <1>6 DEF DataNoSpace, DataDamaged

(* The expected chunk: the coalescer of the code is that of Acceptor.       *)
LEMMA AcceptMaps ==
  ASSUME TypeOK, TypeOK', NEW p \in Peers, NEW s \in Sessions, NEW n \in 0 .. MaxSeq - 1, NEW len \in Lens,
         DataAccept(p, s, n, len)
  PROVE  Host!Accept(p, s, n)
<1> DEFINE same == pend.count > 0 /\ pend.to = p
           count == IF same THEN pend.count + 1 ELSE 1
           first == IF same THEN <<>> ELSE PendingOk
           shown == IF same THEN <<>> ELSE Host!HeldBack
<1>1. session = s /\ ~dma.fatal /\ n = nextSeq /\ nextSeq' = n + 1 /\ session' = session
  BY DEF DataAccept, Expected, InSession
<1>2. dma'.fatal \in BOOLEAN
  BY DEF TypeOK, Dmas
<1>3. QueueOk(p, n, len)
  BY DEF DataAccept
<1>4. first \in Seq(Acks) /\ Shown(first) = shown
  BY ShownPending
<1>5. count \in Nat /\ CoalesceCount \in Nat
  BY PendingCounts
<1>6. \/ /\ count >= CoalesceCount
         /\ out' = Append(first, Ack(p, n, "OK", len, "data")) /\ pend' = NoPend
      \/ /\ count < CoalesceCount
         /\ out' = first /\ pend' = [to |-> p, seq |-> n, len |-> len, count |-> count]
  BY <1>3, <1>5 DEF QueueOk, CoalesceFull
<1>7. Slim(Ack(p, n, "OK", len, "data")) = Host!Ack(p, n, "OK", "data")
  BY DEF Slim, Ack, Host!Ack
<1>8. \/ /\ count >= CoalesceCount
         /\ Shown(out') = Append(shown, Host!Ack(p, n, "OK", "data")) /\ Held(pend') = Host!NoPend
      \/ /\ count < CoalesceCount
         /\ Shown(out') = shown /\ Held(pend') = [to |-> p, seq |-> n, count |-> count]
  <2> DEFINE a == Ack(p, n, "OK", len, "data")
  <2>1. Shown(Append(first, a)) = Append(shown, Slim(a))
    BY <1>4, ShownAppend
  <2>2. Held(NoPend) = Host!NoPend
    BY DEF Held, NoPend, Host!NoPend
  <2> HIDE DEF count, first, shown, a
  <2>3. CASE count >= CoalesceCount /\ out' = Append(first, a) /\ pend' = NoPend
    BY <1>7, <2>1, <2>2, <2>3 DEF a
  <2>4. CASE count < CoalesceCount /\ out' = first /\ pend' = [to |-> p, seq |-> n, len |-> len, count |-> count]
    BY <1>4, <2>4 DEF Held
  <2> QED
    BY <1>6, <2>3, <2>4 DEF a
<1> QED
  BY <1>1, <1>2, <1>8 DEF Host!Accept, Shown, Slim, Held

(* A RESET, taken or refused.                                               *)
LEMMA ResetMaps ==
  ASSUME TypeOK, TypeOK', NEW p, NEW s, NEW crc, Reset(p, s, crc)
  PROVE  Host!Reset(p, s)
<1>1. Shown(out') = <<Host!Ack(p, 0, "OK", "ctl")>>
  BY OneShown DEF Reset
<1>2. ~dma.fatal /\ ~dma'.fatal /\ Held(pend') = Host!NoPend
  BY DEF Reset, ResetAllowed, IdleDma, Held, NoPend, Host!NoPend
<1>3. dma.fatal \in BOOLEAN /\ dma'.fatal \in BOOLEAN
  BY DEF TypeOK, Dmas
<1> QED
  BY <1>1, <1>2, <1>3 DEF Reset, Host!Reset, Shown, Slim, Held

LEMMA ResetRefusedMaps ==
  ASSUME TypeOK, NEW p, ResetRefused(p)
  PROVE  Host!ResetRefused(p)
<1>1. Host!Answer(p, 0, IF dma.fatal THEN "DMA_ERROR" ELSE "BUSY", "ctl")
  BY SendNowShown DEF ResetRefused, Unchanged, streamVars, dmaVars
<1> QED
  BY <1>1 DEF Host!ResetRefused

(* Every packet is answered as Acceptor may answer it.                      *)
LEMMA PacketMaps ==
  ASSUME TypeOK, TypeOK', HistInv, NEW p \in Peers, Receive(p)
  PROVE  Host!Next
<1>1. ASSUME NEW status \in {"BAD_LENGTH", "BAD_MAGIC"}, Malformed(p, status) PROVE Host!Malformed(p)
  BY <1>1, SendNowShown DEF Malformed, Host!Malformed, Unchanged, streamVars, dmaVars
<1>2. CASE RxCfg(p)
  <2>1. Shown(out') = <<Host!Ack(p, 0, "OK", "ctl")>>
    BY <1>2, OneShown DEF RxCfg
  <2>2. Host!Register(p)
    BY <1>2, <2>1 DEF RxCfg, Host!Register, streamVars, dmaVars, Shown, Slim
  <2> QED
    BY <2>2 DEF Host!Next
<1>3. CASE ResetRefused(p)
  BY <1>3, ResetRefusedMaps DEF Host!Next
<1>4. ASSUME NEW s \in Sessions, NEW crc \in CrcModes, Reset(p, s, crc) PROVE Host!Next
  BY <1>4, ResetMaps DEF Host!Next
<1>5. ASSUME NEW s \in Sessions, NEW n \in 0 .. MaxSeq - 1, NEW len,
             \/ DataWrongSession(p, s, n) \/ DataAfterFatal(p, s, n) \/ DataAhead(p, s, n)
             \/ DataDuplicate(p, s, n, len) \/ DataNoSpace(p, s, n, len) \/ DataDamaged(p, s, n, len)
      PROVE  Host!Next
  <2>1. Host!Data(p, s, n)
    BY <1>5, RefusalMaps
  <2> QED
    BY <2>1 DEF Host!Next
<1>6. ASSUME NEW s \in Sessions, NEW n \in 0 .. MaxSeq - 1, NEW len \in Lens, DataAccept(p, s, n, len)
      PROVE  Host!Next
  <2>1. Host!Data(p, s, n)
    BY <1>6, AcceptMaps DEF Host!Data
  <2> QED
    BY <2>1 DEF Host!Next
<1>7. ASSUME NEW status \in {"BAD_LENGTH", "BAD_MAGIC"}, Malformed(p, status)
      PROVE  Host!Next
  BY <1>1, <1>7 DEF Host!Next
<1> QED
  BY <1>2, <1>3, <1>4, <1>5, <1>6, <1>7 DEF Receive

-----------------------------------------------------------------------------
(* The board's own steps *)

(* Main loop and interrupts show no more than the OK that waited, when its  *)
(* timer elapses, and may find a fatal error.                               *)
LEMMA InnerMaps ==
  ASSUME TypeOK, TypeOK', MainLoop \/ Hardware, dma.fatal => dma'.fatal
  PROVE  Host!Flush \/ Host!Internal
<1>1. UNCHANGED <<session, nextSeq>> /\ dma'.fatal \in {dma.fatal, TRUE}
  <2>1. UNCHANGED <<session, nextSeq>>
    BY DEF MainLoop, InputDrained, AggTimeout, AggNotDue, AckTimeout, AckNotDue, S2mmNothing,
           S2mmError, S2mmDone, PollStart, TxNothing, TxFailed, TxDone, streamVars,
           Hardware, TxIoc, TxErrIrq, RxIoc, RxErrIrq, IrqFrame
  <2>2. dma.fatal \in BOOLEAN /\ dma'.fatal \in BOOLEAN
    BY DEF TypeOK, Dmas
  <2> QED
    BY <2>1, <2>2
<1>2. CASE AckTimeout
  <2>1. Shown(out') = Host!HeldBack
    BY <1>2, ShownPending DEF AckTimeout
  <2>2. Held(pend') = Host!NoPend
    BY <1>2 DEF AckTimeout, Held, NoPend, Host!NoPend
  <2>3. dma' = dma /\ pend.count > 0
    BY <1>2 DEF AckTimeout, dmaVars
  <2> QED
    BY <1>1, <2>1, <2>2, <2>3 DEF Host!Flush, Shown, Slim, Held
<1>3. CASE out' = <<>> /\ UNCHANGED pend
  <2>1. Shown(out') = <<>>
    BY <1>3 DEF Shown
  <2> QED
    BY <1>1, <1>3, <2>1 DEF Host!Internal, Shown, Slim, Held
<1> QED
  BY <1>2, <1>3 DEF MainLoop, InputDrained, AggTimeout, AggNotDue, AckNotDue, S2mmNothing,
     S2mmError, S2mmDone, PollStart, TxNothing, TxFailed, TxDone, Quiet,
     Hardware, TxIoc, TxErrIrq, RxIoc, RxErrIrq, IrqFrame

(* The ring is written for accepted chunks only and cleared with the        *)
(* session.                                                                 *)
LEMMA HistStep == TypeOK /\ HistInv /\ [Next]_vars => HistInv'
<1> SUFFICES ASSUME TypeOK, HistInv, [Next]_vars PROVE HistInv'
  OBVIOUS
<1>1. CASE UNCHANGED streamVars
  BY <1>1 DEF streamVars, HistInv
<1>2. ASSUME NEW p \in Peers, NEW s \in Sessions, NEW crc \in CrcModes, Reset(p, s, crc)
      PROVE  HistInv'
  BY <1>2 DEF Reset, NoChunk, HistInv
<1>3. ASSUME NEW p \in Peers, NEW s \in Sessions, NEW n \in 0 .. MaxSeq - 1, NEW len \in Lens,
             DataAccept(p, s, n, len)
      PROVE  HistInv'
  <2>1. n = nextSeq /\ nextSeq' = n + 1 /\ nextSeq \in Nat
    BY <1>3 DEF DataAccept, Expected, TypeOK
  <2>2. hist' = [hist EXCEPT ![histHead] = [seq |-> n, len |-> len]]
    BY <1>3 DEF DataAccept, Record
  <2>3. SUFFICES ASSUME NEW i \in 0 .. HistoryDepth - 1, hist'[i].seq # None PROVE hist'[i].seq < nextSeq'
    BY DEF HistInv
  <2>4. hist \in [0 .. HistoryDepth - 1 -> Chunks] /\ hist[i] \in Chunks
    BY DEF TypeOK
  <2>5. CASE i = histHead
    BY <2>1, <2>2, <2>4, <2>5
  <2>6. CASE i # histHead
    <3>1. hist'[i] = hist[i]
      BY <2>2, <2>4, <2>6
    <3>2. hist[i].seq < nextSeq /\ hist[i].seq \in Nat
      BY <2>3, <2>4, <3>1 DEF HistInv, Chunks
    <3> QED
      BY <2>1, <3>1, <3>2
  <2> QED
    BY <2>5, <2>6
<1>4. CASE MainLoop \/ Hardware
  BY <1>1, <1>4 DEF MainLoop, InputDrained, AggTimeout, AggNotDue, AckTimeout, AckNotDue, S2mmNothing,
     S2mmError, S2mmDone, PollStart, TxNothing, TxFailed, TxDone,
     Hardware, TxIoc, TxErrIrq, RxIoc, RxErrIrq, IrqFrame
<1>5. ASSUME NEW p \in Peers, Receive(p) PROVE HistInv'
  BY <1>1, <1>2, <1>3, <1>5 DEF Receive, Malformed, RxCfg, ResetRefused, DataWrongSession, DataAfterFatal,
     DataAhead, DataDuplicate, DataNoSpace, DataDamaged, RefuseExpected, Unchanged
<1> QED
  BY <1>1, <1>4, <1>5 DEF Next, vars

(* A chunk is in the history only after it was accepted in this session.   *)
THEOREM HistoryIsAccepted == Spec => []HistInv
<1>1. Init => HistInv
  BY DEF Init, HistInv, NoChunk
<1> QED
  BY <1>1, HistStep, TypeCorrect, PTL DEF Spec

-----------------------------------------------------------------------------
(* The refinement *)

(* Net_RxInit leaves a board without session, chunk or answer.              *)
LEMMA HostInit == Init => Host!Init
  BY DEF Init, Host!Init, NoPend, Host!NoPend, IdleDma

(* Every step of the board is a step of Acceptor or none.                   *)
LEMMA HostStep ==
  ASSUME TypeOK, TypeOK', HistInv, [Next]_vars, dma.fatal => dma'.fatal
  PROVE  [Host!Next]_(Host!vars)
<1>1. CASE UNCHANGED vars
  BY <1>1 DEF vars, streamVars, dmaVars, ackVars, Host!vars
<1> QED
  BY <1>1, InnerMaps, PacketMaps DEF Next, Host!Next

(* A host cannot tell the board from Acceptor: which chunk is expected,     *)
(* when an OK is sent and for whom, and why a packet is refused do not      *)
(* depend on the history ring, the blocks, the DMA or their timing.         *)
THEOREM BoardIsAcceptor == Spec => HostSpec
<1>1. TypeOK /\ TypeOK' /\ HistInv /\ [Next]_vars /\ (dma.fatal => dma'.fatal)
        => [Host!Next]_(Host!vars)
  BY HostStep
<1>2. [dma.fatal => dma'.fatal /\ hw'.tx \in {None, hw.tx} /\ (hw'.rx => hw.rx)]_vars
        => (dma.fatal => dma'.fatal)
  BY DEF vars, dmaVars
<1>3. Spec => [][dma.fatal => dma'.fatal /\ hw'.tx \in {None, hw.tx} /\ (hw'.rx => hw.rx)]_vars
  BY FatalForEver DEF FatalIsFinal
<1> QED
  BY <1>1, <1>2, <1>3, HostInit, TypeCorrect, HistoryIsAccepted, PTL
  DEF Spec, HostSpec, Host!Spec

-----------------------------------------------------------------------------
(* What the answers claim *)

Truthful(s, n) ==
  \A i \in DOMAIN s : s[i].re = "data" /\ s[i].status = "OK" => s[i].seq < n

OkInv == OkIsTrue /\ (pend.count > 0 => pend.seq < nextSeq)

(* One more acknowledgement that is true.                                   *)
LEMMA TruthfulAppend ==
  ASSUME NEW s \in Seq(Acks), NEW n, Truthful(s, n), NEW a,
         a.re = "data" /\ a.status = "OK" => a.seq < n
  PROVE  Truthful(Append(s, a), n)
<1>1. /\ DOMAIN Append(s, a) = 1 .. Len(s) + 1 /\ Len(s) \in Nat /\ DOMAIN s = 1 .. Len(s)
      /\ \A i \in 1 .. Len(s) + 1 : Append(s, a)[i] = IF i = Len(s) + 1 THEN a ELSE s[i]
  OBVIOUS
<1> QED
  BY <1>1 DEF Truthful

(* The OK that waits is true when it leaves.                                *)
LEMMA PendingTruthful ==
  ASSUME TypeOK, OkInv
  PROVE  Truthful(PendingOk, nextSeq)
  BY PendingCounts DEF OkInv, PendingOk, Truthful, Ack

(* An immediate answer, which claims nothing or something true.             *)
LEMMA SendNowTruthful ==
  ASSUME TypeOK, OkInv, NEW p, NEW n, NEW status, NEW len, NEW re, SendNow(p, n, status, len, re),
         re = "data" /\ status = "OK" => n < nextSeq, nextSeq' = nextSeq
  PROVE  OkInv'
<1>1. Truthful(out', nextSeq)
  BY ShownPending, PendingTruthful, TruthfulAppend DEF SendNow, Ack
<1>2. ~(pend'.count > 0)
  BY DEF SendNow, NoPend
<1> QED
  BY <1>1, <1>2 DEF OkInv, OkIsTrue, Truthful

(* Every packet is answered truthfully.                                     *)
LEMMA PacketTruthful ==
  ASSUME TypeOK, HistInv, OkInv, NEW p \in Peers, Receive(p)
  PROVE  OkInv'
<1>1. nextSeq \in Nat
  BY DEF TypeOK
<1>2. ASSUME NEW status \in {"BAD_LENGTH", "BAD_MAGIC"}, Malformed(p, status) PROVE OkInv'
  BY <1>2, SendNowTruthful DEF Malformed, Unchanged, streamVars
<1>3. CASE RxCfg(p)
  BY <1>3 DEF RxCfg, OkInv, OkIsTrue, Ack, streamVars
<1>4. CASE ResetRefused(p)
  BY <1>4, SendNowTruthful DEF ResetRefused, Unchanged, streamVars
<1>5. ASSUME NEW s \in Sessions, NEW crc \in CrcModes, Reset(p, s, crc) PROVE OkInv'
  BY <1>5 DEF Reset, OkInv, OkIsTrue, Ack, NoPend
<1>6. ASSUME NEW s \in Sessions, NEW n \in 0 .. MaxSeq - 1,
             DataWrongSession(p, s, n) \/ DataAfterFatal(p, s, n) \/ DataAhead(p, s, n)
      PROVE  OkInv'
  BY <1>6, SendNowTruthful DEF DataWrongSession, DataAfterFatal, DataAhead, Unchanged, streamVars
<1>7. ASSUME NEW s \in Sessions, NEW n \in 0 .. MaxSeq - 1, NEW len \in Lens, DataDuplicate(p, s, n, len)
      PROVE  OkInv'
  <2>2. n < nextSeq /\ nextSeq' = nextSeq
    <3>1. ASSUME NEW i \in Remembered(n) PROVE n < nextSeq
      <4>1. i \in 0 .. HistoryDepth - 1 /\ hist[i].seq = n
        BY DEF Remembered, TypeOK
      <4> QED
        BY <1>1, <4>1 DEF HistInv, None
    <3> QED
      BY <1>7, <3>1 DEF DataDuplicate, SeqBefore, Unchanged, streamVars
  <2>3. \E l : SendNow(p, n, "OK", l, "data")
    BY <1>7 DEF DataDuplicate
  <2> QED
    BY <2>2, <2>3, SendNowTruthful
<1>8. ASSUME NEW n, NEW len, NEW status \in {"BUSY", "BAD_LENGTH", "BAD_CHECKSUM"}, RefuseExpected(p, n, len, status)
      PROVE  OkInv'
  BY <1>8, SendNowTruthful DEF RefuseExpected, streamVars
<1>9. ASSUME NEW s \in Sessions, NEW n \in 0 .. MaxSeq - 1, NEW len \in Lens, DataAccept(p, s, n, len)
      PROVE  OkInv'
  <2>1. n = nextSeq /\ nextSeq' = n + 1 /\ QueueOk(p, n, len)
    BY <1>9 DEF DataAccept, Expected
  <2>2. Truthful(PendingOk, nextSeq') /\ Truthful(<<>>, nextSeq')
    BY <1>1, <2>1 DEF OkInv, PendingOk, Truthful, Ack, TypeOK, Pends, NoPend
  <2>3. /\ Truthful(Append(PendingOk, Ack(p, n, "OK", len, "data")), nextSeq')
        /\ Truthful(Append(<<>>, Ack(p, n, "OK", len, "data")), nextSeq')
    <3>1. Ack(p, n, "OK", len, "data").seq < nextSeq'
      BY <1>1, <2>1 DEF Ack
    <3> QED
      BY <2>2, <3>1, ShownPending, TruthfulAppend
  <2>4. Truthful(out', nextSeq')
    BY <2>1, <2>2, <2>3 DEF QueueOk
  <2>5. pend'.count > 0 => pend'.seq < nextSeq'
    BY <1>1, <2>1 DEF QueueOk, NoPend
  <2> QED
    BY <2>4, <2>5 DEF OkInv, OkIsTrue, Truthful
<1> QED
  BY <1>2, <1>3, <1>4, <1>5, <1>6, <1>7, <1>8, <1>9 DEF Receive, DataNoSpace, DataDamaged

(* No step makes an answer, sent or waiting, untrue.                        *)
LEMMA OkStep == TypeOK /\ HistInv /\ OkInv /\ [Next]_vars => OkInv'
<1> SUFFICES ASSUME TypeOK, HistInv, OkInv, [Next]_vars PROVE OkInv'
  OBVIOUS
<1>1. CASE UNCHANGED vars
  BY <1>1 DEF vars, ackVars, streamVars, OkInv, OkIsTrue
<1>2. CASE AckTimeout
  BY <1>2, PendingTruthful DEF AckTimeout, NoPend, streamVars, OkInv, OkIsTrue, Truthful
<1>3. CASE out' = <<>> /\ UNCHANGED <<pend, nextSeq>>
  BY <1>3 DEF OkInv, OkIsTrue
<1>4. CASE MainLoop \/ Hardware
  BY <1>2, <1>3, <1>4 DEF MainLoop, InputDrained, AggTimeout, AggNotDue, AckNotDue, S2mmNothing,
     S2mmError, S2mmDone, PollStart, TxNothing, TxFailed, TxDone, Quiet, streamVars,
     Hardware, TxIoc, TxErrIrq, RxIoc, RxErrIrq, IrqFrame
<1> QED
  BY <1>1, <1>4, PacketTruthful DEF Next

(* The cumulative OK: no OK for a data packet, sent at once, coalesced for  *)
(* a while or repeated from the history, claims a chunk that the present    *)
(* session did not accept.                                                  *)
THEOREM OkNeverLies == Spec => []OkIsTrue
<1>1. Init => OkInv
  BY DEF Init, OkInv, OkIsTrue, NoPend
<1>2. OkInv => OkIsTrue
  BY DEF OkInv
<1> QED
  BY <1>1, <1>2, OkStep, TypeCorrect, HistoryIsAccepted, PTL DEF Spec

(* A refusal comes after the OK that waited, in the same step: no host      *)
(* hears of a failure before it hears of the chunks accepted earlier.       *)
THEOREM OkBeforeRefusal == Spec => RefusalsFlushOk
<1> DEFINE Refuses == \E i \in DOMAIN out' : out'[i].status # "OK"
           Flushed == /\ pend'.count = 0
                      /\ pend.count > 0 => out'[1].seq = pend.seq /\ out'[1].status = "OK"
<1>1. ASSUME TypeOK, NEW p, NEW n, NEW status, NEW len, NEW re, SendNow(p, n, status, len, re)
      PROVE  Flushed
  BY <1>1 DEF SendNow, PendingOk, Ack, NoPend
<1>2. ASSUME TypeOK, Next, Refuses
      PROVE  \E p, n, status, len, re : SendNow(p, n, status, len, re)
  <2>1. CASE Quiet \/ out' = <<>>
    BY <1>2, <2>1 DEF Quiet
  <2>2. CASE AckTimeout
    BY <1>2, <2>2 DEF AckTimeout, PendingOk, Ack
  <2>3. CASE MainLoop \/ Hardware
    BY <2>1, <2>2, <2>3 DEF MainLoop, InputDrained, AggTimeout, AggNotDue, AckNotDue, S2mmNothing,
       S2mmError, S2mmDone, PollStart, TxNothing, TxFailed, TxDone,
       Hardware, TxIoc, TxErrIrq, RxIoc, RxErrIrq, IrqFrame
  <2>4. ASSUME NEW p, NEW n, NEW len, QueueOk(p, n, len) PROVE ~Refuses
    BY <2>4 DEF QueueOk, PendingOk, Ack
  <2>5. ASSUME NEW p \in Peers, Receive(p) PROVE \E q, n, status, len, re : SendNow(q, n, status, len, re)
    <3>1. CASE RxCfg(p) \/ \E s \in Sessions, crc \in CrcModes : Reset(p, s, crc)
      BY <1>2, <3>1 DEF RxCfg, Reset, Ack
    <3>2. ASSUME NEW s, NEW n, NEW len, DataAccept(p, s, n, len) PROVE FALSE
      BY <1>2, <2>4, <3>2 DEF DataAccept
    <3> QED
      BY <2>5, <3>1, <3>2 DEF Receive, Malformed, ResetRefused, DataWrongSession, DataAfterFatal,
         DataAhead, DataDuplicate, DataNoSpace, DataDamaged, RefuseExpected
  <2> QED
    BY <1>2, <2>3, <2>5 DEF Next
<1>3. TypeOK /\ [Next]_vars => [Refuses => Flushed]_vars
  BY <1>1, <1>2
<1> QED
  BY <1>3, TypeCorrect, PTL DEF Spec, RefusalsFlushOk

-----------------------------------------------------------------------------
(* What BUSY means *)

TellsBusy == \E i \in DOMAIN out : out[i].re = "data" /\ out[i].status = "BUSY"

(* BUSY for a chunk is sent only by net_ensure_fill_block's failure.        *)
LEMMA BusyFromNoSpace ==
  ASSUME Next, TellsBusy'
  PROVE  \E p, s, n, len : len \in Lens /\ DataNoSpace(p, s, n, len)
<1>1. ASSUME out' = <<>> PROVE FALSE
  BY <1>1 DEF TellsBusy
<1>2. CASE AckTimeout
  BY <1>2 DEF AckTimeout, PendingOk, Ack, TellsBusy
<1>3. CASE MainLoop \/ Hardware
  BY <1>1, <1>2, <1>3 DEF MainLoop, InputDrained, AggTimeout, AggNotDue, AckNotDue, S2mmNothing,
     S2mmError, S2mmDone, PollStart, TxNothing, TxFailed, TxDone, Quiet,
     Hardware, TxIoc, TxErrIrq, RxIoc, RxErrIrq, IrqFrame
<1>4. ASSUME NEW p, NEW n, NEW len, QueueOk(p, n, len) PROVE FALSE
  BY <1>4 DEF QueueOk, PendingOk, Ack, TellsBusy
<1>5. ASSUME NEW p, NEW n, NEW status, NEW len, NEW re, SendNow(p, n, status, len, re)
      PROVE  re = "data" /\ status = "BUSY"
  BY <1>5 DEF SendNow, PendingOk, Ack, TellsBusy
<1>6. ASSUME NEW p \in Peers, Receive(p)
      PROVE  \E s, n, len : len \in Lens /\ DataNoSpace(p, s, n, len)
  <2>1. ~RxCfg(p) /\ \A s, crc : ~Reset(p, s, crc)
    BY DEF RxCfg, Reset, Ack, TellsBusy
  <2>2. ~ResetRefused(p) /\ \A status \in {"BAD_LENGTH", "BAD_MAGIC"} : ~Malformed(p, status)
    BY <1>5 DEF ResetRefused, Malformed
  <2>3. \A s, n, len : /\ ~DataWrongSession(p, s, n) /\ ~DataAfterFatal(p, s, n) /\ ~DataAhead(p, s, n)
                       /\ ~DataDuplicate(p, s, n, len)
    BY <1>5 DEF DataWrongSession, DataAfterFatal, DataAhead, DataDuplicate
  <2>4. \A s, n, len : ~DataDamaged(p, s, n, len) /\ ~DataAccept(p, s, n, len)
    BY <1>4, <1>5 DEF DataDamaged, RefuseExpected, DataAccept
  <2> QED
    BY <1>6, <2>1, <2>2, <2>3, <2>4 DEF Receive
<1> QED
  BY <1>3, <1>6 DEF Next

(* BUSY is said only while every block is queued for the DMA or being sent: *)
(* the block being filled has been submitted before the chunk is refused.   *)
THEOREM BusyIsFull == Spec => []BusyMeansFull
<1>1. ASSUME TypeOK, OwnershipInv, TypeOK', OwnershipInv', Next, TellsBusy'
      PROVE  \A b \in Block : blk'[b].state \in {"ready", "busy"}
  <2>1. PICK p, s, n, len : len \in Lens /\ DataNoSpace(p, s, n, len)
    BY <1>1, BusyFromNoSpace
  <2>2. InState(blk', "free") = {} /\ fill' = None
    BY <2>1 DEF DataNoSpace, NoTarget, RefuseExpected, FillAfterRefusal
  <2>3. \A b \in Block : blk'[b].state \in {"free", "filling", "ready", "busy"}
    BY <1>1 DEF TypeOK, Blks
  <2>4. \A b \in Block : blk'[b].state = "filling" <=> b = fill'
    BY <1>1 DEF OwnershipInv, Owned, BlocksOwned
  <2> QED
    BY <2>2, <2>3, <2>4 DEF InState, Block, None
<1>2. TypeOK /\ TypeOK' /\ OwnershipInv /\ OwnershipInv' /\ BusyMeansFull /\ [Next]_vars => BusyMeansFull'
  <2>1. UNCHANGED vars /\ BusyMeansFull => BusyMeansFull'
    BY DEF vars, ackVars, aggVars, BusyMeansFull
  <2> QED
    BY <1>1, <2>1 DEF BusyMeansFull, TellsBusy
<1>3. Init => BusyMeansFull
  BY DEF Init, BusyMeansFull
<1> QED
  BY <1>2, <1>3, TypeCorrect, OwnershipHolds, PTL DEF Spec

-----------------------------------------------------------------------------
(* The lengths in the answers *)

(* How many chunks were recorded after the one in slot i of the ring. *)
Age(h, i) == IF i < h THEN h - 1 - i ELSE h - 1 - i + HistoryDepth

(* The ring holds the last chunks, each with the length that was accepted. *)
RingInv ==
  \A i \in 0 .. HistoryDepth - 1 :
    IF Age(histHead, i) < nextSeq
    THEN /\ hist[i].seq = nextSeq - 1 - Age(histHead, i)
         /\ hist[i].len = accepted[nextSeq - Age(histHead, i)].len
    ELSE hist[i].seq = None

(* Acknowledgement a reports the length of its chunk, if that is one of the *)
(* last ones.                                                               *)
Measured(a, n, acc) ==
  a.re = "data" /\ a.status = "OK" /\ a.seq < n /\ a.seq >= n - HistoryDepth
    => a.len = acc[a.seq + 1].len

AllMeasured(s, n, acc) == \A i \in DOMAIN s : Measured(s[i], n, acc)

LenInv ==
  /\ RingInv
  /\ pend.count > 0 => pend.seq < nextSeq /\ pend.len = accepted[pend.seq + 1].len
  /\ AllMeasured(out, nextSeq, accepted)

(* The head runs through the ring.                                          *)
LEMMA NextHeadIs ==
  ASSUME TypeOK
  PROVE  NextHead = IF histHead + 1 = HistoryDepth THEN 0 ELSE histHead + 1
<1>1. HistoryDepth \in Nat \ {0} /\ histHead \in 0 .. HistoryDepth - 1
  BY BoardAssumption DEF BoardAssumption, TypeOK
<1>2. CASE histHead + 1 = HistoryDepth
  BY <1>1, <1>2 DEF NextHead
<1>3. CASE histHead + 1 < HistoryDepth
  BY <1>1, <1>3 DEF NextHead
<1> QED
  BY <1>1, <1>2, <1>3

(* One more acknowledgement with the right length.                          *)
LEMMA MeasuredAppend ==
  ASSUME NEW s \in Seq(Acks), NEW n, NEW acc, AllMeasured(s, n, acc), NEW a, Measured(a, n, acc)
  PROVE  AllMeasured(Append(s, a), n, acc)
<1>1. /\ DOMAIN Append(s, a) = 1 .. Len(s) + 1 /\ Len(s) \in Nat /\ DOMAIN s = 1 .. Len(s)
      /\ \A i \in 1 .. Len(s) + 1 : Append(s, a)[i] = IF i = Len(s) + 1 THEN a ELSE s[i]
  OBVIOUS
<1> QED
  BY <1>1 DEF AllMeasured

(* The OK that waits, also behind the chunk that is being accepted.         *)
LEMMA PendingMeasured ==
  ASSUME TypeOK, LenInv, NEW n, NEW acc,
         \A k \in Nat : k < nextSeq => acc[k + 1].len = accepted[k + 1].len
  PROVE  AllMeasured(PendingOk, n, acc)
<1>1. CASE pend.count = 0
  BY <1>1 DEF PendingOk, AllMeasured
<1>2. CASE pend.count # 0
  <2>1. pend.count > 0 /\ pend.seq \in Nat
    BY <1>2 DEF TypeOK, Pends, NoPend
  <2>2. pend.len = acc[pend.seq + 1].len
    BY <2>1 DEF LenInv
  <2> QED
    BY <1>2, <2>2 DEF PendingOk, AllMeasured, Measured, Ack
<1> QED
  BY <1>1, <1>2

(* An immediate answer, which is no OK or reports the right length.         *)
LEMMA SendNowMeasured ==
  ASSUME TypeOK, LenInv, NEW p, NEW n, NEW status, NEW len, NEW re, SendNow(p, n, status, len, re),
         Measured(Ack(p, n, status, len, re), nextSeq, accepted), UNCHANGED streamVars
  PROVE  LenInv'
<1>1. AllMeasured(out', nextSeq, accepted)
  BY PendingMeasured, ShownPending, MeasuredAppend DEF SendNow
<1>2. ~(pend'.count > 0)
  BY DEF SendNow, NoPend
<1> QED
  BY <1>1, <1>2 DEF LenInv, RingInv, streamVars

(* What the history says of a chunk that comes again.                       *)
LEMMA DuplicateMeasured ==
  ASSUME TypeOK, LenInv, NEW p, NEW s \in Sessions, NEW n \in Nat, NEW len, DataDuplicate(p, s, n, len)
  PROVE  LenInv'
<1>1. /\ HistoryDepth \in Nat \ {0} /\ histHead \in 0 .. HistoryDepth - 1 /\ nextSeq \in Nat
      /\ DOMAIN hist = 0 .. HistoryDepth - 1
  BY BoardAssumption DEF BoardAssumption, TypeOK
<1>2. UNCHANGED streamVars
  BY DEF DataDuplicate, Unchanged
<1>3. ASSUME NEW i \in Remembered(n), SendNow(p, n, "OK", hist[i].len, "data") PROVE LenInv'
  <2>1. i \in 0 .. HistoryDepth - 1 /\ hist[i].seq = n
    BY <1>1 DEF Remembered
  <2>2. Age(histHead, i) \in Nat
    BY <1>1, <2>1 DEF Age
  <2>3. Age(histHead, i) < nextSeq
    BY <2>1 DEF LenInv, RingInv, None
  <2>4. n = nextSeq - 1 - Age(histHead, i) /\ hist[i].len = accepted[nextSeq - Age(histHead, i)].len
    BY <2>1, <2>3 DEF LenInv, RingInv
  <2>5. hist[i].len = accepted[n + 1].len
    <3>1. nextSeq - Age(histHead, i) = n + 1
      BY <1>1, <2>2, <2>4
    <3> QED
      BY <2>4, <3>1
  <2> QED
    BY <1>2, <1>3, <2>5, SendNowMeasured DEF Measured, Ack
<1>4. CASE Remembered(n) = {} /\ SeqBefore(n, nextSeq) /\ SendNow(p, n, "OK", len, "data")
  <2>1. n < nextSeq - HistoryDepth
    <3> SUFFICES ASSUME n >= nextSeq - HistoryDepth PROVE FALSE
      BY <1>1
    <3> DEFINE a == nextSeq - 1 - n
               i == IF a < histHead THEN histHead - 1 - a ELSE histHead - 1 - a + HistoryDepth
    <3>1. n < nextSeq
      BY <1>4 DEF SeqBefore
    <3>2. i \in 0 .. HistoryDepth - 1 /\ Age(histHead, i) = a /\ a < nextSeq
      BY <1>1, <3>1 DEF Age
    <3>3. hist[i].seq = nextSeq - 1 - a
      BY <3>2 DEF LenInv, RingInv
    <3>4. hist[i].seq = n
      BY <1>1, <3>3
    <3> QED
      BY <1>1, <1>4, <3>2, <3>4 DEF Remembered
  <2> QED
    BY <1>1, <1>2, <1>4, <2>1, SendNowMeasured DEF Measured, Ack
<1> QED
  BY <1>3, <1>4 DEF DataDuplicate

(* The accepted chunk takes the place of the oldest one in the ring.        *)
LEMMA AcceptMeasured ==
  ASSUME TypeOK, LenInv, CountInv, NEW p \in Peers, NEW s \in Sessions, NEW n \in 0 .. MaxSeq - 1,
         NEW len \in Lens, DataAccept(p, s, n, len)
  PROVE  LenInv'
<1>1. /\ HistoryDepth \in Nat \ {0} /\ histHead \in 0 .. HistoryDepth - 1 /\ nextSeq \in Nat
      /\ hist \in [0 .. HistoryDepth - 1 -> Chunks] /\ CoalesceCount \in Nat
      /\ accepted \in Seq([len : Nat, off : Nat]) /\ Len(accepted) = nextSeq
  BY BoardAssumption DEF BoardAssumption, TypeOK, CountInv
<1>2. /\ n = nextSeq /\ nextSeq' = n + 1 /\ QueueOk(p, n, len)
      /\ accepted' = Append(accepted, [len |-> len, off |-> total])
      /\ hist' = [hist EXCEPT ![histHead] = [seq |-> n, len |-> len]] /\ histHead' = NextHead
  BY DEF DataAccept, Expected, Record
<1>3. /\ \A k \in Nat : k < nextSeq => accepted'[k + 1].len = accepted[k + 1].len
      /\ accepted'[nextSeq + 1].len = len
  <2> DEFINE e == [len |-> len, off |-> total]
  <2>1. e.len = len
    OBVIOUS
  <2> HIDE DEF e
  <2>2. accepted' = Append(accepted, e)
    BY <1>2 DEF e
  <2>3. \A k \in Nat : k < nextSeq => accepted'[k + 1] = accepted[k + 1]
    BY <1>1, <2>2
  <2>4. accepted'[nextSeq + 1] = e
    BY <1>1, <2>2
  <2> QED
    BY <2>1, <2>3, <2>4
<1>4. RingInv'
  <2> SUFFICES ASSUME NEW i \in 0 .. HistoryDepth - 1
               PROVE  IF Age(histHead', i) < nextSeq'
                      THEN /\ hist'[i].seq = nextSeq' - 1 - Age(histHead', i)
                           /\ hist'[i].len = accepted'[nextSeq' - Age(histHead', i)].len
                      ELSE hist'[i].seq = None
    BY DEF RingInv
  <2> DEFINE a == Age(histHead, i)
             b == Age(histHead', i)
  <2>1. a \in Nat
    BY <1>1 DEF Age
  <2>2. CASE i = histHead
    <3>1. b = 0
      BY <1>1, <1>2, <2>2, NextHeadIs DEF Age
    <3>2. hist'[i].seq = n /\ hist'[i].len = len
      BY <1>1, <1>2, <2>2
    <3>3. nextSeq' - b = nextSeq + 1
      BY <1>1, <1>2, <3>1
    <3> QED
      BY <1>1, <1>2, <1>3, <3>1, <3>2, <3>3
  <2>3. CASE i # histHead
    <3>1. b = a + 1
      BY <1>1, <1>2, <2>3, NextHeadIs DEF Age
    <3>2. hist'[i] = hist[i]
      BY <1>1, <1>2, <2>3
    <3>3. IF a < nextSeq THEN hist[i].seq = nextSeq - 1 - a /\ hist[i].len = accepted[nextSeq - a].len
          ELSE hist[i].seq = None
      BY DEF LenInv, RingInv
    <3> HIDE DEF a, b
    <3>4. nextSeq' - b = nextSeq - a /\ (b < nextSeq' <=> a < nextSeq)
      BY <1>1, <1>2, <2>1, <3>1
    <3>5. a < nextSeq => accepted'[nextSeq - a].len = accepted[nextSeq - a].len
      <4> SUFFICES ASSUME a < nextSeq PROVE accepted'[nextSeq - a].len = accepted[nextSeq - a].len
        OBVIOUS
      <4>1. nextSeq - a - 1 \in Nat /\ nextSeq - a - 1 < nextSeq /\ (nextSeq - a - 1) + 1 = nextSeq - a
        BY <1>1, <2>1
      <4> QED
        BY <1>3, <4>1
    <3>6. nextSeq' - 1 - b = nextSeq - 1 - a
      BY <1>1, <1>2, <2>1, <3>1
    <3>7. CASE a < nextSeq
      BY <3>2, <3>3, <3>4, <3>5, <3>6, <3>7 DEF b
    <3>8. CASE ~(a < nextSeq)
      BY <3>2, <3>3, <3>4, <3>8 DEF b
    <3> QED
      BY <3>7, <3>8
  <2> QED
    BY <2>2, <2>3
<1>5. AllMeasured(PendingOk, nextSeq', accepted') /\ AllMeasured(<<>>, nextSeq', accepted')
  BY <1>3, PendingMeasured DEF AllMeasured
<1>6. Measured(Ack(p, n, "OK", len, "data"), nextSeq', accepted')
  BY <1>2, <1>3 DEF Measured, Ack
<1>7. AllMeasured(out', nextSeq', accepted')
  BY <1>2, <1>5, <1>6, ShownPending, MeasuredAppend DEF QueueOk
<1>8. pend'.count > 0 => pend'.seq < nextSeq' /\ pend'.len = accepted'[pend'.seq + 1].len
  BY <1>1, <1>2, <1>3 DEF QueueOk, NoPend
<1> QED
  BY <1>4, <1>7, <1>8 DEF LenInv

(* No step spoils a length.                                                 *)
LEMMA LenStep == TypeOK /\ CountInv /\ LenInv /\ [Next]_vars => LenInv'
<1> SUFFICES ASSUME TypeOK, CountInv, LenInv, [Next]_vars PROVE LenInv'
  OBVIOUS
<1>1. CASE UNCHANGED vars
  BY <1>1 DEF vars, ackVars, streamVars, LenInv, RingInv
<1>2. CASE out' = <<>> /\ UNCHANGED pend /\ UNCHANGED streamVars
  BY <1>2 DEF LenInv, RingInv, AllMeasured, streamVars
<1>3. CASE AckTimeout
  <2>1. AllMeasured(out', nextSeq, accepted) /\ ~(pend'.count > 0) /\ UNCHANGED streamVars
    BY <1>3, PendingMeasured DEF AckTimeout, NoPend
  <2> QED
    BY <2>1 DEF LenInv, RingInv, streamVars
<1>4. CASE MainLoop \/ Hardware
  BY <1>2, <1>3, <1>4 DEF MainLoop, InputDrained, AggTimeout, AggNotDue, AckNotDue, S2mmNothing,
     S2mmError, S2mmDone, PollStart, TxNothing, TxFailed, TxDone, Quiet,
     Hardware, TxIoc, TxErrIrq, RxIoc, RxErrIrq, IrqFrame
<1>5. ASSUME NEW p, NEW n, NEW status, NEW len, NEW re, SendNow(p, n, status, len, re),
             status # "OK" \/ re # "data", UNCHANGED streamVars
      PROVE  LenInv'
  BY <1>5, SendNowMeasured DEF Measured, Ack
<1>6. ASSUME NEW p \in Peers, Receive(p) PROVE LenInv'
  <2>1. ASSUME NEW status \in {"BAD_LENGTH", "BAD_MAGIC"}, Malformed(p, status) PROVE LenInv'
    BY <1>5, <2>1 DEF Malformed, Unchanged
  <2>2. CASE RxCfg(p)
    BY <2>2 DEF RxCfg, LenInv, RingInv, AllMeasured, Measured, Ack, streamVars
  <2>3. CASE ResetRefused(p)
    BY <1>5, <2>3 DEF ResetRefused, Unchanged
  <2>4. ASSUME NEW s \in Sessions, NEW crc \in CrcModes, Reset(p, s, crc) PROVE LenInv'
    <3>1. AllMeasured(out', nextSeq', accepted') /\ ~(pend'.count > 0)
      BY <2>4 DEF Reset, NoPend, AllMeasured, Measured, Ack
    <3>2. RingInv'
      <4>1. /\ HistoryDepth \in Nat \ {0} /\ histHead' = 0 /\ nextSeq' = 0
            /\ \A i \in 0 .. HistoryDepth - 1 : hist'[i].seq = None
        BY <2>4, BoardAssumption DEF BoardAssumption, Reset, NoChunk
      <4>2. \A i \in 0 .. HistoryDepth - 1 : ~(Age(histHead', i) < nextSeq')
        BY <4>1 DEF Age
      <4> QED
        BY <4>1, <4>2 DEF RingInv
    <3> QED
      BY <3>1, <3>2 DEF LenInv
  <2>5. ASSUME NEW s \in Sessions, NEW n \in 0 .. MaxSeq - 1,
               DataWrongSession(p, s, n) \/ DataAfterFatal(p, s, n) \/ DataAhead(p, s, n)
        PROVE  LenInv'
    BY <1>5, <2>5 DEF DataWrongSession, DataAfterFatal, DataAhead, Unchanged
  <2>6. ASSUME NEW s \in Sessions, NEW n \in 0 .. MaxSeq - 1, NEW len \in Lens, DataDuplicate(p, s, n, len)
        PROVE  LenInv'
    BY <2>6, DuplicateMeasured
  <2>7. ASSUME NEW n, NEW len, NEW status \in {"BUSY", "BAD_LENGTH", "BAD_CHECKSUM"}, RefuseExpected(p, n, len, status)
        PROVE  LenInv'
    BY <1>5, <2>7 DEF RefuseExpected
  <2>8. ASSUME NEW s \in Sessions, NEW n \in 0 .. MaxSeq - 1, NEW len \in Lens, DataAccept(p, s, n, len)
        PROVE  LenInv'
    BY <2>8, AcceptMeasured
  <2> QED
    BY <1>6, <2>1, <2>2, <2>3, <2>4, <2>5, <2>6, <2>7, <2>8 DEF Receive, DataNoSpace, DataDamaged
<1> QED
  BY <1>1, <1>4, <1>6 DEF Next

(* The OK for a chunk of the last HistoryDepth ones reports the length that *)
(* was accepted: coalesced, completed by the count or by the timer, or read *)
(* from the ring for a duplicate that claims another length.                *)
THEOREM OkLengthHolds == Spec => []OkLengthRemembered
<1>1. Init => LenInv
  <2> SUFFICES ASSUME Init PROVE LenInv
    OBVIOUS
  <2>1. /\ HistoryDepth \in Nat \ {0} /\ histHead = 0 /\ nextSeq = 0 /\ pend.count = 0 /\ out = <<>>
        /\ \A i \in 0 .. HistoryDepth - 1 : hist[i].seq = None
    BY BoardAssumption DEF BoardAssumption, Init, NoChunk, NoPend
  <2>2. \A i \in 0 .. HistoryDepth - 1 : ~(Age(histHead, i) < nextSeq)
    BY <2>1 DEF Age
  <2> QED
    BY <2>1, <2>2 DEF LenInv, RingInv, AllMeasured
<1>2. LenInv => OkLengthRemembered
  BY DEF LenInv, AllMeasured, Measured, OkLengthRemembered
<1> QED
  BY <1>1, <1>2, LenStep, AcceptedCounted, TypeCorrect, PTL DEF Spec
=============================================================================
