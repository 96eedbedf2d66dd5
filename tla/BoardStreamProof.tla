---------------------------- MODULE BoardStreamProof ----------------------------
(***************************************************************************)
(* Proofs about BoardRx: the transmitter reads the accepted chunks in      *)
(* order, each once, and until it has read a chunk exactly one block holds *)
(* it.                                                                     *)
(***************************************************************************)
EXTENDS BoardRxProof, FiniteSetTheorems

(* The chunks a block holds, as the interval Lo .. Hi - 1. *)
Lo(B, b) == B[b].content[1]
Hi(B, b) == B[b].content[1] + Len(B[b].content)

(* A used block holds a run of consecutive chunks that were accepted. *)
Runs(B, n) ==
  \A b \in Block : B[b].state # "free" =>
    /\ Len(B[b].content) > 0
    /\ \A i \in DOMAIN B[b].content : B[b].content[i] = Lo(B, b) + i - 1
    /\ Hi(B, b) <= n

(* The first chunk that no transfer has taken yet. *)
HeadOf(B, d, a) == IF d.blk # None THEN Hi(B, d.blk) ELSE Len(a)

Ready(B) == InState(B, "ready")

(* From chunk h on the accepted chunks lie in the ready blocks and the      *)
(* filling one, without gap or overlap, in the order of their submission.   *)
Queued(B, fl, h, n, o) ==
  /\ h <= n
  /\ \A b \in Ready(B) : B[b].order < o /\ h <= Lo(B, b)
  /\ \A b, c \in Ready(B) :
       b # c => B[b].order # B[c].order /\ (B[b].order < B[c].order => Hi(B, b) <= Lo(B, c))
  /\ fl # None =>
       /\ h <= Lo(B, fl) /\ Hi(B, fl) = n
       /\ \A b \in Ready(B) : Hi(B, b) <= Lo(B, fl)
  /\ \A k \in h .. n - 1 :
       \E b \in Block : B[b].state \in {"ready", "filling"} /\ Lo(B, b) <= k /\ k < Hi(B, b)

(* The block the engine reads continues the air, and once the completion of *)
(* a transfer is known, all of its block is on the air.                     *)
Sent(B, d, f, h, a) ==
  /\ h.tx # None => Lo(B, h.tx) = Len(a)
  /\ ~d.fatal /\ d.blk # None =>
       /\ Len(a) \in {Lo(B, d.blk), Hi(B, d.blk)}
       /\ ~d.busy \/ f.txDone => Len(a) = Hi(B, d.blk)

InStream(B, fl, d, f, h, a, n, o) ==
  /\ Runs(B, n)
  /\ Sent(B, d, f, h, a)
  /\ ~d.fatal => Queued(B, fl, HeadOf(B, d, a), n, o)

StreamInv ==
  /\ AirIsPrefix
  /\ InStream(blk, fill, dma, irq, hw, air, nextSeq, nextOrder)

-----------------------------------------------------------------------------
(* Intervals *)

(* A used block holds a non-empty interval below n.                         *)
LEMMA RunSpan ==
  ASSUME NEW B \in Blks, NEW n \in Nat, Runs(B, n), NEW b \in Block, B[b].state # "free"
  PROVE  Lo(B, b) \in Nat /\ Hi(B, b) \in Nat /\ Lo(B, b) < Hi(B, b) /\ Hi(B, b) <= n
<1>1. B[b].content \in Seq(Nat) /\ Len(B[b].content) > 0
  BY DEF Blks, Runs
<1>2. Len(B[b].content) \in Nat /\ Len(B[b].content) > 0 /\ B[b].content[1] \in Nat
  BY <1>1
<1>3. QED
  BY <1>2 DEF Lo, Hi, Runs

(* The interval depends on the content only.                                *)
LEMMA SameSpan ==
  ASSUME NEW B, NEW C, NEW b, C[b].content = B[b].content
  PROVE  Lo(C, b) = Lo(B, b) /\ Hi(C, b) = Hi(B, b)
  BY DEF Lo, Hi

(* Blocks that keep their content, or are freed, keep their runs.           *)
LEMMA SameRuns ==
  ASSUME NEW B, NEW C, NEW n, Runs(B, n),
         \A b \in Block : C[b].state # "free" => B[b].state # "free" /\ C[b].content = B[b].content
  PROVE  Runs(C, n)
  BY DEF Runs, Lo, Hi

-----------------------------------------------------------------------------
(* Starting a transfer: the earliest ready block is the one that continues  *)
(* the stream.                                                              *)

(* The block net_find_ready_block finds begins with the next chunk to send. *)
LEMMA EarliestIsHead ==
  ASSUME NEW B \in Blks, NEW fl \in Block \cup {None}, NEW h \in Nat, NEW n \in Nat, NEW o \in Nat,
         \A c \in Block : B[c].state = "filling" <=> c = fl,
         Runs(B, n), Queued(B, fl, h, n, o), NEW b \in Block, Earliest(B, b)
  PROVE  Lo(B, b) = h
<1>1. b \in Ready(B) /\ B[b].state = "ready" /\ B[b].order \in Nat
  BY DEF Earliest, Ready, InState, Blks
<1>2. h <= Lo(B, b) /\ Lo(B, b) \in Nat /\ Hi(B, b) \in Nat /\ Lo(B, b) < Hi(B, b) /\ Hi(B, b) <= n
  BY <1>1, RunSpan DEF Queued
<1>3. PICK c \in Block : B[c].state \in {"ready", "filling"} /\ Lo(B, c) <= h /\ h < Hi(B, c)
  BY <1>2 DEF Queued
<1>4. CASE c = b
  BY <1>2, <1>3, <1>4
<1>5. CASE c # b
  <2>1. Lo(B, c) \in Nat /\ Hi(B, c) \in Nat
    BY <1>3, RunSpan
  <2>2. Hi(B, b) <= Lo(B, c)
    <3>1. CASE B[c].state = "ready"
      <4>1. c \in Ready(B) /\ B[c].order \in Nat
        BY <3>1 DEF Ready, InState, Blks
      <4>2. B[b].order < B[c].order
        BY <1>1, <1>5, <4>1 DEF Earliest, Queued, Ready
      <4>3. QED
        BY <1>1, <1>5, <4>1, <4>2 DEF Queued
    <3>2. CASE B[c].state = "filling"
      <4>1. c = fl /\ fl # None
        BY <3>2 DEF Block, None
      <4>2. QED
        BY <1>1, <4>1 DEF Queued
    <3>3. QED
      BY <1>3, <3>1, <3>2
  <2>3. QED
    BY <1>2, <1>3, <2>1, <2>2
<1>6. QED
  BY <1>4, <1>5

(* Starting a transfer keeps the stream.                                    *)
LEMMA StartDmaStream ==
  ASSUME NEW B \in Blks, NEW fl \in Block \cup {None}, NEW d \in Dmas, NEW f \in Flags, hw \in Hws,
         NEW a \in Seq(Nat), NEW n \in Nat, NEW o \in Nat,
         Owned(B, fl, d, f, hw), Underway(d), InStream(B, fl, d, f, hw, a, n, o), StartDma(B, d, f)
  PROVE  InStream(blk', fl, dma', irq', hw', a, n, o)
<1>1. CASE CanStart(d) /\ InState(B, "ready") # {}
  <2>1. PICK b \in Block :
          /\ Earliest(B, b)
          /\ S2mmRefused(B, d, b) \/ Mm2sRefused(B, d, b) \/ BothStarted(B, d, b)
    BY <1>1 DEF StartDma
  <2>2. hw = IdleHw /\ d.blk = None /\ ~d.fatal /\ None \notin Block
    BY <1>1, StartMeetsIdle DEF CanStart, Underway, Block, None
  <2>3. HeadOf(B, d, a) = Len(a) /\ Len(a) \in Nat
    BY <2>2 DEF HeadOf
  <2>4. CASE S2mmRefused(B, d, b) \/ Mm2sRefused(B, d, b)
    BY <2>2, <2>4 DEF S2mmRefused, Mm2sRefused, InStream, Sent, Dmas, IdleHw
  <2>5. CASE BothStarted(B, d, b)
    <3>1. B[b].state = "ready"
      BY <2>1 DEF Earliest, InState
    <3>2. Lo(B, b) = Len(a)
      BY <2>1, <2>2, <2>3, EarliestIsHead DEF InStream, Owned, BlocksOwned
    <3>3. /\ blk'[b].state = "busy" /\ blk'[b].content = B[b].content
          /\ \A c \in Block : c # b => blk'[c] = B[c]
      BY <2>5 DEF BothStarted, Blks
    <3>4. \A c \in Block : Lo(blk', c) = Lo(B, c) /\ Hi(blk', c) = Hi(B, c)
      BY <3>3 DEF Lo, Hi
    <3>5. Runs(blk', n)
      BY <3>1, <3>3, SameRuns DEF InStream
    <3>6. dma'.busy /\ dma'.blk = b /\ dma'.fatal = d.fatal /\ irq' = NoFlags /\ hw'.tx = b
      BY <2>5 DEF BothStarted, Dmas
    <3>7. Sent(blk', dma', irq', hw', a)
      BY <3>2, <3>4, <3>6 DEF Sent, NoFlags
    <3>8. HeadOf(blk', dma', a) = Hi(B, b)
      BY <2>1, <2>2, <3>4, <3>6 DEF HeadOf
    <3>9. Queued(blk', fl, Hi(B, b), n, o)
      <4>1. Queued(B, fl, Len(a), n, o)
        BY <2>2, <2>3 DEF InStream
      <4>2. Lo(B, b) \in Nat /\ Hi(B, b) \in Nat /\ Lo(B, b) < Hi(B, b) /\ Hi(B, b) <= n
        BY <3>1, RunSpan DEF InStream
      <4>3. b \in Ready(B) /\ Ready(blk') = Ready(B) \ {b}
        BY <3>1, <3>3 DEF Ready, InState
      <4>4. \A c \in Ready(blk') : blk'[c] = B[c] /\ c \in Ready(B) /\ c # b /\ Hi(B, b) <= Lo(B, c)
        <5>1. \A c \in Ready(B) : B[c].order \in Nat
          BY DEF Ready, InState, Blks
        <5>2. \A c \in Ready(B) : c # b => B[b].order < B[c].order
          BY <2>1, <4>1, <4>3, <5>1 DEF Earliest, Queued, Ready
        <5>3. QED
          BY <3>3, <4>1, <4>3, <5>2 DEF Queued, Ready, InState
      <4>5. fl # None => Hi(B, b) <= Lo(B, fl) /\ Hi(B, fl) = n
        BY <4>1, <4>3 DEF Queued
      <4>6. ASSUME NEW k \in Hi(B, b) .. n - 1
            PROVE  \E c \in Block : blk'[c].state \in {"ready", "filling"} /\ Lo(B, c) <= k /\ k < Hi(B, c)
        <5>1. PICK c \in Block : B[c].state \in {"ready", "filling"} /\ Lo(B, c) <= k /\ k < Hi(B, c)
          BY <3>2, <4>1, <4>2 DEF Queued
        <5>2. c # b
          BY <4>2, <5>1
        <5>3. QED
          BY <3>3, <5>1, <5>2
      <4>7. \A c \in Ready(blk') : c \in Block
        BY DEF Ready, InState
      <4>8. \A c \in Ready(blk') : blk'[c].order < o /\ Hi(B, b) <= Lo(blk', c)
        BY <3>4, <4>1, <4>4, <4>7 DEF Queued
      <4>9. \A c, e \in Ready(blk') :
              c # e => /\ blk'[c].order # blk'[e].order
                       /\ blk'[c].order < blk'[e].order => Hi(blk', c) <= Lo(blk', e)
        BY <3>4, <4>1, <4>4, <4>7 DEF Queued
      <4>10. fl # None =>
               /\ Hi(B, b) <= Lo(blk', fl) /\ Hi(blk', fl) = n
               /\ \A c \in Ready(blk') : Hi(blk', c) <= Lo(blk', fl)
        BY <3>4, <4>1, <4>4, <4>5, <4>7 DEF Queued
      <4>11. QED
        BY <3>4, <4>2, <4>6, <4>8, <4>9, <4>10 DEF Queued
    <3>10. QED
      BY <3>5, <3>7, <3>8, <3>9 DEF InStream
  <2>6. QED
    BY <2>1, <2>4, <2>5
<1>2. QED
  BY <1>1 DEF StartDma

(* The table without the block that was sent continues the same stream.     *)
LEMMA FreedStream ==
  ASSUME blk \in Blks, NEW fl \in Block \cup {None}, NEW d \in Dmas, NEW f \in Flags,
         NEW a \in Seq(Nat), NEW n \in Nat, NEW o \in Nat,
         Owned(blk, fl, d, f, hw), InStream(blk, fl, d, f, hw, a, n, o), CanRelease(d), hw.tx = None,
         NEW B, B[d.blk].state = "free", \A c \in Block : c # d.blk => B[c] = blk[c],
         NEW e, e.blk = None, e.fatal = d.fatal
  PROVE  InStream(B, fl, e, f, hw, a, n, o)
<1>1. d.blk \in Block /\ d.blk # None /\ ~d.busy
  BY DEF CanRelease, Dmas
<1>2. Runs(B, n)
  <2>1. Runs(blk, n)
    BY DEF InStream
  <2>2. \A c \in Block : B[c].state # "free" => blk[c].state # "free" /\ B[c].content = blk[c].content
    OBVIOUS
  <2>3. QED
    BY <2>1, <2>2, SameRuns
<1>3. Sent(B, e, f, hw, a)
  BY DEF Sent
<1>4. ~d.fatal => Queued(B, fl, Len(a), n, o)
  <2> SUFFICES ASSUME ~d.fatal PROVE Queued(B, fl, Len(a), n, o)
    OBVIOUS
  <2>1. Queued(blk, fl, Len(a), n, o)
    BY <1>1 DEF InStream, Sent, HeadOf
  <2>2. blk[d.blk].state = "busy"
    BY <1>1 DEF Owned, BlocksOwned
  <2>3. Ready(B) = Ready(blk) /\ \A c \in Ready(B) : B[c] = blk[c]
    BY <2>2 DEF Ready, InState
  <2>4. fl # None => B[fl] = blk[fl]
    BY <2>2 DEF Owned, BlocksOwned
  <2>5. \A c \in Block : B[c].state \in {"ready", "filling"} => B[c] = blk[c]
    OBVIOUS
  <2>6. \A c \in Block : blk[c].state \in {"ready", "filling"} => B[c] = blk[c]
    BY <2>2
  <2>7. QED
    BY <2>1, <2>3, <2>4, <2>5, <2>6 DEF Queued, Lo, Hi
<1>5. QED
  BY <1>2, <1>3, <1>4 DEF InStream, HeadOf

(* Releasing the sent block, with the start that follows, keeps the stream. *)
LEMMA ReleaseStream ==
  ASSUME blk \in Blks, NEW fl \in Block \cup {None}, NEW d \in Dmas, NEW f \in Flags, hw \in Hws,
         NEW a \in Seq(Nat), NEW n \in Nat, NEW o \in Nat,
         Owned(blk, fl, d, f, hw), d.fatal => hw.tx = None, InStream(blk, fl, d, f, hw, a, n, o),
         ReleaseIfDone(d, f)
  PROVE  InStream(blk', fl, dma', irq', hw', a, n, o)
<1>1. CASE CanRelease(d)
  <2> DEFINE B == [blk EXCEPT ![d.blk] = FreeBlk]
             e == [d EXCEPT !.blk = None, !.rxDone = FALSE]
  <2>1. B \in Blks /\ e \in Dmas /\ Owned(B, fl, e, f, hw) /\ Underway(e) /\ hw.tx = None
    BY <1>1, FreedOwned
  <2>2. d.blk \in Block
    BY <1>1 DEF CanRelease, Dmas
  <2>3. B[d.blk].state = "free" /\ \A c \in Block : c # d.blk => B[c] = blk[c]
    BY <2>2 DEF Blks, FreeBlk
  <2>4. e.blk = None /\ e.fatal = d.fatal
    BY DEF Dmas
  <2>5. StartDma(B, e, f)
    BY <1>1 DEF ReleaseIfDone
  <2> HIDE DEF B, e
  <2>6. InStream(B, fl, e, f, hw, a, n, o)
    BY <1>1, <2>1, <2>3, <2>4, FreedStream
  <2>7. QED
    BY <2>1, <2>5, <2>6, StartDmaStream
<1>2. QED
  BY <1>1 DEF ReleaseIfDone

-----------------------------------------------------------------------------
(* Submitting the filling block B[b], by whatever path.                     *)

(* A submitted filling block becomes the last one of the queue.             *)
LEMMA QueueSubmitted ==
  ASSUME NEW B \in Blks, NEW C \in Blks, NEW b \in Block, NEW h \in Nat, NEW n \in Nat, NEW o \in Nat,
         \A c \in Block : B[c].state = "filling" <=> c = b,
         C[b].state = "ready", C[b].order = o, C[b].content = B[b].content,
         \A c \in Block : c # b => C[c] = B[c],
         Runs(B, n), Queued(B, b, h, n, o)
  PROVE  Queued(C, None, h, n, o + 1)
<1>1. \A c \in Block : Lo(C, c) = Lo(B, c) /\ Hi(C, c) = Hi(B, c)
  BY DEF Lo, Hi
<1>2. Ready(C) = Ready(B) \cup {b} /\ b \notin Ready(B) /\ b # None
  BY DEF Ready, InState, Block, None
<1>3. \A c \in Ready(B) : C[c] = B[c] /\ c \in Block /\ B[c].order \in Nat
  BY <1>2 DEF Ready, InState, Blks
<1>4. h <= Lo(B, b) /\ Hi(B, b) = n /\ \A c \in Ready(B) : Hi(B, c) <= Lo(B, b) /\ B[c].order < o
  BY <1>2 DEF Queued
<1>5. \A c \in Ready(C) : C[c].order < o + 1 /\ h <= Lo(C, c)
  BY <1>1, <1>2, <1>3, <1>4 DEF Queued
<1>6. \A c, e \in Ready(C) :
        c # e => C[c].order # C[e].order /\ (C[c].order < C[e].order => Hi(C, c) <= Lo(C, e))
  <2> SUFFICES ASSUME NEW c \in Ready(C), NEW e \in Ready(C), c # e
               PROVE  C[c].order # C[e].order /\ (C[c].order < C[e].order => Hi(C, c) <= Lo(C, e))
    OBVIOUS
  <2>1. CASE c # b /\ e # b
    BY <1>1, <1>2, <1>3, <2>1 DEF Queued
  <2>2. CASE e = b
    BY <1>1, <1>2, <1>3, <1>4, <2>2
  <2>3. CASE c = b
    BY <1>1, <1>2, <1>3, <1>4, <2>3
  <2>4. QED
    BY <2>1, <2>2, <2>3
<1>7. \A k \in h .. n - 1 :
        \E c \in Block : C[c].state \in {"ready", "filling"} /\ Lo(C, c) <= k /\ k < Hi(C, c)
  <2> SUFFICES ASSUME NEW k \in h .. n - 1
               PROVE  \E c \in Block : C[c].state \in {"ready", "filling"} /\ Lo(C, c) <= k /\ k < Hi(C, c)
    OBVIOUS
  <2>1. PICK c \in Block : B[c].state \in {"ready", "filling"} /\ Lo(B, c) <= k /\ k < Hi(B, c)
    BY DEF Queued
  <2>2. QED
    BY <1>1, <2>1
<1>8. QED
  BY <1>5, <1>6, <1>7 DEF Queued

(* Submitting the filling block keeps the stream.                           *)
LEMMA SubmitStream ==
  ASSUME TypeOK, NEW B \in Blks, NEW C \in Blks, NEW b \in Block, NEW n \in Nat, NEW o \in Nat,
         Owned(B, b, dma, irq, hw), InStream(B, b, dma, irq, hw, air, n, o),
         C[b].state = "ready", C[b].order = o, C[b].content = B[b].content,
         \A c \in Block : c # b => C[c] = B[c]
  PROVE  InStream(C, None, dma, irq, hw, air, n, o + 1)
<1>1. \A c \in Block : B[c].state = "filling" <=> c = b
  BY DEF Owned, BlocksOwned
<1>2. air \in Seq(Nat) /\ dma \in Dmas /\ hw \in Hws /\ None \notin Block
  BY DEF TypeOK, Block, None
<1>3. \A c \in Block : C[c].state # "free" => B[c].state # "free" /\ C[c].content = B[c].content
  BY <1>1
<1>4. Runs(C, n)
  BY <1>3, SameRuns DEF InStream
<1>5. \A c \in Block : Lo(C, c) = Lo(B, c) /\ Hi(C, c) = Hi(B, c)
  BY DEF Lo, Hi
<1>6. Sent(C, dma, irq, hw, air)
  BY <1>2, <1>5 DEF InStream, Sent, Dmas, Hws
<1>7. ~dma.fatal => Queued(C, None, HeadOf(C, dma, air), n, o + 1)
  <2> SUFFICES ASSUME ~dma.fatal PROVE Queued(C, None, HeadOf(C, dma, air), n, o + 1)
    OBVIOUS
  <2>1. HeadOf(C, dma, air) = HeadOf(B, dma, air) /\ HeadOf(B, dma, air) \in Nat
    <3>1. CASE dma.blk = None
      BY <1>2, <3>1 DEF HeadOf
    <3>2. CASE dma.blk # None
      <4>1. dma.blk \in Block /\ B[dma.blk].state = "busy"
        BY <1>2, <3>2 DEF Dmas, Owned, BlocksOwned
      <4>2. Hi(B, dma.blk) \in Nat
        BY <4>1, RunSpan DEF InStream
      <4>3. QED
        BY <1>5, <3>2, <4>1, <4>2 DEF HeadOf
    <3>3. QED
      BY <3>1, <3>2
  <2>2. Runs(B, n) /\ Queued(B, b, HeadOf(B, dma, air), n, o)
    BY DEF InStream
  <2>3. Queued(C, None, HeadOf(B, dma, air), n, o + 1)
    BY <1>1, <2>1, <2>2, QueueSubmitted
  <2>4. QED
    BY <2>1, <2>3
<1>8. QED
  BY <1>4, <1>6, <1>7 DEF InStream

(* The idle timer, or a chunk without room, submits the filling block. *)
LEMMA SubmittedStream ==
  ASSUME TypeOK, OwnershipInv, StreamInv, fill # None
  PROVE  InStream(Submitted(blk, fill), None, dma, irq, hw, air, nextSeq, nextOrder + 1)
  BY SubmittedTable, SubmitStream DEF OwnershipInv, StreamInv, TypeOK

(* Making room for a chunk, accepted or not, keeps the stream.              *)
LEMMA MadeRoomStream ==
  ASSUME TypeOK, OwnershipInv, StreamInv, NEW len \in Lens
  PROVE  InStream(MadeRoom(len), FillAfterRefusal(len), dma, irq, hw, air, nextSeq, OrderAfter(len))
<1>1. CASE Fits(len) \/ fill = None
  BY <1>1 DEF MadeRoom, OrderAfter, FillAfterRefusal, Fits, StreamInv
<1>2. CASE ~Fits(len) /\ fill # None
  BY <1>2, SubmittedStream DEF MadeRoom, OrderAfter, FillAfterRefusal
<1>3. QED
  BY <1>1, <1>2

(* The expected chunk joins the end of the stream. *)
LEMMA WrittenStream ==
  ASSUME TypeOK, OwnershipInv, StreamInv, ~dma.fatal, NEW len \in Lens, NEW b \in Block, FillTarget(len, b)
  PROVE  InStream(Written(len, b, nextSeq), b, dma, irq, hw, air, nextSeq + 1, OrderAfter(len))
<1> DEFINE R == MadeRoom(len)
           W == Written(len, b, nextSeq)
           fr == FillAfterRefusal(len)
           h == HeadOf(R, dma, air)
           o == OrderAfter(len)
           n == nextSeq
<1>1. /\ n \in Nat /\ air \in Seq(Nat) /\ dma \in Dmas /\ hw \in Hws /\ None \notin Block
      /\ R \in Blks /\ W \in Blks /\ o \in Nat
  BY WrittenType, MadeRoomType DEF TypeOK, Block, None
<1>2. Owned(R, fr, dma, irq, hw) /\ InStream(R, fr, dma, irq, hw, air, n, o)
  BY MadeRoomOwned, MadeRoomStream
<1>3. /\ W[b].state = "filling"
      /\ \A c \in Block : c # b => W[c] = R[c]
      /\ \/ /\ R[b].state = "filling" /\ fr = b
            /\ W[b].content = Append(R[b].content, n)
         \/ /\ R[b].state = "free" /\ fr = None
            /\ W[b].content = Append(<<>>, n)
  BY <1>1, WrittenTable
<1> HIDE DEF R, W, fr, o
<1>4. Runs(R, n) /\ Queued(R, fr, h, n, o) /\ Sent(R, dma, irq, hw, air)
  BY <1>2 DEF InStream
<1>5. h \in Nat /\ h <= n
  <2>1. CASE dma.blk = None
    BY <1>1, <1>4, <2>1 DEF HeadOf, Queued
  <2>2. CASE dma.blk # None
    <3>1. dma.blk \in Block /\ R[dma.blk].state = "busy"
      BY <1>1, <1>2, <2>2 DEF Dmas, Owned, BlocksOwned
    <3>2. QED
      BY <1>1, <1>4, <2>2, <3>1, RunSpan DEF HeadOf, Queued
  <2>3. QED
    BY <2>1, <2>2
<1>6. \A c \in Block : c # b => Lo(W, c) = Lo(R, c) /\ Hi(W, c) = Hi(R, c)
  BY <1>3 DEF Lo, Hi
<1>7. /\ Len(W[b].content) > 0 /\ Hi(W, b) = n + 1 /\ Lo(W, b) \in Nat /\ h <= Lo(W, b) /\ Lo(W, b) <= n
      /\ \A i \in DOMAIN W[b].content : W[b].content[i] = Lo(W, b) + i - 1
      /\ R[b].state = "filling" => Lo(W, b) = Lo(R, b) /\ Hi(R, b) = n
  <2>1. CASE R[b].state = "filling"
    <3>1. R[b].content \in Seq(Nat) /\ fr = b /\ fr # None /\ W[b].content = Append(R[b].content, n)
      BY <1>1, <1>3, <2>1 DEF Blks
    <3>2. /\ Len(R[b].content) > 0 /\ R[b].content[1] + Len(R[b].content) = n
          /\ \A i \in DOMAIN R[b].content : R[b].content[i] = R[b].content[1] + i - 1
          /\ h <= R[b].content[1]
      BY <1>4, <2>1, <3>1 DEF Runs, Queued, Lo, Hi
    <3>3. /\ W[b].content[1] = R[b].content[1] /\ R[b].content[1] \in Nat
          /\ Len(W[b].content) = Len(R[b].content) + 1 /\ Len(R[b].content) \in Nat
      BY <3>1, <3>2
    <3>4. ASSUME NEW i \in DOMAIN W[b].content PROVE W[b].content[i] = R[b].content[1] + i - 1
      <4>1. CASE i \in DOMAIN R[b].content
        BY <1>1, <3>1, <3>2, <4>1
      <4>2. CASE i = Len(R[b].content) + 1
        BY <1>1, <3>1, <3>2, <3>3, <4>2
      <4>3. QED
        BY <1>1, <3>1, <3>3, <4>1, <4>2
    <3>5. Lo(W, b) = R[b].content[1] /\ Hi(W, b) = n + 1 /\ Lo(R, b) = R[b].content[1] /\ Hi(R, b) = n
      <4> DEFINE first == R[b].content[1]
                 size  == Len(R[b].content)
      <4>1. n \in Nat /\ first \in Nat /\ size \in Nat /\ first + size = n
        BY <1>1, <3>2, <3>3
      <4>2. Lo(W, b) = first /\ Hi(W, b) = first + (size + 1) /\ Lo(R, b) = first /\ Hi(R, b) = first + size
        BY <3>3 DEF Lo, Hi
      <4> HIDE DEF first, size
      <4>3. first + (size + 1) = n + 1
        BY <4>1
      <4>4. QED
        BY <4>1, <4>2, <4>3 DEF first
    <3>6. R[b].content[1] <= n
      BY <1>1, <3>2, <3>3
    <3>7. QED
      BY <3>2, <3>3, <3>4, <3>5, <3>6
  <2>2. CASE R[b].state = "free"
    <3>1. W[b].content = Append(<<>>, n)
      BY <1>3, <2>2
    <3>2. Len(W[b].content) = 1 /\ DOMAIN W[b].content = {1} /\ W[b].content[1] = n
      BY <1>1, <3>1
    <3>3. QED
      BY <1>1, <1>5, <2>2, <3>2 DEF Lo, Hi
  <2>3. QED
    BY <1>3, <2>1, <2>2
<1>8. Ready(W) = Ready(R) /\ b \notin Ready(R)
  BY <1>3 DEF Ready, InState
<1>9. \A c \in Ready(R) : c \in Block /\ c # b /\ W[c] = R[c] /\ Lo(R, c) \in Nat /\ Hi(R, c) \in Nat /\ Hi(R, c) <= n
  BY <1>1, <1>3, <1>4, <1>8, RunSpan DEF Ready, InState
<1>10. Runs(W, n + 1)
  <2> SUFFICES ASSUME NEW c \in Block, W[c].state # "free"
               PROVE  /\ Len(W[c].content) > 0
                      /\ \A i \in DOMAIN W[c].content : W[c].content[i] = Lo(W, c) + i - 1
                      /\ Hi(W, c) <= n + 1
    BY DEF Runs
  <2>1. CASE c = b
    BY <1>1, <1>7, <2>1
  <2>2. CASE c # b
    <3>1. R[c].state # "free" /\ W[c] = R[c]
      BY <1>3, <2>2
    <3>2. Hi(R, c) \in Nat /\ Hi(R, c) <= n
      BY <1>1, <1>4, <3>1, RunSpan
    <3>3. QED
      BY <1>1, <1>4, <1>6, <2>2, <3>1, <3>2 DEF Runs
  <2>3. QED
    BY <2>1, <2>2
<1>11. dma.blk # None => dma.blk \in Block /\ dma.blk # b
  BY <1>1, <1>2, <1>3 DEF Dmas, Owned, BlocksOwned
<1>12. hw.tx # None => hw.tx \in Block /\ hw.tx # b
  BY <1>1, <1>2, <1>3 DEF Hws, Owned, EngineKnown
<1>13. Sent(W, dma, irq, hw, air)
  BY <1>4, <1>6, <1>11, <1>12 DEF Sent
<1>14. HeadOf(W, dma, air) = h
  BY <1>6, <1>11 DEF HeadOf
<1>15. Queued(W, b, h, n + 1, o)
  <2>1. \A c \in Ready(W) : W[c].order < o /\ h <= Lo(W, c)
    BY <1>4, <1>6, <1>8, <1>9 DEF Queued
  <2>2. \A c, e \in Ready(W) :
          c # e => W[c].order # W[e].order /\ (W[c].order < W[e].order => Hi(W, c) <= Lo(W, e))
    BY <1>4, <1>6, <1>8, <1>9 DEF Queued
  <2>3. \A c \in Ready(W) : Hi(W, c) <= Lo(W, b)
    <3> SUFFICES ASSUME NEW c \in Ready(R) PROVE Hi(R, c) <= Lo(W, b)
      BY <1>6, <1>8, <1>9
    <3>1. CASE R[b].state = "filling"
      <4>1. fr = b /\ fr # None /\ Lo(W, b) = Lo(R, b)
        BY <1>1, <1>3, <1>7, <3>1
      <4>2. QED
        BY <1>4, <4>1 DEF Queued
    <3>2. CASE R[b].state = "free"
      <4>1. Lo(W, b) = n
        BY <1>1, <1>3, <3>2 DEF Lo
      <4>2. QED
        BY <1>9, <4>1
    <3>3. QED
      BY <1>3, <3>1, <3>2
  <2>4. ASSUME NEW k \in h .. (n + 1) - 1
        PROVE  \E c \in Block : W[c].state \in {"ready", "filling"} /\ Lo(W, c) <= k /\ k < Hi(W, c)
    <3>1. CASE k = n
      BY <1>1, <1>3, <1>7, <3>1
    <3>2. CASE k # n
      <4>1. k \in h .. n - 1
        BY <1>1, <1>5, <3>2
      <4>2. PICK c \in Block : R[c].state \in {"ready", "filling"} /\ Lo(R, c) <= k /\ k < Hi(R, c)
        BY <1>4, <4>1 DEF Queued
      <4>3. CASE c = b
        BY <1>1, <1>3, <1>5, <1>7, <4>1, <4>2, <4>3
      <4>4. CASE c # b
        BY <1>3, <1>6, <4>2, <4>4
      <4>5. QED
        BY <4>3, <4>4
    <3>3. QED
      BY <3>1, <3>2
  <2>5. QED
    BY <1>1, <1>5, <1>7, <2>1, <2>2, <2>3, <2>4 DEF Queued
<1>16. QED
  BY <1>10, <1>13, <1>14, <1>15 DEF InStream, W, o

-----------------------------------------------------------------------------
(* Every step keeps the invariant. *)

(* After Net_RxInit the stream is empty.                                    *)
LEMMA StreamInit == Init => StreamInv
<1> SUFFICES ASSUME Init PROVE StreamInv
  OBVIOUS
<1>1. AirIsPrefix
  BY DEF Init, AirIsPrefix
<1>2. Runs(blk, nextSeq)
  BY DEF Init, Runs, FreeBlk
<1>3. Sent(blk, dma, irq, hw, air)
  BY DEF Init, Sent, IdleHw, IdleDma
<1>4. Queued(blk, fill, HeadOf(blk, dma, air), nextSeq, nextOrder)
  BY DEF Init, Queued, Ready, InState, FreeBlk, HeadOf, IdleDma
<1>5. QED
  BY <1>1, <1>2, <1>3, <1>4 DEF StreamInv, InStream

(* An accepted chunk continues the stream, in the filling block or in a new *)
(* one.                                                                     *)
LEMMA AcceptStream ==
  ASSUME TypeOK, OwnershipInv, StreamInv,
         NEW p \in Peers, NEW s \in Sessions, NEW n \in Nat, NEW len \in Lens, DataAccept(p, s, n, len)
  PROVE  StreamInv'
<1>1. n = nextSeq /\ ~dma.fatal /\ nextSeq' = nextSeq + 1 /\ UNCHANGED air
  BY DEF DataAccept, Expected, ghostVars
<1>2. PICK b \in Block :
        /\ FillTarget(len, b)
        /\ LET W == Written(len, b, n)
               full == W[b].plen >= BlockBytes
               order == OrderAfter(len)
           IN /\ fill' = IF full THEN None ELSE b
              /\ nextOrder' = IF full THEN order + 1 ELSE order
              /\ StartDma(IF full THEN [W EXCEPT ![b].state = "ready", ![b].order = order] ELSE W,
                          dma, irq)
  BY DEF DataAccept
<1> DEFINE W == Written(len, b, n)
           full == W[b].plen >= BlockBytes
           order == OrderAfter(len)
           F == [W EXCEPT ![b].state = "ready", ![b].order = order]
           B == IF full THEN F ELSE W
           fl == IF full THEN None ELSE b
           o == IF full THEN order + 1 ELSE order
<1>3. W \in Blks /\ order \in Nat /\ Owned(W, b, dma, irq, hw)
      /\ InStream(W, b, dma, irq, hw, air, nextSeq + 1, order)
  BY <1>1, <1>2, WrittenType, MadeRoomType, WrittenOwned, WrittenStream
<1>4. StartDma(B, dma, irq) /\ fl \in Block \cup {None} /\ fill' = fl /\ nextOrder' = o /\ o \in Nat
  BY <1>2, <1>3
<1>5. /\ F \in Blks /\ F[b].state = "ready" /\ F[b].order = order /\ F[b].content = W[b].content
      /\ \A c \in Block : c # b => F[c] = W[c]
  BY <1>3 DEF Blks
<1> HIDE DEF W, F, full, order
<1>6. Owned(F, None, dma, irq, hw) /\ InStream(F, None, dma, irq, hw, air, nextSeq + 1, order + 1)
  <2>1. nextSeq + 1 \in Nat
    BY DEF TypeOK
  <2>2. QED
    BY <1>3, <1>5, <2>1, SubmitOwned, SubmitStream
<1>7. B \in Blks /\ Owned(B, fl, dma, irq, hw) /\ InStream(B, fl, dma, irq, hw, air, nextSeq + 1, o)
  BY <1>3, <1>5, <1>6
<1> HIDE DEF B, fl, o
<1>8. InStream(blk', fill', dma', irq', hw', air, nextSeq + 1, nextOrder')
  <2>1. nextSeq + 1 \in Nat
    BY DEF TypeOK
  <2>2. QED
    BY <1>4, <1>7, <2>1, StartDmaStream DEF TypeOK, OwnershipInv
<1>9. AirIsPrefix'
  BY <1>1 DEF StreamInv, AirIsPrefix, TypeOK
<1>10. QED
  BY <1>1, <1>8, <1>9 DEF StreamInv

(* Every packet keeps the stream.                                           *)
LEMMA ReceiveStream ==
  ASSUME TypeOK, OwnershipInv, StreamInv, NEW p \in Peers, Receive(p)
  PROVE  StreamInv'
<1>1. CASE Unchanged \/ RxCfg(p)
  BY <1>1 DEF Unchanged, RxCfg, streamVars, aggVars, dmaVars, ghostVars, StreamInv, AirIsPrefix
<1>2. ASSUME NEW len \in Lens, NEW n, NEW status, RefuseExpected(p, n, len, status) PROVE StreamInv'
  BY <1>2, MadeRoomStream DEF RefuseExpected, streamVars, dmaVars, ghostVars, StreamInv, AirIsPrefix
<1>3. ASSUME NEW s, NEW crc, Reset(p, s, crc) PROVE StreamInv'
  <2>1. hw = IdleHw
    BY <1>3, StartMeetsIdle DEF TypeOK, OwnershipInv, Reset, ResetAllowed, CanStart
  <2>2. AirIsPrefix'
    BY <1>3 DEF Reset, AirIsPrefix
  <2>3. Runs(blk', nextSeq')
    BY <1>3 DEF Reset, Runs, FreeBlk
  <2>4. Sent(blk', dma', irq', hw', air')
    BY <1>3, <2>1 DEF Reset, Sent, IdleHw, IdleDma
  <2>5. Queued(blk', fill', HeadOf(blk', dma', air'), nextSeq', nextOrder')
    BY <1>3 DEF Reset, Queued, Ready, InState, FreeBlk, HeadOf, IdleDma
  <2>6. QED
    BY <2>2, <2>3, <2>4, <2>5 DEF StreamInv, InStream
<1>4. ASSUME NEW s \in Sessions, NEW n \in 0 .. MaxSeq - 1, NEW len \in Lens, DataAccept(p, s, n, len)
      PROVE  StreamInv'
  BY <1>4, AcceptStream
<1>5. QED
  BY <1>1, <1>2, <1>3, <1>4
  DEF Receive, Malformed, ResetRefused, DataWrongSession, DataAfterFatal, DataAhead, DataDuplicate,
      DataNoSpace, DataDamaged

(* Every function of the main loop keeps the stream.                        *)
LEMMA MainLoopStream == ASSUME TypeOK, OwnershipInv, StreamInv, MainLoop PROVE StreamInv'
<1> USE DEF aggVars, dmaVars, streamVars, ghostVars, AirIsPrefix
<1>1. CASE InputDrained \/ AggNotDue \/ AckTimeout \/ AckNotDue \/ S2mmNothing \/ TxNothing
  BY <1>1 DEF InputDrained, AggNotDue, AckTimeout, AckNotDue, S2mmNothing, TxNothing, StreamInv
<1>2. CASE AggTimeout
  BY <1>2, SubmittedStream DEF AggTimeout, AggDue, StreamInv
<1>3. CASE S2mmError \/ TxFailed
  <2>1. dma'.fatal /\ dma'.blk = dma.blk /\ UNCHANGED <<blk, hw, air, nextSeq>>
    BY <1>3 DEF S2mmError, TxFailed, TypeOK, Dmas
  <2>2. QED
    BY <2>1 DEF StreamInv, InStream, Sent
<1>4. CASE S2mmDone
  <2> DEFINE d == [dma EXCEPT !.rxBusy = FALSE, !.rxDone = TRUE]
             f == [irq EXCEPT !.rxDone = FALSE]
  <2>1. d \in Dmas /\ f \in Flags
    BY DEF TypeOK, Dmas, Flags
  <2>2. d.fatal => hw.tx = None
    BY <1>4 DEF S2mmDone, OwnershipInv, Owned, EngineKnown, TypeOK, Dmas
  <2>3. Owned(blk, fill, d, f, hw)
    BY <1>4 DEF S2mmDone, OwnershipInv, Owned, BlocksOwned, EngineKnown, TypeOK, Dmas, Flags
  <2>4. InStream(blk, fill, d, f, hw, air, nextSeq, nextOrder)
    BY DEF StreamInv, InStream, Sent, HeadOf, TypeOK, Dmas, Flags
  <2>5. ReleaseIfDone(d, f) /\ UNCHANGED <<fill, air, nextSeq, nextOrder>>
    BY <1>4 DEF S2mmDone
  <2> HIDE DEF d, f
  <2>6. InStream(blk', fill', dma', irq', hw', air', nextSeq', nextOrder')
    BY <2>1, <2>2, <2>3, <2>4, <2>5, ReleaseStream DEF TypeOK
  <2>7. QED
    BY <2>5, <2>6 DEF StreamInv
<1>5. CASE PollStart
  <2>1. UNCHANGED <<fill, air, nextSeq, nextOrder>>
    BY <1>5 DEF PollStart
  <2>2. InStream(blk', fill', dma', irq', hw', air', nextSeq', nextOrder')
    BY <1>5, <2>1, StartDmaStream DEF PollStart, TypeOK, OwnershipInv, StreamInv
  <2>3. QED
    BY <2>1, <2>2 DEF StreamInv
<1>6. CASE TxDone
  <2> DEFINE d == [dma EXCEPT !.busy = FALSE]
             f == [irq EXCEPT !.txDone = FALSE]
  <2>1. d \in Dmas /\ f \in Flags /\ ~d.fatal
    BY <1>6 DEF TxDone, OwnershipInv, TypeOK, Dmas, Flags
  <2>2. Owned(blk, fill, d, f, hw)
    BY <1>6 DEF TxDone, OwnershipInv, Owned, BlocksOwned, EngineKnown, TypeOK, Dmas, Flags
  <2>3. InStream(blk, fill, d, f, hw, air, nextSeq, nextOrder)
    BY <1>6 DEF TxDone, StreamInv, InStream, Sent, HeadOf, TypeOK, Dmas, Flags
  <2>4. ReleaseIfDone(d, f) /\ UNCHANGED <<fill, air, nextSeq, nextOrder>>
    BY <1>6 DEF TxDone
  <2> HIDE DEF d, f
  <2>5. InStream(blk', fill', dma', irq', hw', air', nextSeq', nextOrder')
    BY <2>1, <2>2, <2>3, <2>4, ReleaseStream DEF TypeOK
  <2>6. QED
    BY <2>4, <2>5 DEF StreamInv
<1>7. QED
  BY <1>1, <1>2, <1>3, <1>4, <1>5, <1>6 DEF MainLoop

(* A finished MM2S transfer extends the air by its block; no other          *)
(* interrupt matters.                                                       *)
LEMMA HardwareStream == ASSUME TypeOK, OwnershipInv, StreamInv, Hardware PROVE StreamInv'
<1>1. UNCHANGED <<blk, fill, dma, nextSeq, nextOrder>>
  BY DEF Hardware, TxIoc, TxErrIrq, RxIoc, RxErrIrq, IrqFrame, streamVars, aggVars
<1>2. CASE TxIoc
  <2> DEFINE b == hw.tx
             C == blk[b].content
  <2>1. /\ b \in Block /\ blk[b].state = "busy" /\ blk \in Blks /\ nextSeq \in Nat
        /\ air \in Seq(Nat) /\ C \in Seq(Nat)
    BY <1>2 DEF TxIoc, TypeOK, Hws, Blks, OwnershipInv, Owned, EngineKnown
  <2>2. /\ Runs(blk, nextSeq) /\ Lo(blk, b) = Len(air) /\ Hi(blk, b) = Len(air) + Len(C)
        /\ Hi(blk, b) <= nextSeq /\ \A i \in DOMAIN C : C[i] = Len(air) + i - 1
    BY <1>2, <2>1 DEF TxIoc, StreamInv, InStream, Runs, Sent, Lo, Hi
  <2>3. air' = air \o C /\ hw'.tx = None /\ irq'.txDone = TRUE
    BY <1>2 DEF TxIoc, TypeOK, Hws, Flags
  <2>4. Len(air') = Len(air) + Len(C)
    BY <2>1, <2>3
  <2>5. \A i \in 1 .. Len(air') : air'[i] = i - 1
    <3> SUFFICES ASSUME NEW i \in 1 .. Len(air') PROVE air'[i] = i - 1
      OBVIOUS
    <3> HIDE DEF C
    <3>1. CASE i <= Len(air)
      BY <2>1, <2>3, <2>4, <3>1 DEF StreamInv, AirIsPrefix
    <3>2. CASE i > Len(air)
      <4>1. i - Len(air) \in 1 .. Len(C) /\ air'[i] = C[i - Len(air)]
        BY <2>1, <2>3, <2>4, <3>2
      <4>2. C[i - Len(air)] = Len(air) + (i - Len(air)) - 1
        BY <2>1, <2>2, <4>1
      <4>3. QED
        BY <2>1, <4>1, <4>2
    <3>3. QED
      BY <2>1, <3>1, <3>2
  <2>6. AirIsPrefix'
    BY <1>1, <2>2, <2>4, <2>5 DEF AirIsPrefix
  <2>7. ~dma.fatal => dma.blk = b
    BY <2>1 DEF OwnershipInv, Owned, BlocksOwned
  <2>8. Sent(blk, dma, irq', hw', air')
    BY <2>2, <2>3, <2>4, <2>7 DEF Sent
  <2>9. ~dma.fatal => HeadOf(blk, dma, air') = HeadOf(blk, dma, air)
    <3>1. ~dma.fatal => dma.blk # None
      BY <2>1, <2>7 DEF Block, None
    <3>2. QED
      BY <3>1 DEF HeadOf
  <2>10. QED
    BY <1>1, <2>2, <2>6, <2>8, <2>9 DEF StreamInv, InStream
<1>3. CASE TxErrIrq \/ RxIoc \/ RxErrIrq
  <2>1. air' = air /\ irq'.txDone = irq.txDone /\ hw'.tx \in {None, hw.tx}
    <3>1. CASE TxErrIrq
      BY <3>1 DEF TxErrIrq, IdleHw, TypeOK, Flags
    <3>2. CASE RxIoc
      BY <3>2 DEF RxIoc, TypeOK, Flags, Hws
    <3>3. CASE RxErrIrq
      BY <3>3 DEF RxErrIrq, TypeOK, Flags
    <3>4. QED
      BY <1>3, <3>1, <3>2, <3>3
  <2>2. QED
    BY <1>1, <2>1 DEF StreamInv, InStream, Sent, AirIsPrefix
<1>4. QED
  BY <1>2, <1>3 DEF Hardware

(* The stream invariant is inductive relative to types and ownership.       *)
LEMMA StreamStep == TypeOK /\ OwnershipInv /\ StreamInv /\ [Next]_vars => StreamInv'
<1> SUFFICES ASSUME TypeOK, OwnershipInv, StreamInv, [Next]_vars PROVE StreamInv'
  OBVIOUS
<1>1. CASE UNCHANGED vars
  BY <1>1 DEF vars, streamVars, aggVars, dmaVars, ghostVars, StreamInv, AirIsPrefix
<1>2. QED
  BY <1>1, MainLoopStream, HardwareStream, ReceiveStream DEF Next

(* The inductive invariant behind the theorems below holds in every state   *)
(* of the board.                                                            *)
THEOREM StreamHolds == Spec => []StreamInv
<1>1. QED
  BY TypeCorrect, OwnershipHolds, StreamInit, StreamStep, PTL DEF Spec

(* The ordered stream: what the transmitter has read is chunks 0, 1, 2, ... *)
(* of the present session, whatever was lost, repeated, refused, closed     *)
(* early, interrupted or reset.                                             *)
THEOREM AirInOrder == Spec => []AirIsPrefix
<1>1. StreamInv => AirIsPrefix
  BY DEF StreamInv
<1>2. QED
  BY <1>1, StreamHolds, PTL

-----------------------------------------------------------------------------
(* Nothing accepted is lost *)

(* Two blocks in use hold disjoint parts of the stream. *)
LEMMA UsedBlocksDisjoint ==
  ASSUME TypeOK, OwnershipInv, StreamInv, ~dma.fatal, NEW b \in Block, NEW c \in Block, b # c,
         blk[b].state # "free", blk[c].state # "free"
  PROVE  Hi(blk, b) <= Lo(blk, c) \/ Hi(blk, c) <= Lo(blk, b)
<1>1. /\ Runs(blk, nextSeq) /\ Queued(blk, fill, HeadOf(blk, dma, air), nextSeq, nextOrder)
      /\ blk \in Blks /\ nextSeq \in Nat /\ None \notin Block
  BY DEF StreamInv, InStream, TypeOK, Block, None
<1>2. \A x \in Block : blk[x].state \in {"free", "filling", "ready", "busy"} /\ blk[x].order \in Nat
  BY <1>1 DEF Blks
<1>3. \A x \in Block : /\ blk[x].state = "filling" <=> x = fill
                       /\ blk[x].state = "busy" => x = dma.blk
  BY DEF OwnershipInv, Owned, BlocksOwned
<1>4. \A x \in Block : blk[x].state = "ready" <=> x \in Ready(blk)
  BY DEF Ready, InState
<1>5. ASSUME NEW x \in Block, NEW y \in Block, blk[x].state = "busy", blk[y].state \in {"ready", "filling"}
      PROVE  Hi(blk, x) <= Lo(blk, y)
  <2>1. HeadOf(blk, dma, air) = Hi(blk, x)
    BY <1>1, <1>3, <1>5 DEF HeadOf
  <2>2. QED
    BY <1>1, <1>3, <1>4, <1>5, <2>1 DEF Queued
<1>6. ASSUME NEW x \in Block, NEW y \in Block, blk[x].state = "ready", blk[y].state = "filling"
      PROVE  Hi(blk, x) <= Lo(blk, y)
  BY <1>1, <1>3, <1>4, <1>6 DEF Queued
<1>7. ASSUME blk[b].state = "ready", blk[c].state = "ready"
      PROVE  Hi(blk, b) <= Lo(blk, c) \/ Hi(blk, c) <= Lo(blk, b)
  <2>1. blk[b].order < blk[c].order \/ blk[c].order < blk[b].order
    BY <1>1, <1>2, <1>4, <1>7 DEF Queued
  <2>2. QED
    BY <1>1, <1>4, <1>7, <2>1 DEF Queued
<1>8. QED
  BY <1>2, <1>3, <1>5, <1>6, <1>7

(* A block holds a chunk exactly when its interval does.                    *)
LEMMA HolderSpan ==
  ASSUME TypeOK, StreamInv, NEW k \in Nat, NEW b \in Block
  PROVE  b \in Holders(k) <=> blk[b].state # "free" /\ Lo(blk, b) <= k /\ k < Hi(blk, b)
<1> DEFINE C == blk[b].content
<1>1. C \in Seq(Nat)
  BY DEF TypeOK, Blks
<1>2. CASE blk[b].state = "free"
  BY <1>2 DEF Holders
<1>3. CASE blk[b].state # "free"
  <2>1. /\ Len(C) \in Nat /\ Len(C) > 0 /\ C[1] \in Nat /\ DOMAIN C = 1 .. Len(C)
        /\ \A i \in DOMAIN C : C[i] = C[1] + i - 1
    BY <1>1, <1>3 DEF StreamInv, InStream, Runs, Lo
  <2>2. b \in Holders(k) <=> \E i \in DOMAIN C : C[i] = k
    BY <1>3 DEF Holders
  <2> HIDE DEF C
  <2>3. (\E i \in DOMAIN C : C[i] = k) => C[1] <= k /\ k < C[1] + Len(C)
    BY <2>1
  <2>4. ASSUME C[1] <= k, k < C[1] + Len(C) PROVE \E i \in DOMAIN C : C[i] = k
    <3>1. k - C[1] + 1 \in DOMAIN C
      BY <2>1, <2>4
    <3>2. C[k - C[1] + 1] = k
      BY <2>1, <3>1
    <3>3. QED
      BY <3>1, <3>2
  <2>5. QED
    BY <1>3, <2>2, <2>3, <2>4 DEF Lo, Hi, C
<1>4. QED
  BY <1>2, <1>3

(* Until the transmitter has read an accepted chunk exactly one block holds *)
(* it, unless the DMA has failed.                                           *)
THEOREM AcceptedIsHeld == Spec => []NothingLost
<1>1. ASSUME TypeOK, OwnershipInv, StreamInv PROVE NothingLost
  <2> SUFFICES ASSUME ~dma.fatal, NEW k \in Len(air) .. nextSeq - 1 PROVE Cardinality(Holders(k)) = 1
    BY DEF NothingLost
  <2>1. /\ Len(air) \in Nat /\ k \in Nat /\ nextSeq \in Nat /\ blk \in Blks /\ dma \in Dmas
        /\ Len(air) <= k /\ k <= nextSeq - 1
    BY <1>1 DEF TypeOK
  <2>2. /\ Queued(blk, fill, HeadOf(blk, dma, air), nextSeq, nextOrder)
        /\ Sent(blk, dma, irq, hw, air) /\ Runs(blk, nextSeq)
    BY <1>1 DEF StreamInv, InStream
  <2>3. \E b \in Block : b \in Holders(k)
    <3>1. ASSUME NEW h \in Nat, h = HeadOf(blk, dma, air), h <= k PROVE \E b \in Block : b \in Holders(k)
      <4>1. k \in h .. nextSeq - 1
        BY <2>1, <3>1
      <4>2. PICK b \in Block : blk[b].state \in {"ready", "filling"} /\ Lo(blk, b) <= k /\ k < Hi(blk, b)
        BY <2>2, <3>1, <4>1 DEF Queued
      <4>3. QED
        BY <1>1, <2>1, <4>2, HolderSpan
    <3>2. CASE dma.blk = None
      BY <2>1, <3>1, <3>2 DEF HeadOf
    <3>3. CASE dma.blk # None
      <4>1. dma.blk \in Block /\ blk[dma.blk].state = "busy"
        BY <1>1, <2>1, <3>3 DEF Dmas, OwnershipInv, Owned, BlocksOwned
      <4>2. Hi(blk, dma.blk) \in Nat /\ HeadOf(blk, dma, air) = Hi(blk, dma.blk)
        BY <2>1, <2>2, <3>3, <4>1, RunSpan DEF HeadOf
      <4>3. CASE Hi(blk, dma.blk) <= k
        BY <3>1, <4>2, <4>3
      <4>4. CASE k < Hi(blk, dma.blk)
        <5>1. Lo(blk, dma.blk) <= k
          BY <2>1, <2>2, <3>3, <4>4 DEF Sent
        <5>2. QED
          BY <1>1, <2>1, <4>1, <4>4, <5>1, HolderSpan
      <4>5. QED
        BY <2>1, <4>2, <4>3, <4>4
    <3>4. QED
      BY <3>2, <3>3
  <2>4. ASSUME NEW b \in Holders(k), NEW c \in Holders(k) PROVE b = c
    <3>1. b \in Block /\ c \in Block
      BY DEF Holders
    <3>2. /\ blk[b].state # "free" /\ Lo(blk, b) <= k /\ k < Hi(blk, b)
          /\ blk[c].state # "free" /\ Lo(blk, c) <= k /\ k < Hi(blk, c)
      BY <1>1, <2>1, <3>1, HolderSpan
    <3>3. Lo(blk, b) \in Nat /\ Hi(blk, b) \in Nat /\ Lo(blk, c) \in Nat /\ Hi(blk, c) \in Nat
      BY <2>1, <2>2, <3>1, <3>2, RunSpan
    <3>4. ~(Hi(blk, b) <= Lo(blk, c) \/ Hi(blk, c) <= Lo(blk, b))
      BY <2>1, <3>2, <3>3
    <3>5. QED
      BY <1>1, <3>1, <3>2, <3>4, UsedBlocksDisjoint
  <2>5. PICK b : Holders(k) = {b}
    BY <2>3, <2>4
  <2>6. QED
    BY <2>5, FS_Singleton
<1>2. QED
  BY <1>1, TypeCorrect, OwnershipHolds, StreamHolds, PTL
-----------------------------------------------------------------------------
(***************************************************************************)
(* The board, with its blocks, interrupts and acknowledgements, implements *)
(* the ordered pipe of StreamPipe.  The refinement mapping takes the chunks *)
(* accepted in this session for what the pipe took and those read by the   *)
(* transmitter for what it gave on.                                        *)
(***************************************************************************)

(* What the mapping needs beside the stream invariant: chunks are accepted  *)
(* one by one from the first of the session on.                             *)
CountInv == Len(accepted) = nextSeq

PipeInv == TypeOK /\ CountInv /\ AirIsPrefix

(* What a step does to the accepted chunks and to the air. *)
Accepts ==
  /\ ~dma.fatal /\ nextSeq \in 0 .. MaxSeq - 1
  /\ Len(accepted') = Len(accepted) + 1 /\ nextSeq' = nextSeq + 1
  /\ air' = air

Forgets ==
  /\ ~dma.fatal /\ ~dma'.fatal
  /\ accepted' = <<>> /\ nextSeq' = 0
  /\ air' = <<>>

Keeps ==
  /\ UNCHANGED <<accepted, nextSeq>>
  /\ \/ air' = air
     \/ dma' = dma /\ Len(air') >= Len(air)

(* Every packet accepts a chunk, starts a session or leaves both alone.     *)
LEMMA ReceiveMaps ==
  ASSUME TypeOK, NEW p \in Peers, Receive(p)
  PROVE  Accepts \/ Forgets \/ Keeps
<1>1. CASE Unchanged \/ RxCfg(p)
  BY <1>1 DEF Unchanged, RxCfg, streamVars, ghostVars, Keeps
<1>2. ASSUME NEW s \in Sessions, NEW crc \in CrcModes, Reset(p, s, crc)
      PROVE  Forgets
  BY <1>2 DEF Reset, ResetAllowed, IdleDma, Forgets
<1>3. ASSUME NEW n, NEW len, NEW status, RefuseExpected(p, n, len, status)
      PROVE  Keeps
  BY <1>3 DEF RefuseExpected, streamVars, ghostVars, Keeps
<1>4. ASSUME NEW s \in Sessions, NEW n \in 0 .. MaxSeq - 1, NEW len \in Lens, DataAccept(p, s, n, len)
      PROVE  Accepts
  <2>1. n = nextSeq /\ ~dma.fatal /\ nextSeq' = n + 1 /\ air' = air
    BY <1>4 DEF DataAccept, Expected, ghostVars
  <2>2. accepted' = Append(accepted, [len |-> len, off |-> total])
    BY <1>4 DEF DataAccept
  <2>3. Len(accepted') = Len(accepted) + 1
    BY <2>2 DEF TypeOK
  <2> QED
    BY <2>1, <2>3 DEF Accepts
<1> QED
  BY <1>1, <1>2, <1>3, <1>4 DEF Receive, Malformed, ResetRefused, DataWrongSession,
     DataAfterFatal, DataAhead, DataDuplicate, DataNoSpace, DataDamaged

(* So does every step; only a finished MM2S transfer extends the air.       *)
LEMMA StepMaps == TypeOK /\ [Next]_vars => Accepts \/ Forgets \/ Keeps
<1> SUFFICES ASSUME TypeOK, [Next]_vars PROVE Accepts \/ Forgets \/ Keeps
  OBVIOUS
<1>1. CASE UNCHANGED vars
  BY <1>1 DEF vars, streamVars, ghostVars, Keeps
<1>2. CASE MainLoop
  BY <1>2 DEF MainLoop, InputDrained, AggTimeout, AggNotDue, AckTimeout, AckNotDue, S2mmNothing,
              S2mmError, S2mmDone, PollStart, TxNothing, TxFailed, TxDone, streamVars, ghostVars, Keeps
<1>3. CASE TxIoc
  <2>1. UNCHANGED <<accepted, nextSeq>> /\ dma' = dma
    BY <1>3 DEF TxIoc, IrqFrame, streamVars
  <2>2. blk[hw.tx].content \in Seq(Nat) /\ air \in Seq(Nat)
    BY <1>3 DEF TxIoc, TypeOK, Hws, Blks
  <2>3. Len(air') = Len(air) + Len(blk[hw.tx].content) /\ Len(blk[hw.tx].content) \in Nat
    BY <1>3, <2>2 DEF TxIoc
  <2>4. Len(air') >= Len(air)
    BY <2>2, <2>3
  <2> QED
    BY <2>1, <2>4 DEF Keeps
<1>4. CASE TxErrIrq \/ RxIoc \/ RxErrIrq
  BY <1>4 DEF TxErrIrq, RxIoc, RxErrIrq, IrqFrame, streamVars, Keeps
<1> QED
  BY <1>1, <1>2, <1>3, <1>4, ReceiveMaps DEF Next, Hardware

(* next_expected_seq counts the chunks accepted in this session.            *)
THEOREM AcceptedCounted == Spec => []CountInv
<1>1. Init => CountInv
  BY DEF Init, CountInv
<1>2. TypeOK /\ CountInv /\ [Next]_vars => CountInv'
  BY StepMaps DEF CountInv, Accepts, Forgets, Keeps
<1> QED
  BY <1>1, <1>2, TypeCorrect, PTL DEF Spec

-----------------------------------------------------------------------------
(* The refinement *)

Taken == [i \in 1 .. Len(accepted) |-> i - 1]

(* The air, being an initial part of the session, is one of what was taken. *)
AirInTaken ==
  /\ Taken \in Seq(Nat) /\ Len(Taken) = nextSeq /\ nextSeq \in Nat
  /\ Len(air) \in 0 .. nextSeq /\ air = SubSeq(Taken, 1, Len(air))

LEMMA AirOfTaken == PipeInv => AirInTaken
<1> SUFFICES ASSUME TypeOK, AirIsPrefix, CountInv PROVE AirInTaken
  BY DEF PipeInv
<1>1. /\ Len(accepted) = nextSeq /\ nextSeq \in Nat /\ air \in Seq(Nat) /\ Len(air) \in Nat
      /\ Len(air) <= nextSeq
  BY DEF TypeOK, CountInv, AirIsPrefix
<1>2. Taken \in Seq(Nat) /\ Len(Taken) = nextSeq
  BY <1>1 DEF Taken
<1>3. \A i \in 1 .. Len(air) : air[i] = SubSeq(Taken, 1, Len(air))[i]
  BY <1>1, <1>2 DEF Taken, AirIsPrefix
<1>4. SubSeq(Taken, 1, Len(air)) \in Seq(Nat) /\ Len(SubSeq(Taken, 1, Len(air))) = Len(air)
  BY <1>1, <1>2
<1>5. air = SubSeq(Taken, 1, Len(air))
  BY <1>1, <1>3, <1>4
<1> QED
  BY <1>1, <1>2, <1>5 DEF AirInTaken

(* Every step of the board is a step of the pipe or none.                   *)
LEMMA StepRefines ==
  ASSUME PipeInv, PipeInv', [Next]_vars, dma.fatal => dma'.fatal
  PROVE  [Pipe!Next]_(Pipe!pvars)
<1>1. Accepts \/ Forgets \/ Keeps
  BY StepMaps DEF PipeInv
<1>2. dma.fatal \in BOOLEAN /\ dma'.fatal \in BOOLEAN
  BY DEF PipeInv, TypeOK, Dmas
<1>3. AirInTaken
  BY AirOfTaken
<1>4. AirInTaken'
  BY AirOfTaken, PTL
<1>5. CASE Accepts
  <2>1. Taken' = Append(Taken, nextSeq)
    <3>1. nextSeq \in Nat /\ Len(accepted) = nextSeq /\ Len(accepted') = nextSeq + 1
      BY <1>3, <1>5 DEF AirInTaken, Accepts, PipeInv, CountInv
    <3>2. Taken = [i \in 1 .. nextSeq |-> i - 1] /\ Taken' = [i \in 1 .. nextSeq + 1 |-> i - 1]
      BY <3>1 DEF Taken
    <3> QED
      BY <3>1, <3>2
  <2>2. Pipe!Take
    BY <1>2, <1>5, <2>1 DEF Pipe!Take, Accepts, Taken
  <2> QED
    BY <2>2 DEF Pipe!Next
<1>6. CASE Forgets
  <2>1. Taken' = <<>>
    BY <1>6 DEF Forgets, Taken
  <2>2. Pipe!Restart
    BY <1>2, <1>6, <2>1 DEF Pipe!Restart, Forgets, Taken
  <2> QED
    BY <2>2 DEF Pipe!Next
<1>7. CASE Keeps
  <2>1. Taken' = Taken
    BY <1>7 DEF Keeps, Taken
  <2>2. CASE air' = air
    <3>1. UNCHANGED Pipe!pvars \/ Pipe!Halt
      BY <1>2, <2>1, <2>2 DEF Pipe!Halt, Pipe!pvars, Taken
    <3> QED
      BY <3>1 DEF Pipe!Next
  <2>3. CASE air' # air /\ dma' = dma /\ Len(air') >= Len(air)
    <3>1. air' = SubSeq(Taken, 1, Len(air')) /\ air = SubSeq(Taken, 1, Len(air))
      BY <1>3, <1>4, <2>1 DEF AirInTaken
    <3>2. Len(air') # Len(air)
      BY <2>3, <3>1
    <3>3. Len(Taken) = nextSeq /\ nextSeq \in Nat /\ Len(air) \in Nat /\ Len(air') \in 0 .. nextSeq
      BY <1>3, <1>4, <1>7 DEF AirInTaken, Keeps
    <3>4. Len(air') \in Len(air) + 1 .. Len(Taken)
      BY <2>3, <3>2, <3>3
    <3>5. Pipe!Give
      BY <2>1, <2>3, <3>1, <3>4 DEF Pipe!Give, Taken
    <3> QED
      BY <3>5 DEF Pipe!Next
  <2> QED
    BY <1>7, <2>2, <2>3 DEF Keeps
<1> QED
  BY <1>1, <1>5, <1>6, <1>7

(* The board is an ordered pipe from the network to the transmitter: what   *)
(* happens inside, in callback, main loop and interrupt handlers, is never  *)
(* visible as a chunk out of order, repeated, missing or invented.          *)
THEOREM BoardIsPipe == Spec => PipeSpec
<1>1. Init => Pipe!Init
  BY DEF Init, IdleDma, Pipe!Init
<1>2. PipeInv /\ PipeInv' /\ [Next]_vars /\ (dma.fatal => dma'.fatal) => [Pipe!Next]_(Pipe!pvars)
  BY StepRefines
<1>3. TypeOK /\ CountInv /\ AirIsPrefix => PipeInv
  BY DEF PipeInv
<1>4. [dma.fatal => dma'.fatal /\ hw'.tx \in {None, hw.tx} /\ (hw'.rx => hw.rx)]_vars
        => (dma.fatal => dma'.fatal)
  BY DEF vars, dmaVars
<1>5. Spec => [][dma.fatal => dma'.fatal /\ hw'.tx \in {None, hw.tx} /\ (hw'.rx => hw.rx)]_vars
  BY FatalForEver DEF FatalIsFinal
<1> QED
  BY <1>1, <1>2, <1>3, <1>4, <1>5, TypeCorrect, AcceptedCounted, AirInOrder, PTL
  DEF Spec, PipeSpec, Pipe!Spec

-----------------------------------------------------------------------------
(* The returned stream *)

(* Where chunk k begins in the stream: acc are the accepted chunks, t their *)
(* bytes.                                                                   *)
Off(acc, t, k) == IF k < Len(acc) THEN acc[k + 1].off ELSE t

(* A block in use knows where its run begins in the stream and how long it  *)
(* is.                                                                      *)
Offsets(B, acc, t) ==
  \A b \in Block : B[b].state # "free" =>
    /\ B[b].offset = Off(acc, t, Lo(B, b))
    /\ B[b].offset + B[b].plen = Off(acc, t, Hi(B, b))

(* Where the returned blocks end. *)
BackTo(l) ==
  IF l.blocks = <<>> THEN 0 ELSE l.blocks[Len(l.blocks)].off + l.blocks[Len(l.blocks)].len

(* They end where the block that is on its way back begins; once it is back, *)
(* where the next one to send does.                                         *)
Back(B, d, a, l, acc, t) ==
  /\ d.rxBusy => d.blk # None /\ BackTo(l) = B[d.blk].offset
  /\ ~d.fatal /\ ~d.rxBusy => BackTo(l) = Off(acc, t, HeadOf(B, d, a))

(* There is somebody to return to as soon as a chunk was accepted. *)
HasPeer == lbLocked \/ nextSeq > 0 => lbPeer # NoPeer

ReturnInv ==
  /\ LoopbackContiguous /\ HasPeer
  /\ Offsets(blk, accepted, total) /\ Back(blk, dma, air, lb, accepted, total)

(* A table in which blocks were freed, queued or started, but not written.  *)
LEMMA SameOffsets ==
  ASSUME NEW B, NEW C, NEW acc, NEW t, Offsets(B, acc, t),
         \A b \in Block : C[b].state # "free" =>
            /\ B[b].state # "free" /\ C[b].content = B[b].content
            /\ C[b].plen = B[b].plen /\ C[b].offset = B[b].offset
  PROVE  Offsets(C, acc, t)
  BY DEF Offsets, Lo, Hi

(* The next transfer sends the block that begins where the returned stream  *)
(* ends.                                                                    *)
LEMMA StartDmaBack ==
  ASSUME NEW B \in Blks, NEW fl \in Block \cup {None}, NEW d \in Dmas, NEW f \in Flags, hw \in Hws,
         NEW a \in Seq(Nat), NEW n \in Nat, NEW o \in Nat, NEW l, NEW acc, NEW t,
         Owned(B, fl, d, f, hw), Underway(d), InStream(B, fl, d, f, hw, a, n, o),
         Offsets(B, acc, t), Back(B, d, a, l, acc, t), StartDma(B, d, f)
  PROVE  Offsets(blk', acc, t) /\ Back(blk', dma', a, l, acc, t)
<1>1. CASE CanStart(d) /\ InState(B, "ready") # {}
  <2>1. PICK b \in Block :
          /\ Earliest(B, b)
          /\ S2mmRefused(B, d, b) \/ Mm2sRefused(B, d, b) \/ BothStarted(B, d, b)
    BY <1>1 DEF StartDma
  <2>2. d.blk = None /\ ~d.fatal /\ ~d.rxBusy /\ None \notin Block
    BY <1>1 DEF CanStart, Underway, Block, None
  <2>3. CASE S2mmRefused(B, d, b) \/ Mm2sRefused(B, d, b)
    <3>1. blk' = B /\ dma'.fatal /\ ~dma'.rxBusy
      BY <2>2, <2>3 DEF S2mmRefused, Mm2sRefused, Dmas
    <3> QED
      BY <3>1 DEF Back
  <2>4. CASE BothStarted(B, d, b)
    <3>1. B[b].state = "ready"
      BY <2>1 DEF Earliest, InState
    <3>2. Lo(B, b) = Len(a) /\ HeadOf(B, d, a) = Len(a)
      <4>1. HeadOf(B, d, a) = Len(a) /\ Len(a) \in Nat
        BY <2>2 DEF HeadOf
      <4> QED
        BY <2>1, <2>2, <4>1, EarliestIsHead DEF InStream, Owned, BlocksOwned
    <3>3. /\ blk'[b].content = B[b].content /\ blk'[b].plen = B[b].plen /\ blk'[b].offset = B[b].offset
          /\ \A c \in Block : c # b => blk'[c] = B[c]
      BY <2>4 DEF BothStarted, Blks
    <3>4. dma'.rxBusy /\ dma'.blk = b
      BY <2>4 DEF BothStarted, Dmas
    <3>5. BackTo(l) = blk'[b].offset
      BY <2>2, <3>1, <3>2, <3>3 DEF Back, Offsets
    <3>6. Back(blk', dma', a, l, acc, t)
      BY <2>2, <3>4, <3>5 DEF Back
    <3>7. Offsets(blk', acc, t)
      BY <3>1, <3>3, SameOffsets
    <3> QED
      BY <3>6, <3>7
  <2> QED
    BY <2>1, <2>3, <2>4
<1> QED
  BY <1>1 DEF StartDma

(* Releasing a block that was sent and came back.                           *)
LEMMA ReleaseBack ==
  ASSUME blk \in Blks, NEW fl \in Block \cup {None}, NEW d \in Dmas, NEW f \in Flags, hw \in Hws,
         NEW a \in Seq(Nat), NEW n \in Nat, NEW o \in Nat, NEW l, NEW acc, NEW t,
         Owned(blk, fl, d, f, hw), d.fatal => hw.tx = None, InStream(blk, fl, d, f, hw, a, n, o),
         Offsets(blk, acc, t), Back(blk, d, a, l, acc, t), ReleaseIfDone(d, f)
  PROVE  Offsets(blk', acc, t) /\ Back(blk', dma', a, l, acc, t)
<1>1. CASE CanRelease(d)
  <2> DEFINE B == [blk EXCEPT ![d.blk] = FreeBlk]
             e == [d EXCEPT !.blk = None, !.rxDone = FALSE]
  <2>1. B \in Blks /\ e \in Dmas /\ Owned(B, fl, e, f, hw) /\ Underway(e) /\ hw.tx = None
    BY <1>1, FreedOwned
  <2>2. d.blk \in Block /\ d.blk # None /\ ~d.busy /\ ~d.rxBusy
    BY <1>1 DEF CanRelease, Dmas
  <2>3. B[d.blk].state = "free" /\ \A c \in Block : c # d.blk => B[c] = blk[c]
    BY <2>2 DEF Blks, FreeBlk
  <2>4. e.blk = None /\ e.fatal = d.fatal /\ ~e.rxBusy
    BY <2>2 DEF Dmas
  <2>5. Offsets(B, acc, t)
    <3>1. \A c \in Block : B[c].state # "free" => blk[c].state # "free" /\ B[c] = blk[c]
      BY <2>3
    <3> HIDE DEF B
    <3> QED
      BY <3>1, SameOffsets
  <2>6. ~d.fatal => Len(a) = HeadOf(blk, d, a) /\ HeadOf(B, e, a) = Len(a)
    BY <2>2, <2>4 DEF InStream, Sent, HeadOf
  <2>7. Back(B, e, a, l, acc, t)
    BY <2>2, <2>4, <2>6 DEF Back
  <2>8. StartDma(B, e, f)
    BY <1>1 DEF ReleaseIfDone
  <2> HIDE DEF B, e
  <2>9. InStream(B, fl, e, f, hw, a, n, o)
    BY <1>1, <2>1, <2>3, <2>4, FreedStream
  <2> QED
    BY <2>1, <2>5, <2>7, <2>8, <2>9, StartDmaBack
<1>2. CASE ~CanRelease(d)
  BY <1>2 DEF ReleaseIfDone
<1> QED
  BY <1>1, <1>2

(* The filling block becomes ready.                                         *)
LEMMA SubmitBack ==
  ASSUME TypeOK, NEW B \in Blks, NEW C \in Blks, NEW b \in Block, NEW a, NEW l, NEW acc, NEW t,
         Owned(B, b, dma, irq, hw), Offsets(B, acc, t), Back(B, dma, a, l, acc, t),
         C[b].content = B[b].content, C[b].plen = B[b].plen, C[b].offset = B[b].offset,
         \A c \in Block : c # b => C[c] = B[c]
  PROVE  Offsets(C, acc, t) /\ Back(C, dma, a, l, acc, t)
<1>1. B[b].state = "filling" /\ dma \in Dmas
  BY DEF Owned, BlocksOwned, TypeOK
<1>2. dma.blk # None => dma.blk \in Block /\ C[dma.blk] = B[dma.blk]
  BY <1>1 DEF Owned, BlocksOwned, Dmas
<1>3. HeadOf(C, dma, a) = HeadOf(B, dma, a)
  BY <1>2 DEF HeadOf, Hi
<1>4. Back(C, dma, a, l, acc, t)
  BY <1>2, <1>3 DEF Back
<1>5. Offsets(C, acc, t)
  BY <1>1, SameOffsets
<1> QED
  BY <1>4, <1>5

(* The idle timer submits the filling block.                                *)
LEMMA SubmittedBack ==
  ASSUME TypeOK, OwnershipInv, ReturnInv, fill # None
  PROVE  LET C == Submitted(blk, fill)
         IN Offsets(C, accepted, total) /\ Back(C, dma, air, lb, accepted, total)
<1> DEFINE C == Submitted(blk, fill)
<1>1. /\ fill \in Block /\ C \in Blks /\ C[fill].content = blk[fill].content
      /\ \A c \in Block : c # fill => C[c] = blk[c]
  BY SubmittedTable
<1>2. C[fill].plen = blk[fill].plen /\ C[fill].offset = blk[fill].offset
  BY <1>1 DEF Submitted, TypeOK, Blks, OwnershipInv, Owned, BlocksOwned
<1> HIDE DEF C
<1>3. Offsets(C, accepted, total) /\ Back(C, dma, air, lb, accepted, total)
  BY <1>1, <1>2, SubmitBack DEF OwnershipInv, ReturnInv, TypeOK
<1> QED
  BY <1>3 DEF C

(* So does a chunk without room.                                            *)
LEMMA MadeRoomBack ==
  ASSUME TypeOK, OwnershipInv, ReturnInv, NEW len \in Lens
  PROVE  Offsets(MadeRoom(len), accepted, total) /\ Back(MadeRoom(len), dma, air, lb, accepted, total)
<1>1. CASE Fits(len) \/ fill = None
  BY <1>1 DEF MadeRoom, ReturnInv
<1>2. CASE ~Fits(len) /\ fill # None
  BY <1>2, SubmittedBack DEF MadeRoom
<1> QED
  BY <1>1, <1>2

-----------------------------------------------------------------------------
(* An accepted chunk *)

(* A chunk that joins the stream moves no offset of those before it.        *)
LEMMA OffAfterAppend ==
  ASSUME accepted \in Seq([len : Nat, off : Nat]), NEW len \in Nat, total \in Nat
  PROVE  LET acc == Append(accepted, [len |-> len, off |-> total])
         IN /\ \A k \in Nat : k <= Len(accepted) => Off(acc, total + len, k) = Off(accepted, total, k)
            /\ Off(acc, total + len, Len(accepted) + 1) = total + len
            /\ Off(accepted, total, Len(accepted)) = total
<1> DEFINE e == [len |-> len, off |-> total]
           acc == Append(accepted, e)
<1>1. e.off = total /\ e \in [len : Nat, off : Nat]
  OBVIOUS
<1> HIDE DEF e
<1>2. Len(accepted) \in Nat /\ Len(acc) = Len(accepted) + 1 /\ acc[Len(accepted) + 1] = e
      /\ \A k \in Nat : k < Len(accepted) => acc[k + 1] = accepted[k + 1]
  BY <1>1
<1> HIDE DEF acc
<1>3. \A k \in Nat : k <= Len(accepted) => Off(acc, total + len, k) = Off(accepted, total, k)
  BY <1>1, <1>2 DEF Off
<1>4. Off(acc, total + len, Len(accepted) + 1) = total + len /\ Off(accepted, total, Len(accepted)) = total
  BY <1>2 DEF Off
<1> QED
  BY <1>3, <1>4 DEF acc, e

(* Offset and length of the block a chunk was copied into.                  *)
LEMMA WrittenLength ==
  ASSUME TypeOK, OwnershipInv, NEW len \in Lens, NEW n \in Nat, NEW b \in Block, FillTarget(len, b)
  PROVE  LET R == MadeRoom(len)
             W == Written(len, b, n)
         IN \/ /\ R[b].state = "filling" /\ FillAfterRefusal(len) = b
               /\ W[b].plen = R[b].plen + len /\ W[b].offset = R[b].offset
               /\ W[b].content = Append(R[b].content, n)
            \/ /\ R[b].state = "free" /\ FillAfterRefusal(len) = None
               /\ W[b].plen = len /\ W[b].offset = total
               /\ W[b].content = Append(<<>>, n)
<1>1. len \in Nat /\ MadeRoom(len) \in Blks /\ blk \in Blks
  BY BoardAssumption, MadeRoomType DEF BoardAssumption, TypeOK
<1>2. CASE Fits(len)
  <2>1. Opened(len, b) = blk /\ MadeRoom(len) = blk /\ b = fill /\ FillAfterRefusal(len) = fill
    BY <1>2 DEF FillTarget, Opened, MadeRoom, FillAfterRefusal
  <2>2. blk[b].state = "filling"
    BY <2>1 DEF OwnershipInv, Owned, BlocksOwned
  <2>3. Written(len, b, n) = [blk EXCEPT ![b].content = Append(blk[b].content, n), ![b].plen = blk[b].plen + len]
    BY <2>1 DEF Written
  <2> QED
    BY <1>1, <2>1, <2>2, <2>3 DEF Blks
<1>3. CASE ~Fits(len)
  <2>1. /\ Opened(len, b) = [MadeRoom(len) EXCEPT ![b] = NewFill] /\ FillAfterRefusal(len) = None
        /\ MadeRoom(len)[b].state = "free"
    BY <1>3 DEF FillTarget, Opened, FillAfterRefusal, InState
  <2> QED
    BY <1>1, <2>1 DEF Written, NewFill, Blks
<1> QED
  BY <1>2, <1>3

(* The types of one block.                                                  *)
LEMMA BlockTypes ==
  ASSUME NEW B \in Blks, NEW b \in Block
  PROVE  B[b].offset \in Nat /\ B[b].plen \in Nat /\ B[b].content \in Seq(Nat)
  BY BoardAssumption DEF BoardAssumption, Blks

(* A chunk more.                                                            *)
LEMMA OneMore ==
  ASSUME NEW s \in Seq(Nat), Len(s) > 0, NEW n \in Nat
  PROVE  Append(s, n)[1] = s[1] /\ Len(Append(s, n)) = Len(s) + 1 /\ s[1] \in Nat /\ Len(s) \in Nat
  OBVIOUS

(* A block that takes a chunk more ends one chunk later.                    *)
LEMMA LongerSpan ==
  ASSUME NEW B, NEW C, NEW b, B[b].content[1] \in Nat, Len(B[b].content) \in Nat,
         C[b].content[1] = B[b].content[1], Len(C[b].content) = Len(B[b].content) + 1
  PROVE  Lo(C, b) = Lo(B, b) /\ Hi(C, b) = Hi(B, b) + 1
<1> DEFINE x == B[b].content[1]
           y == Len(B[b].content)
<1>1. Lo(B, b) = x /\ Lo(C, b) = x /\ Hi(B, b) = x + y /\ Hi(C, b) = x + (y + 1)
  BY Zenon DEF Lo, Hi
<1>2. x \in Nat /\ y \in Nat
  OBVIOUS
<1> HIDE DEF x, y
<1> QED
  BY <1>1, <1>2

(* The block it goes into covers it, and nothing else moves.                *)
LEMMA WrittenBack ==
  ASSUME TypeOK, OwnershipInv, StreamInv, CountInv, ReturnInv, ~dma.fatal,
         NEW len \in Lens, NEW b \in Block, FillTarget(len, b),
         NEW acc, acc = Append(accepted, [len |-> len, off |-> total]), NEW t, t = total + len
  PROVE  LET W == Written(len, b, nextSeq)
         IN Offsets(W, acc, t) /\ Back(W, dma, air, lb, acc, t)
<1> DEFINE R == MadeRoom(len)
           W == Written(len, b, nextSeq)
           fr == FillAfterRefusal(len)
           n == nextSeq
<1>1. /\ len \in Nat /\ n \in Nat /\ total \in Nat /\ dma \in Dmas /\ air \in Seq(Nat)
      /\ R \in Blks /\ W \in Blks /\ None \notin Block /\ fr \in Block \cup {None}
  BY BoardAssumption, MadeRoomType, WrittenType DEF BoardAssumption, TypeOK, Block, None, FillAfterRefusal
<1>2. /\ \A k \in Nat : k <= n => Off(acc, t, k) = Off(accepted, total, k)
      /\ Off(acc, t, n + 1) = t /\ Off(accepted, total, n) = total
  BY <1>1, OffAfterAppend DEF TypeOK, CountInv
<1>3. /\ \/ /\ R[b].state = "filling" /\ fr = b
            /\ W[b].plen = R[b].plen + len /\ W[b].offset = R[b].offset
            /\ W[b].content = Append(R[b].content, n)
         \/ /\ R[b].state = "free" /\ fr = None
            /\ W[b].plen = len /\ W[b].offset = total
            /\ W[b].content = Append(<<>>, n)
      /\ \A c \in Block : c # b => W[c] = R[c]
  BY <1>1, WrittenLength, WrittenTable
<1>4. /\ Owned(R, fr, dma, irq, hw)
      /\ Runs(R, n) /\ Queued(R, fr, HeadOf(R, dma, air), n, OrderAfter(len))
  BY MadeRoomOwned, MadeRoomStream DEF InStream
<1>5. Offsets(R, accepted, total) /\ Back(R, dma, air, lb, accepted, total)
  BY MadeRoomBack
<1> HIDE DEF R, W, fr
<1>6. ASSUME NEW c \in Block, W[c].state # "free"
      PROVE  W[c].offset = Off(acc, t, Lo(W, c)) /\ W[c].offset + W[c].plen = Off(acc, t, Hi(W, c))
  <2>1. CASE c # b
    <3>1. R[c].state # "free" /\ W[c] = R[c] /\ Lo(W, c) = Lo(R, c) /\ Hi(W, c) = Hi(R, c)
      BY <1>3, <1>6, <2>1 DEF Lo, Hi
    <3>2. Lo(R, c) \in Nat /\ Hi(R, c) \in Nat /\ Lo(R, c) <= n /\ Hi(R, c) <= n
      BY <1>1, <1>4, <3>1, RunSpan
    <3> QED
      BY <1>2, <1>5, <3>1, <3>2 DEF Offsets
  <2>2. CASE c = b /\ R[b].state = "filling"
    <3>1. R[b].content \in Seq(Nat) /\ Len(R[b].content) > 0
      BY <1>1, <1>4, <2>2 DEF Blks, Runs
    <3>2. /\ W[b].content = Append(R[b].content, n) /\ fr # None /\ fr = b
          /\ W[b].plen = R[b].plen + len /\ W[b].offset = R[b].offset
      BY <1>1, <1>3, <2>2
    <3>3. Lo(W, b) = Lo(R, b) /\ Hi(W, b) = Hi(R, b) + 1
      <4>1. /\ Append(R[b].content, n)[1] = R[b].content[1]
            /\ Len(Append(R[b].content, n)) = Len(R[b].content) + 1
            /\ R[b].content[1] \in Nat /\ Len(R[b].content) \in Nat
        BY <1>1, <3>1, OneMore
      <4> QED
        BY <3>2, <4>1, LongerSpan
    <3>4. Lo(R, b) \in Nat /\ Lo(R, b) <= n /\ Hi(R, b) = n
      <4>1. Lo(R, b) \in Nat /\ Lo(R, b) <= n
        BY <1>1, <1>4, <2>2, RunSpan
      <4>2. Hi(R, b) = n
        BY <1>4, <3>2 DEF Queued
      <4> QED
        BY <4>1, <4>2
    <3>5. R[b].offset = Off(accepted, total, Lo(R, b)) /\ R[b].offset + R[b].plen = total
      BY <1>2, <1>5, <2>2, <3>4 DEF Offsets
    <3>6. R[b].offset \in Nat /\ R[b].plen \in Nat
      BY <1>1, BlockTypes
    <3>7. W[b].offset = Off(acc, t, Lo(W, b))
      BY <1>2, <3>2, <3>3, <3>4, <3>5
    <3>8. W[b].offset + W[b].plen = t
      BY <1>1, <3>2, <3>5, <3>6
    <3>9. Off(acc, t, Hi(W, b)) = t
      BY <1>2, <3>3, <3>4
    <3> QED
      BY <2>2, <3>7, <3>8, <3>9
  <2>3. CASE c = b /\ R[b].state = "free"
    <3>1. W[b].content = Append(<<>>, n) /\ W[b].plen = len /\ W[b].offset = total
      BY <1>3, <2>3
    <3>2. Lo(W, b) = n /\ Hi(W, b) = n + 1
      BY <1>1, <3>1 DEF Lo, Hi
    <3> QED
      BY <1>1, <1>2, <2>3, <3>1, <3>2
  <2> QED
    BY <1>3, <2>1, <2>2, <2>3
<1>7. Back(W, dma, air, lb, acc, t)
  <2>1. dma.blk # None => dma.blk \in Block /\ dma.blk # b /\ W[dma.blk] = R[dma.blk]
    BY <1>1, <1>3, <1>4 DEF Dmas, Owned, BlocksOwned
  <2>2. HeadOf(W, dma, air) = HeadOf(R, dma, air)
    BY <2>1 DEF HeadOf, Hi
  <2>3. HeadOf(R, dma, air) \in Nat /\ HeadOf(R, dma, air) <= n
    <3>1. CASE dma.blk = None
      BY <1>1, <1>4, <3>1 DEF HeadOf, Queued
    <3>2. CASE dma.blk # None
      <4>1. R[dma.blk].state = "busy" /\ dma.blk \in Block
        BY <1>4, <2>1, <3>2 DEF Owned, BlocksOwned
      <4> QED
        BY <1>1, <1>4, <3>2, <4>1, RunSpan DEF HeadOf
    <3> QED
      BY <3>1, <3>2
  <2> QED
    BY <1>2, <1>5, <2>1, <2>2, <2>3 DEF Back
<1> QED
  BY <1>6, <1>7 DEF Offsets, W

(* The accepted chunk, with the start that may follow it.                   *)
LEMMA AcceptBack ==
  ASSUME TypeOK, OwnershipInv, StreamInv, CountInv, ReturnInv,
         NEW p \in Peers, NEW s \in Sessions, NEW n \in Nat, NEW len \in Lens, DataAccept(p, s, n, len)
  PROVE  ReturnInv'
<1>1. /\ n = nextSeq /\ ~dma.fatal /\ nextSeq' = nextSeq + 1 /\ UNCHANGED <<air, lb, lbLocked>>
      /\ lbPeer' = IF lbLocked THEN lbPeer ELSE p
  BY DEF DataAccept, Expected, ghostVars
<1>2. PICK b \in Block :
        /\ FillTarget(len, b)
        /\ LET W == Written(len, b, n)
               full == W[b].plen >= BlockBytes
               order == OrderAfter(len)
           IN StartDma(IF full THEN [W EXCEPT ![b].state = "ready", ![b].order = order] ELSE W, dma, irq)
  BY DEF DataAccept
<1> DEFINE W == Written(len, b, n)
           full == W[b].plen >= BlockBytes
           order == OrderAfter(len)
           F == [W EXCEPT ![b].state = "ready", ![b].order = order]
           B == IF full THEN F ELSE W
           fl == IF full THEN None ELSE b
           o == IF full THEN order + 1 ELSE order
<1>3. /\ W \in Blks /\ order \in Nat /\ Owned(W, b, dma, irq, hw)
      /\ InStream(W, b, dma, irq, hw, air, nextSeq + 1, order)
  BY <1>1, <1>2, WrittenType, MadeRoomType, WrittenOwned, WrittenStream
<1>4. Offsets(W, accepted', total') /\ Back(W, dma, air, lb, accepted', total')
  <2>1. accepted' = Append(accepted, [len |-> len, off |-> total]) /\ total' = total + len
    BY DEF DataAccept
  <2> QED
    BY <1>1, <1>2, <2>1, WrittenBack
<1>5. StartDma(B, dma, irq) /\ fl \in Block \cup {None} /\ o \in Nat
  BY <1>2, <1>3
<1>6. /\ F \in Blks /\ F[b].state = "ready" /\ F[b].order = order /\ F[b].content = W[b].content
      /\ F[b].plen = W[b].plen /\ F[b].offset = W[b].offset
      /\ \A c \in Block : c # b => F[c] = W[c]
  BY <1>3 DEF Blks
<1> HIDE DEF W, F, full, order
<1>7. nextSeq + 1 \in Nat
  BY DEF TypeOK
<1>8. /\ Owned(F, None, dma, irq, hw) /\ InStream(F, None, dma, irq, hw, air, nextSeq + 1, order + 1)
      /\ Offsets(F, accepted', total') /\ Back(F, dma, air, lb, accepted', total')
  BY <1>3, <1>4, <1>6, <1>7, SubmitOwned, SubmitStream, SubmitBack
<1>9. /\ B \in Blks /\ Owned(B, fl, dma, irq, hw) /\ InStream(B, fl, dma, irq, hw, air, nextSeq + 1, o)
      /\ Offsets(B, accepted', total') /\ Back(B, dma, air, lb, accepted', total')
  BY <1>3, <1>4, <1>6, <1>8
<1> HIDE DEF B, fl, o
<1>10. Offsets(blk', accepted', total') /\ Back(blk', dma', air, lb, accepted', total')
  BY <1>5, <1>7, <1>9, StartDmaBack DEF TypeOK, OwnershipInv
<1>11. HasPeer'
  BY <1>1, BoardAssumption DEF BoardAssumption, HasPeer, ReturnInv
<1>12. LoopbackContiguous'
  BY <1>1 DEF LoopbackContiguous, ReturnInv
<1> QED
  BY <1>1, <1>10, <1>11, <1>12 DEF ReturnInv

-----------------------------------------------------------------------------
(* The other steps *)

LEMMA ReturnInit == Init => ReturnInv
<1> SUFFICES ASSUME Init PROVE ReturnInv
  OBVIOUS
<1>1. LoopbackContiguous /\ HasPeer
  BY DEF Init, LoopbackContiguous, HasPeer, NoReturn
<1>2. Offsets(blk, accepted, total)
  BY DEF Init, Offsets, FreeBlk
<1>3. Back(blk, dma, air, lb, accepted, total)
  BY DEF Init, Back, IdleDma, BackTo, Off, HeadOf, NoReturn
<1> QED
  BY <1>1, <1>2, <1>3 DEF ReturnInv

(* Every packet keeps the returned stream.                                  *)
LEMMA ReceiveBack ==
  ASSUME TypeOK, OwnershipInv, StreamInv, CountInv, ReturnInv, NEW p \in Peers, Receive(p)
  PROVE  ReturnInv'
<1>1. CASE Unchanged \/ RxCfg(p)
  <2>1. /\ UNCHANGED <<blk, dma, nextSeq, air, lb, accepted, total>>
        /\ UNCHANGED <<lbPeer, lbLocked>> \/ lbPeer' = p
    BY <1>1 DEF Unchanged, RxCfg, streamVars, aggVars, dmaVars, peerVars, ghostVars
  <2>2. HasPeer'
    BY <2>1, BoardAssumption DEF BoardAssumption, ReturnInv, HasPeer
  <2> QED
    BY <2>1, <2>2 DEF ReturnInv, LoopbackContiguous
<1>2. ASSUME NEW len \in Lens, NEW n, NEW status, RefuseExpected(p, n, len, status) PROVE ReturnInv'
  <2>1. /\ UNCHANGED <<dma, nextSeq, air, lb, accepted, total, lbPeer, lbLocked>>
        /\ blk' = MadeRoom(len)
    BY <1>2 DEF RefuseExpected, streamVars, dmaVars, peerVars, ghostVars
  <2>2. Offsets(blk', accepted, total) /\ Back(blk', dma, air, lb, accepted, total)
    BY <2>1, MadeRoomBack
  <2> QED
    BY <2>1, <2>2 DEF ReturnInv, LoopbackContiguous, HasPeer
<1>3. ASSUME NEW s, NEW crc, Reset(p, s, crc) PROVE ReturnInv'
  <2>1. LoopbackContiguous' /\ HasPeer'
    BY <1>3, BoardAssumption DEF BoardAssumption, Reset, ReturnInv, LoopbackContiguous, HasPeer, NoReturn
  <2>2. Offsets(blk', accepted', total')
    BY <1>3 DEF Reset, Offsets, FreeBlk
  <2>3. Back(blk', dma', air', lb', accepted', total')
    BY <1>3 DEF Reset, Back, IdleDma, BackTo, Off, HeadOf, NoReturn
  <2> QED
    BY <2>1, <2>2, <2>3 DEF ReturnInv
<1>4. ASSUME NEW s \in Sessions, NEW n \in 0 .. MaxSeq - 1, NEW len \in Lens, DataAccept(p, s, n, len)
      PROVE  ReturnInv'
  BY <1>4, AcceptBack
<1> QED
  BY <1>1, <1>2, <1>3, <1>4
  DEF Receive, Malformed, ResetRefused, DataWrongSession, DataAfterFatal, DataAhead, DataDuplicate,
      DataNoSpace, DataDamaged

(* The returned blocks and one more.                                        *)
LEMMA AppendFacts ==
  ASSUME NEW s \in Seq(Returns), NEW e \in Returns, NEW u, u = Append(s, e)
  PROVE  /\ Len(s) \in Nat /\ Len(u) = Len(s) + 1 /\ u # <<>> /\ u[Len(s) + 1] = e
         /\ \A i \in 1 .. Len(s) : u[i] = s[i]
         /\ DOMAIN s = 1 .. Len(s) /\ DOMAIN u = 1 .. Len(s) + 1
         /\ s = <<>> <=> Len(s) = 0
<1>1. Len(u) = Len(s) + 1 /\ Len(s) \in Nat /\ u \in Seq(Returns)
  OBVIOUS
<1> QED
  BY <1>1

(* A block that comes back continues the blocks returned before.            *)
LEMMA ReturnedNext ==
  ASSUME TypeOK, OwnershipInv, StreamInv, ReturnInv, dma.rxBusy, Return
  PROVE  /\ LoopbackContiguous'
         /\ BackTo(lb') = Off(accepted, total, HeadOf(blk, dma, air))
<1>1. dma.blk # None /\ dma.blk \in Block /\ BackTo(lb) = blk[dma.blk].offset
  BY DEF ReturnInv, Back, TypeOK, Dmas
<1>2. blk[dma.blk].state # "free"
  BY <1>1 DEF OwnershipInv, Owned, BlocksOwned
<1>3. lbPeer # NoPeer
  <2>1. nextSeq > 0
    <3>1. Lo(blk, dma.blk) \in Nat /\ Lo(blk, dma.blk) < Hi(blk, dma.blk) /\ Hi(blk, dma.blk) <= nextSeq
          /\ Hi(blk, dma.blk) \in Nat /\ nextSeq \in Nat
      BY <1>1, <1>2, RunSpan DEF TypeOK, StreamInv, InStream
    <3> QED
      BY <3>1
  <2> QED
    BY <2>1 DEF ReturnInv, HasPeer
<1>4. PICK sent \in Leaving(blk[dma.blk].plen) : lb' = [blocks |-> Append(lb.blocks, Returned), sent |-> sent]
  BY <1>1 DEF Return
<1>5. /\ Returned.off = blk[dma.blk].offset /\ Returned.len = blk[dma.blk].plen
      /\ Returned.to # NoPeer /\ Returned \in Returns
  BY <1>1, <1>3, ReturnedType
<1>6. sent <= Returned.len
  <2>1. blk[dma.blk].plen \in Nat
    BY <1>1, BoardAssumption DEF TypeOK, Blks, BoardAssumption
  <2> QED
    BY <1>5, <2>1, LeavingType
<1> DEFINE g == lb.blocks
           h == lb'.blocks
           r == Returned
<1>7. h = Append(g, r) /\ lb'.sent = sent /\ g \in Seq(Returns)
  BY <1>4 DEF TypeOK, Loopbacks
<1>8. /\ \A i \in DOMAIN g : g[i].off = (IF i = 1 THEN 0 ELSE g[i - 1].off + g[i - 1].len)
      /\ \A i \in DOMAIN g : g[i].to # NoPeer
      /\ BackTo(lb) = IF g = <<>> THEN 0 ELSE g[Len(g)].off + g[Len(g)].len
      /\ BackTo(lb') = IF h = <<>> THEN 0 ELSE h[Len(h)].off + h[Len(h)].len
  BY DEF ReturnInv, LoopbackContiguous, BackTo
<1>9. LoopbackContiguous' <=>
        /\ \A i \in DOMAIN h : /\ h[i].off = (IF i = 1 THEN 0 ELSE h[i - 1].off + h[i - 1].len)
                               /\ h[i].to # NoPeer
        /\ lb'.sent <= IF h = <<>> THEN 0 ELSE h[Len(h)].len
  BY DEF LoopbackContiguous
<1> HIDE DEF g, h, r
<1>10. r.off = BackTo(lb) /\ r.len = blk[dma.blk].plen /\ r.to # NoPeer /\ sent <= r.len /\ r \in Returns
  BY <1>1, <1>5, <1>6 DEF r
<1>11. /\ Len(g) \in Nat /\ Len(h) = Len(g) + 1 /\ h # <<>> /\ h[Len(g) + 1] = r
       /\ \A i \in 1 .. Len(g) : h[i] = g[i]
       /\ DOMAIN g = 1 .. Len(g) /\ DOMAIN h = 1 .. Len(g) + 1
       /\ g = <<>> <=> Len(g) = 0
  BY <1>7, <1>10, AppendFacts
<1>12. ASSUME NEW i \in 1 .. Len(g) + 1
       PROVE  /\ h[i].off = (IF i = 1 THEN 0 ELSE h[i - 1].off + h[i - 1].len)
              /\ h[i].to # NoPeer
  <2>1. CASE i \in 1 .. Len(g)
    <3>1. h[i] = g[i] /\ (i # 1 => h[i - 1] = g[i - 1])
      BY <1>11, <2>1
    <3>2. g[i].off = (IF i = 1 THEN 0 ELSE g[i - 1].off + g[i - 1].len) /\ g[i].to # NoPeer
      BY <1>8, <1>11, <2>1
    <3> QED
      BY <3>1, <3>2
  <2>2. CASE i = Len(g) + 1
    <3>1. h[i].off = BackTo(lb) /\ h[i].to # NoPeer
      BY <1>10, <1>11, <2>2
    <3>2. i # 1 => i - 1 = Len(g) /\ h[i - 1] = g[Len(g)] /\ g # <<>>
      BY <1>11, <2>2
    <3>3. i = 1 => g = <<>>
      BY <1>11, <2>2
    <3> QED
      BY <1>8, <3>1, <3>2, <3>3
  <2> QED
    BY <1>11, <2>1, <2>2
<1>13. lb'.sent <= IF h = <<>> THEN 0 ELSE h[Len(h)].len
  BY <1>7, <1>10, <1>11
<1>14. LoopbackContiguous'
  BY <1>9, <1>11, <1>12, <1>13
<1>15. BackTo(lb') = blk[dma.blk].offset + blk[dma.blk].plen
  BY <1>1, <1>8, <1>10, <1>11
<1>16. HeadOf(blk, dma, air) = Hi(blk, dma.blk)
  BY <1>1 DEF HeadOf
<1> QED
  BY <1>1, <1>2, <1>14, <1>15, <1>16 DEF ReturnInv, Offsets

(* Every function of the main loop keeps the returned stream.               *)
LEMMA MainLoopBack ==
  ASSUME TypeOK, OwnershipInv, StreamInv, ReturnInv, MainLoop
  PROVE  ReturnInv'
<1> USE DEF aggVars, dmaVars, streamVars, peerVars, ghostVars
<1>1. CASE InputDrained \/ AggNotDue \/ AckTimeout \/ AckNotDue \/ S2mmNothing \/ TxNothing
  BY <1>1 DEF InputDrained, AggNotDue, AckTimeout, AckNotDue, S2mmNothing, TxNothing,
     ReturnInv, LoopbackContiguous, HasPeer
<1>2. CASE AggTimeout
  <2>1. /\ UNCHANGED <<dma, nextSeq, air, lb, accepted, total, lbPeer, lbLocked>>
        /\ blk' = Submitted(blk, fill) /\ fill # None
    BY <1>2 DEF AggTimeout, AggDue
  <2>2. Offsets(blk', accepted, total) /\ Back(blk', dma, air, lb, accepted, total)
    BY <2>1, SubmittedBack
  <2> QED
    BY <2>1, <2>2 DEF ReturnInv, LoopbackContiguous, HasPeer
<1>3. CASE S2mmError \/ TxFailed
  <2>1. /\ dma'.fatal /\ dma'.blk = dma.blk /\ (dma'.rxBusy => dma.rxBusy)
        /\ UNCHANGED <<blk, nextSeq, air, lb, accepted, total, lbPeer, lbLocked>>
    BY <1>3 DEF S2mmError, TxFailed, TypeOK, Dmas
  <2> QED
    BY <2>1 DEF ReturnInv, LoopbackContiguous, HasPeer, Back
<1>4. CASE S2mmDone
  <2> DEFINE d == [dma EXCEPT !.rxBusy = FALSE, !.rxDone = TRUE]
             f == [irq EXCEPT !.rxDone = FALSE]
  <2>1. d \in Dmas /\ f \in Flags
    BY DEF TypeOK, Dmas, Flags
  <2>2. d.fatal => hw.tx = None
    BY <1>4 DEF S2mmDone, OwnershipInv, Owned, EngineKnown, TypeOK, Dmas
  <2>3. Owned(blk, fill, d, f, hw)
    BY <1>4 DEF S2mmDone, OwnershipInv, Owned, BlocksOwned, EngineKnown, TypeOK, Dmas, Flags
  <2>4. InStream(blk, fill, d, f, hw, air, nextSeq, nextOrder)
    BY DEF StreamInv, InStream, Sent, HeadOf, TypeOK, Dmas, Flags
  <2>5. /\ ReleaseIfDone(d, f) /\ Return
        /\ UNCHANGED <<air, nextSeq, accepted, total, lbPeer, lbLocked>>
    BY <1>4 DEF S2mmDone
  <2>6. LoopbackContiguous' /\ BackTo(lb') = Off(accepted, total, HeadOf(blk, dma, air))
    BY <1>4, <2>5, ReturnedNext DEF S2mmDone
  <2>7. Back(blk, d, air, lb', accepted, total)
    BY <2>6 DEF Back, HeadOf, TypeOK, Dmas
  <2> HIDE DEF d, f
  <2>8. Offsets(blk', accepted, total) /\ Back(blk', dma', air, lb', accepted, total)
    BY <2>1, <2>2, <2>3, <2>4, <2>5, <2>7, ReleaseBack DEF TypeOK, ReturnInv
  <2> QED
    BY <2>5, <2>6, <2>8 DEF ReturnInv, HasPeer
<1>5. CASE PollStart
  <2>1. UNCHANGED <<nextSeq, air, lb, accepted, total, lbPeer, lbLocked>>
    BY <1>5 DEF PollStart
  <2>2. Offsets(blk', accepted, total) /\ Back(blk', dma', air, lb, accepted, total)
    <3>1. CASE dma.fatal
      BY <1>5, <3>1 DEF PollStart, ReturnInv
    <3>2. CASE StartDma(blk, dma, irq)
      BY <3>2, StartDmaBack DEF TypeOK, OwnershipInv, StreamInv, ReturnInv
    <3> QED
      BY <1>5, <3>1, <3>2 DEF PollStart
  <2> QED
    BY <2>1, <2>2 DEF ReturnInv, LoopbackContiguous, HasPeer
<1>6. CASE TxDone
  <2> DEFINE d == [dma EXCEPT !.busy = FALSE]
             f == [irq EXCEPT !.txDone = FALSE]
  <2>1. d \in Dmas /\ f \in Flags /\ ~d.fatal
    BY <1>6 DEF TxDone, OwnershipInv, TypeOK, Dmas, Flags
  <2>2. Owned(blk, fill, d, f, hw)
    BY <1>6 DEF TxDone, OwnershipInv, Owned, BlocksOwned, EngineKnown, TypeOK, Dmas, Flags
  <2>3. InStream(blk, fill, d, f, hw, air, nextSeq, nextOrder)
    BY <1>6 DEF TxDone, StreamInv, InStream, Sent, HeadOf, TypeOK, Dmas, Flags
  <2>4. ReleaseIfDone(d, f) /\ UNCHANGED <<air, nextSeq, lb, accepted, total, lbPeer, lbLocked>>
    BY <1>6 DEF TxDone
  <2>5. Back(blk, d, air, lb, accepted, total)
    BY DEF ReturnInv, Back, HeadOf, TypeOK, Dmas
  <2> HIDE DEF d, f
  <2>6. Offsets(blk', accepted, total) /\ Back(blk', dma', air, lb, accepted, total)
    BY <2>1, <2>2, <2>3, <2>4, <2>5, ReleaseBack DEF TypeOK, ReturnInv
  <2> QED
    BY <2>4, <2>6 DEF ReturnInv, LoopbackContiguous, HasPeer
<1> QED
  BY <1>1, <1>2, <1>3, <1>4, <1>5, <1>6 DEF MainLoop

(* An interrupt moves no block; the one that finishes MM2S moves the air    *)
(* while its block is being sent.                                           *)
LEMMA HardwareBack ==
  ASSUME TypeOK, OwnershipInv, ReturnInv, Hardware
  PROVE  ReturnInv'
<1>1. UNCHANGED <<blk, dma, nextSeq, lb, accepted, total, lbPeer, lbLocked>>
  BY DEF Hardware, TxIoc, TxErrIrq, RxIoc, RxErrIrq, IrqFrame, streamVars, aggVars, peerVars
<1>2. ~dma.fatal => HeadOf(blk, dma, air') = HeadOf(blk, dma, air)
  <2>1. CASE TxIoc
    <3>1. hw.tx \in Block /\ (~dma.fatal => dma.blk = hw.tx)
      BY <2>1 DEF TxIoc, TypeOK, Hws, OwnershipInv, Owned, EngineKnown, BlocksOwned
    <3> QED
      BY <3>1 DEF HeadOf, Block, None
  <2>2. CASE TxErrIrq \/ RxIoc \/ RxErrIrq
    BY <2>2 DEF TxErrIrq, RxIoc, RxErrIrq
  <2> QED
    BY <2>1, <2>2 DEF Hardware
<1> QED
  BY <1>1, <1>2 DEF ReturnInv, LoopbackContiguous, HasPeer, Back

(* The invariant of the returned stream is inductive relative to the ones   *)
(* before.                                                                  *)
LEMMA ReturnStep ==
  TypeOK /\ OwnershipInv /\ StreamInv /\ CountInv /\ ReturnInv /\ [Next]_vars => ReturnInv'
<1> SUFFICES ASSUME TypeOK, OwnershipInv, StreamInv, CountInv, ReturnInv, [Next]_vars PROVE ReturnInv'
  OBVIOUS
<1>1. CASE UNCHANGED vars
  BY <1>1 DEF vars, streamVars, aggVars, dmaVars, peerVars, ghostVars, ReturnInv, LoopbackContiguous, HasPeer
<1> QED
  BY <1>1, MainLoopBack, HardwareBack, ReceiveBack DEF Next

(* The returned stream: the blocks given to net_loopback_return_udp         *)
(* continue each other from the first byte of the session on, each with a   *)
(* peer to return to, whichever of the two channels finishes first; and of  *)
(* a block whose return fails half-way a beginning was sent, while the next *)
(* one goes out from its own first byte.                                    *)
THEOREM ReturnedInOrder == Spec => []LoopbackContiguous
<1>1. ReturnInv => LoopbackContiguous
  BY DEF ReturnInv
<1> QED
  BY <1>1, ReturnInit, ReturnStep, TypeCorrect, OwnershipHolds, StreamHolds, AcceptedCounted, PTL DEF Spec
=================================================================================
