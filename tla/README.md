# Verification of the PS-side link of ZYNQ_AD9361_OFDM

This directory holds TLA+ models of the software that moves a file from a PC
through the ZYNQ board to the OFDM transmitter and back, the configurations
with which TLC checks them, and proofs checked by TLAPS. Paths below are
relative to the repository root, `N` stands for
`AD9361_test2/src/drivers/net/net_rx.c`, `DMA` for
`AD9361_test2/src/drivers/dma/AXI_DMA.c`; `SC`, `RC`, `VR` and `GUI` stand for
`sender_core.py`, `receiver_core.py`, `video_receiver_core.py` and
`receiver_gui.py` in `AD9361_test2/tools/pc_sender/`.

## The system

    PC sender  --UDP data/RESET-->  board callback --blocks--> DMA MM2S --> PL / OFDM TX
        ^---------- ACK ----------------'                                        | air
    PC receiver <--UDP loopback---  board poll     <---------- DMA S2MM <-- PL / OFDM RX
        '----------- RXCFG ----------------^

| Part | State it keeps | Operations | What is hard |
|---|---|---|---|
| Board receive pipeline (`N`) | session, next expected chunk, history ring, aggregation blocks, pending OK, DMA bookkeeping, loopback peer | UDP callback, aggregation and ACK timers, S2MM poll, MM2S poll | blocks shared with the DMA engine, two channels finishing in either order, coalesced cumulative ACKs, refusals half-way through a chunk, RESET in the middle of anything |
| DMA interrupt handlers (`DMA`) | `TxDone`, `RxDone`, `TxError`, `RxError` | TX and RX interrupt | pre-empt the main loop anywhere; an error of one channel resets both |
| Main loop (`app/main.c`, `net_init.c`) | none of its own | `Net_Poll` then `Net_RxPoll`, forever | what one turn sees of another |
| Board wire helpers (`net_protocol.c`) | none | header codecs, CRC, alignment | widths, wrap-around |
| PC sender (`SC`) | window, retries, adaptive window size, session | RESET handshake, plain and throughput loop, ACK handling, `stop()` | late, lost and repeated ACKs that name no session; retries against a board that is only slow |
| PC receiver (`RC`, `air_protocol.py`) | sparse file and its ranges, second file of AIR0 chunks, parse offset, metadata, counters of faults | registration, loopback packets, AIR0 and AIRV parsing with search after damage, save decision, `stop()` | loss, repetition, overlap, damage, data of several transfers mixed; late answers to a registration; a failing call anywhere must leave no temporary file |
| Realtime video assembler (`VR`) | frames under assembly, newest frame, counters | fragments, stale-frame drop, flush | late and missing fragments, a bounded window, exact counters |
| Preview (`GUI`, `video_playback.py`) | event queue, bounded queue of encoded frames, bounded queue of results, stop event, decoder | start, stop, overload, decode | two threads on bounded queues; a worker that outlives its session and shares the next one's queue |
| H.264 splitter (`video_protocol.py`) | prefix, current frame, whether it has a picture | one turn of a loop per unit | which unit begins a picture; nothing may be lost at the end |
| Sender's window (`sender_gui.py`) | worker thread, event queue | start, stop | starts `UdpSender` and shows its events; not modelled |
| AD9361 driver, BSP, lwIP | vendor code | radio set-up, network stack, DMA driver | outside this project |

What makes each part correct:

* Board: the transmitter reads exactly the accepted chunks of the session, in
  order, once; a block has one owner; an OK is true when it leaves; a refusal
  changes nothing that was promised; after a fatal error nothing is pushed;
  a RESET finds idle hardware; what is accepted is eventually sent.
* Sender: the four records it keeps of its window agree; it never counts a
  chunk that the board did not accept; it always ends.
* Receiver: what it saves is one whole file, or a stream without a hole; what
  arrived whole is saved; damage costs only the packets it hits; it believes
  itself registered only if it is; every run ends, and leaves no temporary file.
* Video: just the frames that came whole are handed on, every other frame and
  every missing fragment is counted once; the preview decodes no frame whose
  predecessor it threw away; a stopped worker ends.
* Splitter: the frames are the stream, cut between pictures.

## Modules

| Module | What it is |
|---|---|
| `BoardRx` | The board: `N`, the two interrupt handlers and the order of the main loop. |
| `StreamPipe` | Abstract: chunks go in and come out, in order. `BoardRx` implements it (`PipeSpec`). |
| `Acceptor` | Abstract: the board as its host sees it, the answers without blocks, history or DMA. `BoardRx` implements it (`HostSpec`). |
| `Sender` | The PC sender: `UdpSender` with both of its loops. |
| `Link` | `Sender` and `Acceptor` over a network that loses, repeats and reorders. |
| `LinkOrdered` | The same over a cable that only loses. |
| `EndToEnd` | `Sender` and the complete `BoardRx` over a lossy cable. It implements `LinkOrdered` (`CableSpec`). |
| `WireWords` | Sequence numbers that wrap: `net_seq_before`, the history and the verdict on a chunk. |
| `Receiver` | The PC receiver: `LoopbackReceiver` and its thread. |
| `SparseRanges` | `SparseFileAssembler`: the merged list of ranges and `coverage()`. |
| `ByteSet` | Abstract: the bytes given to `write()` and those it says it has; each write adds just its own to both. `SparseRanges` implements it (`IsByteSet`). |
| `VideoRx` | `VideoStreamAssembler`. |
| `Preview` | The receiver's window: event queue, preview queue, worker threads, decoder. |
| `VideoPath` | `VideoRx` in the place of the receiver thread of `Preview`, which it implements (`PreviewHolds`). |
| `NalSplit` | The splitter that cuts an H.264 stream into frames. |
| `MCParts` | `WireWords`, `SparseRanges`, `NalSplit` and `Preview` side by side: they share nothing, and the initial state chooses the one that runs. |
| `MC...` | Constants for TLC, one `.cfg` per run. |
| `BoardRxProof`, `BoardStreamProof`, `BoardHostProof` | Proofs about `BoardRx`, each built on the one before. |
| `LinkProof` | Proofs about `Sender`, `Link` and `LinkOrdered`. |
| `EndToEndProof` | Proofs about `EndToEnd`, which join those about the board and the link. |
| `ReceiverProof`, `VideoPathProof` | Proofs about the modules they are named after. |
| `PartsProof` | Proofs about `WireWords`, `SparseRanges` and `NalSplit`. |

Operators whose name ends in `_Word` next to one without it
(`CanRelease_WhileTx` beside `CanRelease`) are seeded faults: no specification
uses them. Each was put in the place of the real operator to see that a
property notices it.

### BoardRx and the code

One action per early return of `net_udp_receive_callback`, in the order of the
code, and one per outcome of each function that `Net_RxPoll` calls. `pc` is the
function the main loop calls next. Interrupts (`TxIoc`, `TxErrIrq`, `RxIoc`,
`RxErrIrq`) are enabled whenever the engine runs, so they fall between any two
functions; the one place inside a function where it matters, between arming
S2MM and starting MM2S, is the choice in `RxErrIrq`. Every call a handler makes
is part of its action: accepting a chunk includes opening a block, submitting
it when full and starting the DMA (`StartDma`); releasing a block includes
starting the next.

| Variable | Code |
|---|---|
| `session`, `crcOn` | `session_valid` and `current_session_id`, `current_session_validate_crc` |
| `nextSeq`, `total`, `hist`, `histHead` | `next_expected_seq`, `total_accepted_bytes`, `accepted_history`, its head index |
| `blk`, `fill`, `nextOrder` | `agg_blocks`, `fill_block_index`, `next_agg_submit_order` |
| `dma` | `dma_busy`, `dma_block_index`, `dma_fatal_error`, `loopback_rx_busy`, `loopback_rx_done_for_current` |
| `irq` | the flags of the interrupt handlers |
| `hw` | the engine itself: the block MM2S reads, whether S2MM is armed (external) |
| `pend`, `out` | `pending_ok_ack_*`, the ACK packets of the step |
| `lbPeer`, `lbLocked` | `loopback_return_*` |
| `accepted`, `air`, `lb`, `epoch` | history only, no step depends on it |

Abstractions. A buffer's content is the list of chunk numbers in it. Elapsed
time is a choice: a polled timer has run out or not. Statuses of the DMA driver
are answers it may give at any call. `net_configure_tx_frame` cannot fail for
the lengths that are submitted; its failure would do what `S2mmRefused` does.
Of a returned block `lb` keeps where it lies in the stream and to whom it goes,
and of the last one how much left: it goes out in packets of `LbBytes`, and one
that cannot be allocated or sent ends the return of its block for good
(`N:619`, `N:635`), which `Leaving` chooses. Ids, headers and the order of the
packets within a block are left out. `DataDamaged` is a chunk refused after
`net_ensure_fill_block`, because it could not be copied in full or its checksum
is wrong. Sequence numbers do not wrap (a session would need 2^31 chunks).
`MaxSeq` and `MaxResets` bound TLC's inputs, nothing else.

### Sender and the code

`stage` is the place in the loop: `reset`/`await` in `_begin_new_session`,
`fill` the inner loop that sends, `drain` reading the socket, `retry` the test
of the oldest deadline. `UdpSender.send` and `_send_throughput` differ in two
things, which `mode` tells apart: the plain loop reads one packet per turn and
keeps its window; the throughput loop empties the socket and adapts
(`Adapt`). A deadline is `due` when the code has pulled it to the present,
otherwise it may have come whenever the code looks. `outst` maps an outstanding
chunk to its attempts, `due` and `blocked_by_gap`; statistics, pacing and
callbacks are left out. Each handshake and transfer has a socket of its own,
as in the code, so an ACK to an older one is lost.

### The links

`Link` keeps the set of everything ever sent; anything in it may arrive at any
time, any number of times. Refusals may even be read without being sent: that
is more than the network does and needs no state. `LinkOrdered` and `EndToEnd`
use queues: the README's set-up is one cable between `192.168.1.10` and
`192.168.1.50`, which loses (checksums, full buffers) but keeps the order. What
is lost is lost when it is queued. Of a refusal and the OK that left in front of
it either may be lost.

`EndToEnd` is `LinkOrdered` with `BoardRx` in the place of `Acceptor`. It keeps
the two history variables of `Link`, `content` and `reached`, which no step
depends on, and only what the sender reads of an answer: the length an ACK
reports is unpacked and dropped (`SC:691`) or shown (`SC:812`), never acted on.

### Receiver and the code

Offsets count cells: a packet is its magic word, the rest of its header and its
payload, three cells, and a datagram carries `UdpCells` of them, so packets and
datagrams do not line up. `raw` says which transfer each cell of the sparse file
came from; the fragments carry no session, so two transfers may mix. A damaged
cell is one the radio got wrong: a magic word not recognised, a checksum that
fails. `phase` is the place of `run()`; `stop()` is called by another thread and
falls between any two steps.

| Variable | Code |
|---|---|
| `attempts`, `registered` | `register_attempts`, `register_ok` |
| `raw`, `file` | `_raw_assembler`, `_file_assembler` (their ranges are `SparseRanges`) |
| `mode` | `_air_checked`, `_air_mode`, `_airv_mode` |
| `pos`, `meta`, `seen`, `gotLast`, `flaws` | `_air_parse_offset` and `_airv_parse_offset`, `_air_meta`, `_air_received_seqs`, `air_got_last`, the counters `air_bad_*` |
| `heard`, `stop`, `incomplete` | `last_payload_time`, `_stop_requested`, `incomplete_reason` |
| `temps`, `saved` | the temporary files, the output file |
| `cfg`, `acks`, `peer`, `wire`, `damaged`, `begun` | RXCFG exchange, board, network and radio (external) |

`Parse` has one action per way through a turn of the parser's loop: too little
data, search for the next magic word, header wrong, payload not there yet,
packet of another file, payload damaged, packet taken. `Decide` is
`_save_if_ready`: save, save fails, give up with a reason, go on. A refused
registration, one without answer, a datagram that cannot be written
(`WriteFails`), a failing socket call and a file the parser cannot read or write
(`CallFails`) lead to `Fail`, which discards what was not saved.

### Video and the code

`VideoRx` takes the fragments in the order the parser reaches them, each once;
any header may be lost (`LoseFragment`) and any payload damaged
(`TakeFragment(FALSE)`). `Stale` is `_drop_stale_frames`, `Flush` is
`flush_missing`. The consistency checks between fragments of one frame pass,
because the fragments are those of one stream.

`Preview` has a step for each call on a `queue.Queue`: the GUI thread clears the
full queue one `get_nowait` at a time, and a worker may take a frame in between.
`session` counts starts; the queue, the stop event and the decoder are read from
attributes that a restart replaces, so a worker that outlived `join(0.2)` uses
those of the next session. `Decode` lets the codec give a picture, none, or
raise; the counting of errors and the wait for a keyframe follow
`VideoPreviewDecoder`. In `VideoPath` a start of the receiver makes a new
assembler, a completed frame is the event the GUI thread finds, and the end of
`run()` flushes and emits "done".

`NalSplit` reads one unit per step: a picture's first or a further slice, an
access unit delimiter or a parameter set. `ByAud` is the loop of
`_iter_frames_by_aud`, `BySlice` the loop for streams without delimiters, `End`
what is yielded after either.

`WireWords` keeps beside each word the number it stands for, which the
properties compare with the verdict on the word. `SparseRanges` keeps beside
the list the set of bytes written.

## Runs

| Run | Instance | Shows |
|---|---|---|
| `board_stream` | 1 host, 2 blocks of 2 bytes, chunks of 1 and 2 bytes, 4 chunks, returned in packets of 1 byte, 1 RESET after the first state | `TypeOK`; `BlockOwnership`; `AirIsPrefix`; `NothingLost`; `OkLengthRemembered`; `BusyMeansFull`; `LoopbackContiguous`; `FatalIsFinal`; `StartsOnIdleChannels`; `PipeSpec` |
| `board_sessions` | 2 hosts (symmetric), 2 session ids, 2 RESETs, history of 1, 1 block of 3 bytes | `OkIsTrue`; `RefusalsFlushOk`; `SessionStartsQuiet`; `HostSpec` |
| `link` | 2 transfers of 2 chunks with different sessions, worst network, any refusals, both loops | `WindowIsInterval`; `WindowBounded`; `AckedWasAccepted` |
| `link_ordered` | 2 transfers of 2 chunks with the same session id, a cable that loses, fairness | `AckedIsHeld`; `TransferEnds` |
| `end_to_end` | 2 chunks, 1 block, the last chunk in a block that may never fill, fairness | `AckedIsOnItsWay`; `CableSpec`; `DoneReachesAir` |
| `receiver` | registration with a stranger's answer, 2 AIR0 files of 3 and 2 packets, 1 damaged cell, duplicates, fairness | `ChecksFindTheFile`; `RegisteredIsPeer`; `TempFilesGone`; `WholeIsSaved`; `RunEnds` |
| `receiver_damage` | an AIR0 file of 4 packets, an AIRV packet behind it, any 2 cells damaged, searches of 7 cells | `PassedMeansTaken`; `RawSaveIsWhole` |
| `video` | 5 frames, 3 of them of two fragments, keyframes 1 and 5, window of 1, preview queue of 2, result queue of 1, a decoder that fails | `CountsExact`; `ShownIffWhole`; `QueueIsChain`; `PreviewHolds` |
| `parts` | words of 8 values and 18 chunks; 9 bytes; streams of up to 7 units; 2 starts of the preview, fairness | `VerdictIsRight`; `CoverageExact`; `IsByteSet`; `FramesAreTheStream`; `FrameIsPicture`; `StopEndsWorker`; `QueuedIsDecoded` |
| `busy_aborts` | as `end_to_end`, 3 chunks | `BusyOnlySlows` is violated, see below |
| `receiver_hole` | an AIRV stream of 4 packets, one datagram lost | `ArrivedIsTaken` is violated |
| `preview_clear` | 5 frames, preview queue of 2 | `ChainKept` is violated |

Why the bounds are enough.

* Board. Blocks of two bytes with chunks of one and two make all three cases of
  `net_ensure_fill_block`: it fits, it fits exactly, it does not fit and closes
  a block that is not full. Two blocks make one queued behind one being sent, an
  order of submission different from the order of the indices, and both
  exhausted; more blocks add queue length only. Four chunks wrap a ring of depth
  2 twice. Two hosts and two sessions give every kind of stranger;
  `CoalesceCount = 2` gives an OK that waits and one that completes the count.
  The proofs do away with these bounds for what they cover.
* Links. Two chunks suffice for an OK that completes more than the chunk it
  names, two transfers for an ACK that belongs to an older one. The view of
  `link` leaves out only what the last step emitted, which no step and no
  property of the run reads. `end_to_end` runs one transfer: what a second adds
  is in `link_ordered`, and that `EndToEnd` implements it is proved.
* Receiver. Datagrams of five or four cells end inside packets, so that a hole
  cuts headers and payloads. Two files of different length leave a tail of the
  longer behind the shorter. A search of `ScanCells = 7` cells sees two magic
  words ahead, so that it gets past a damaged one: with the magic word
  of the second, third or fourth packet damaged, or those of the second and the
  fourth, the premise `SearchReaches` of `PassedMeansTaken` holds and the parser
  has to find back. Two damaged magic words in a row it does not see across;
  `SearchReaches` excludes them. Without its first word the file is taken for
  raw data, which is what `RawSaveIsWhole` is about.
* Video. With a window of one, a frame that loses a fragment is dropped by the
  frame after the next; three frames of two fragments have one late, one open
  and one complete at a time. A queue of two has an order, and the third frame
  finds it full when the worker is slow; with the keyframe last of five a cleared
  queue starts again. The view of `video` leaves out only what no step and no
  property of the run reads: which frames the decoder was given and which results
  wait, the frame that found the queue full once it is cleared, and `waiting` of
  the assembler.
* Parts. Eight words wrap twice over 18 chunks; chunks up to `Span = 3` away
  arrive, more than the history of 2 remembers. Nine bytes leave room for
  five ranges, which one write may merge. Seven units make three pictures with their
  parameter sets.

`MaxSeq`, `MaxResets`, `MaxDamage`, `MaxPackets`, `NumSessions`, `MaxChunks`,
`Size` and `MaxNals` bound TLC's inputs, nothing else. Deadlock is off where the
model really stops: after the last transfer, at the end of the file or stream.

### Fairness

* `LinkOrdered!OrderedFairSpec`: weak fairness of the sender's thread, of
  finding the socket empty when it is and of reading it when it is not, and
  strong fairness of the retry, since a deadline polled forever passes.
* `EndToEnd!EndFairSpec`: the board's main loop turns (it never blocks: the
  number of packets per `Net_Poll` is limited, `net_init.c:58`), and its
  aggregation timer, polled for ever, is found elapsed. Nothing is assumed of network, DMA
  or interrupts: `DoneReachesAir` says in its premise that the engine keeps
  becoming idle, because the code has no timeout for S2MM (`N:837`): one frame
  lost on the air stops the pipeline, and RESET is then answered BUSY. That is
  what the code does, and no property of this project would notice it.
* `Receiver!FairSpec`: the thread runs, a socket without an answer times out;
  silence comes, because a datagram is not repeated for ever. Nothing is assumed
  of network, board or user.
* `MCParts` for the preview: the GUI thread and every worker thread run, a
  decode returns and a `get` that finds nothing times out. Nothing is assumed of
  the receiver.

### Disagreements between README and code

Three that a run shows:

* README:358 says of PENDING and BUSY that both affect only the speed.
  `busy_aborts` shows a transfer that ends with "exceeded retry limit" on a
  BUSY: the sender repeats a chunk after a timeout, its last attempt is answered
  BUSY by a board whose one block is on its way to the transmitter, and
  `_process_ack` (`SC:917`) raises. Each BUSY costs an attempt, so `retries`
  (200 by default) times the pause is the longest back-pressure a transfer
  survives.
* README:513 says that a realtime frame whose fragments are all there is
  assembled. `receiver_hole` shows that after one lost datagram none is: the
  parser (`RC:706`) reads the gapless front of the sparse file only, and a hole
  is never filled.
* README:515 says that only a really full preview queue is cleared and that the
  reference chain is kept. `preview_clear` shows the worker taking a frame from
  the middle while the GUI thread clears the queue (`GUI:623`) and decoding it
  without the ones before it.

Some more were seen while modelling and have no run of their own; the properties
are stated so that they hold of the code as it is:

* README:599 has the receiver finish after silence. While the first cell is
  missing `_save_if_ready` has no reason to give and the receiver waits on
  (`RC:902`); `RunEnds` therefore starts from a header or from `stop()`.
* README:604: data of an earlier transfer that arrives first fixes the metadata
  (`RC:582`), and the next file, whole as it is, is refused; `WholeIsSaved` is
  about the first transfer.
* README:513: a dropped frame does not make the preview wait for a keyframe; the
  assembler's flag (`VR:93`) only counts.
* README:604 counts as missing what was not received. A search that finds no
  magic word in its 4096 bytes goes on three bytes before the end of what is
  contiguous (`RC:650`, `RC:715`): when a lost datagram is repeated late and
  more than 4096 bytes become contiguous at once, intact packets that did arrive
  are skipped and counted as missing. `PassedMeansTaken` is about damage that no
  search meets so (`SearchReaches`).
* README:327 calls `stream_offset` the offset in the stream; it is cut to 32
  bits (`N:481`) and starts over after 4 GiB.

## Proofs

For all values of the constants allowed by the `ASSUME`s.

`BoardRxProof`: `TypeCorrect`, the types with the limits the code relies on (no
block overruns its buffer, the ring index stays in the ring, fewer than
`CoalesceCount` OKs wait). `TypeOK` is inductive; the lemmas go through the
helpers `StartDma`, `ReleaseIfDone`, `Written` that many actions share.

In the same module, `BlocksKeepOwner`, `StartsAreClean`, `SessionsStartClean`,
`FatalForEver`. `BlockOwnership` is not inductive: that the engine reads no
block it should not depends on how the bookkeeping flags relate to the engine,
for instance that `dma_busy` is set as long as MM2S runs or its flag is raised.
`OwnershipInv` is that relation; the RESET guard and `CanStart` look at the
flags only, and it is what turns them into facts about the hardware.

`BoardStreamProof`: `AirInOrder`, `AcceptedIsHeld`. `StreamInv` says where each
accepted chunk is: the transmitter's part, the block being sent, the ready
blocks by submit order and the filling block are consecutive intervals of
chunk numbers. That order is what makes "smallest submit order first" send the
stream in order.

In the same module `BoardIsPipe`, the refinement of `StreamPipe`. The mapping
reads the chunks taken off `accepted` and those given off `air`; each step
accepts a chunk, forgets a session or keeps what was accepted
(`StepMaps`), and `AirIsPrefix` makes a finished MM2S transfer a `Give`. And
`ReturnedInOrder`: offset and length of a block in use are those of
its interval of the stream (`Offsets`), so the blocks given to
`net_loopback_return_udp`, which end where the block on its way back begins
(`Back`), continue with it whichever channel finishes first. A peer is known as
soon as a chunk was accepted (`HasPeer`), so none is dropped for want of one.
What a failing packet costs is the rest of its own block (`Leaving`).

`BoardHostProof`: `BoardIsAcceptor`, the refinement of `Acceptor`, from the
invariant that the history ring names only accepted chunks (`HistInv`). It is
what entitles `Link` to use `Acceptor` for the board. In the same module what
the answers claim: `OkNeverLies`, `OkBeforeRefusal`, `BusyIsFull`, and
`OkLengthHolds`, that an OK reports the accepted length. The last follows from
`LenInv`: a slot of the ring as old as k holds the k-th chunk back from the
newest, with its length (`RingInv`), and the pending OK has that of its chunk.

`LinkProof`, the sender alone: `SenderTyped`, `NoChunkForgotten`, `WindowStaysOpen`,
`RetriesStayBounded`, from `SenderInv`: outstanding is the interval from base
to next. It is inductive because an OK completes a prefix of the window,
whichever OK it is.

`LinkProof`, the worst network: `AckedMeansAccepted`. An ACK names no session;
what ties it to a transfer is the socket it is addressed to. `LinkInv` says so:
every OK under way or held back to the data socket of a transfer was earned by
that transfer (`Kept`), and the board's chunks are those of the one transfer in
whose session it is (`OneTransfer`). The theorem assumes `SessionsDiffer`, that
no session id is drawn twice. The code draws them at random from 13 bits; when
two agree, a network that delays data of the first transfer past the RESET of
the second lets the board take it for the second's.

`LinkProof`, the cable: `OrderHolds`, `CountedWereSent`, `AckedStaysHeld`, and
here session ids may repeat. `OrderedInv` says that the packets under way are
in the order of their transfers, the RESETs of one before its data (`InOrder`);
that once the handshake has succeeded or its OK is under way the board is in
this session and nothing of an earlier transfer can reach it any more
(`Confirmed`, `InSession`); and that the board sees no data of it before (`OnlyData`,
`Fresh`). `NotAhead` adds that the board counts no chunk that was
not sent, which a RESET that takes effect late would spoil.

`EndToEndProof`: `EndIsBoard`, `EndIsCable`, `AckedReachesAir`. The parameters
of the two proofs are met (`BoardParams`, `CabParams`), and the invariants of
board and link are shown together, because each needs the other: a packet the
board is given is in its range because the link says what is under way
(`FrontPacket`), and an answer the sender reads is one of `Acceptor` because the
board is typed. The steps map by the lemmas of `BoardHostProof`, packet by
packet. Then both invariants hold of the whole, and `AckedIsHeld` of the link
(acked is counted by the board) and `NothingLost` of the board (counted is in
the air or in exactly one block) join to `AckedIsOnItsWay`. `SameBoard`,
`SameLink` and `SameHost` only tell the prover that instances with the same
parameters are the same.

`ReceiverProof`: `ReceiverTyped`, `RegisteredMeansPeer`, `ChecksSuffice`,
`NoTempFileStays`, `RawSavedWhole`, `PassedIsTaken`, for any number of transfers of any length,
any damage and any network. `ReceiverTypeOK` says in addition that everything
before the parse offset was received, without which the parser would read holes.
`RegisteredIsPeer` follows from `RegInv`: a positive answer of mine is under way
only if the board took the address. `ChecksFindTheFile` follows from the
invariant that every chunk in the file is of the transfer in `meta`, so that
full coverage leaves nothing for the checksum of the file to find. `EndInv`
relates the temporary files to the place of `run()` and to `saved`, `RawInv` says
that what was saved was gapless and everything. `PassedIsTaken` needs more than
where the parser is: damage puts it off the packet grid, and it must find back
before the next intact packet. `PassInv` says that each intact packet is either
taken or still ahead of the parser (`AheadOrTaken`); that a
search stops at the first intact magic word is a least element of a set of cells,
and that it reaches one is what `SearchReaches` assumes.

`VideoPathProof`: `CountsHold`, `WholeIsShown`, `PathIsPreview`,
`QueueHoldsChain`. `AssemblyInv` describes the open frames by the fragments read
so far (`Assembly`), keeps them in the window (`InWindow`) and counts every
frame in exactly one counter or as open (`Counters`), so what was handed on is
determined by what came (`ShownSoFar`). It also gives the refinement of
`Preview`: frames are handed on in order because an older one is never opened
again. `ChainInv` is about both threads: the events hold the frames in order
behind those handled (`EventsInOrder`), and the last frame of the queue is the
newest handled unless the preview waits for a key frame (`TipHeld`); without
them the next frame put could continue nothing.

`PartsProof`, the words: `SeqBeforeIsOrder`, the signed difference of two words is the
order of the numbers they stand for whenever these are less than half the words
apart; `WireTyped`; `VerdictAlwaysRight`, from the invariant that
`next_expected_seq` is the word of the number of accepted chunks. Its
assumptions, `Span < Half` and `Depth + Span < Word`, are what the window of the
sender and the depth of the history (128) must be against 2^31 and 2^32.

`PartsProof`, the sparse file: `RangesAreByteSet`, `CoverageIsExact`, for a file
of any size. The invariant is that the list is sorted and no two ranges touch
(`Ordered`) and holds the bytes written. In the refinement of `ByteSet` what was
given to `write()` is `written` and what is covered is read off the ranges, so
that a step must add the bytes of its own write to both. `AddRangeIs` shows that `_add_range`
keeps it: `bisect_left` divides such a list at the new start (`BeforeIs`), at
most one range before it is reached, and the loop behind it takes what starts no
later than the new range ends (`AbsorbIs`). `Grown` and `Covered` are the two
loops, a range at a time; that their recursions have the one solution these
proofs use (`GrownIs`, `CoveredIs`) is shown by the least place at which another
would differ. The pieces are counted by a bijection from the ranges
(`PiecesAre`).

`PartsProof`, the split: `StreamIsKept`, `FramesArePictures`, for streams of any
length. A unit closes the open frame, gathers what was spare, is spare or joins
the open frame (`UnitReads`), and the invariant is about the units held and
spare: each is in one place (`EachPlaced`); behind a delimiter nothing is spare,
so nothing is left over at the end (`OpenBehindDelimiter`); unless only some
pictures are delimited the open frame is the end of what was read
(`OpenIsLast`); `hasVcl` says whether it has a slice (`VclKnown`); and what it
and the closed frames hold is one picture with its parameter sets (`Pictures`).

`SenderTyped`, `RetriesStayBounded`, `CountedWereSent`, `EndIsBoard`,
`ReceiverTyped`, `WireTyped` and `SeqBeforeIsOrder` are proved and in no run.

Only model-checked is liveness, which is out of the prover's reach:
`TransferEnds`, `DoneReachesAir`, `WholeIsSaved`, `RunEnds`, `StopEndsWorker`,
`QueuedIsDecoded`.

## Not modelled

* The AD9361 driver, the board support package with lwIP and the Xilinx drivers,
  and the generated `ps7_init`: vendor and generated code. They are most of the
  repository's lines, so the share of all lines that the models translate is
  small although every part of the program's own logic above is in it. What
  `N` relies on from them is external in `BoardRx`.
* Register set-up of the interrupt controller and the timer; statistics, logs,
  charts, latency figures: no decision reads them.
* Header codecs and CRC: without state. A packet is a record, a checksum is
  right or wrong.
* The headers of the packets of one returned block: `BoardRx` keeps how much of
  it leaves, `Receiver` takes any pieces.
* `stream_offset` past 4 GiB, see above.
* The sender's window. One race of it is known: a Stop while the worker still
  loads the payload finds no sender to stop (`sender_gui.py:493`) and the
  transfer starts.
* Preparing a video source with ffmpeg: a subprocess.

The theorems that would come next: that the sets of bytes `Receiver` keeps may
be replaced by the lists of `SparseRanges`. `RangesAreByteSet` and
`CoverageIsExact` are the two halves of it; a module that joins them with the
receiver is not written.
