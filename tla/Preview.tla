------------------------------ MODULE Preview -------------------------------
(* The preview of realtime video in the receiver's user interface            *)
(* (tools/pc_sender/receiver_gui.py, video_playback.py): the receiver thread *)
(* puts assembled frames on an unbounded event queue; the GUI thread moves   *)
(* them to a bounded queue of encoded frames, from which a worker thread     *)
(* feeds the decoder and puts what comes out on a bounded queue of results,  *)
(* of which the GUI thread displays the newest.                              *)
(*                                                                           *)
(* Every call on a queue.Queue is a step of its own, so that the two threads *)
(* interleave between any two of them.  The worker reads the queue, the stop *)
(* event and the decoder from attributes that a restart replaces.            *)
(*                                                                           *)
(* An operator whose name ends in _Word, before the one it resembles, is a   *)
(* seeded fault that no specification uses.                                  *)
EXTENDS Integers, Sequences, FiniteSets

CONSTANTS
  NumFrames,     \* frames of all sessions
  KeyFrames,     \* those of type AIRV_FRAME_KEY
  QueueLimit,    \* PREVIEW_QUEUE_FRAMES
  ResultLimit,   \* PREVIEW_RESULT_QUEUE_FRAMES
  NumSessions,   \* bound: starts of the receiver
  Failures       \* the decoder may raise an exception

Frames   == 1 .. NumFrames
Sessions == 1 .. NumSessions
IsKey(f) == f \in KeyFrames

ASSUME PreviewAssumption ==
  /\ NumFrames \in Nat /\ KeyFrames \subseteq Frames
  /\ QueueLimit \in Nat \ {0} /\ ResultLimit \in Nat \ {0}
  /\ NumSessions \in Nat \ {0} /\ Failures \in BOOLEAN

VARIABLES
  session,    \* starts so far; also which decoder video_decoder is
  rx,         \* the receiver thread: "off", "on", "done"
  handed,     \* frames the receiver handed over in this session
  events,     \* event_queue; 0 is the "done" event
  gui,        \* the GUI thread: "free", "clear", "join"
  full,       \* the frame whose put found the queue full
  inputWait,  \* preview_waiting_input_keyframe
  queue,      \* preview_queue; 0 stands for the None that ends a worker
  stopEvent,  \* preview_stop_event
  pc, item,   \* a worker's place; its frame, whose session
  decoder,    \* waiting_keyframe, consecutive_errors, last frame of the codec
  fed,        \* calls of decode() on this session's decoder
  results     \* preview_result_queue: the frames they are of

guiVars     == <<gui, full, inputWait>>
workerVars  == <<pc, item, decoder, fed>>
previewVars == <<session, rx, handed, events, guiVars, queue, stopEvent, workerVars, results>>

Item(f, r) == [frame |-> f, reset |-> r]
None       == Item(0, FALSE)
Idle       == [frame |-> 0, of |-> 0]
NewDecoder == [waiting |-> TRUE, errors |-> 0, last |-> 0]

PreviewInit ==
  /\ session = 0 /\ rx = "off" /\ handed = {} /\ events = <<>>
  /\ gui = "free" /\ full = 0 /\ inputWait = FALSE
  /\ queue = <<>> /\ stopEvent = FALSE
  /\ pc = [s \in Sessions |-> "none"] /\ item = [s \in Sessions |-> Idle]
  /\ decoder = NewDecoder /\ fed = <<>> /\ results = <<>>

Room == Len(queue) < QueueLimit

WithoutHead == Tail(queue)

-----------------------------------------------------------------------------
(* The receiver thread *)

Emit(f) ==
  /\ rx = "on" /\ \A g \in handed : g < f
  /\ handed' = handed \cup {f} /\ events' = Append(events, f)
  /\ UNCHANGED <<session, rx, guiVars, queue, stopEvent, workerVars, results>>

EmitDone ==
  /\ rx = "on" /\ rx' = "done" /\ events' = Append(events, 0)
  /\ UNCHANGED <<session, handed, guiVars, queue, stopEvent, workerVars, results>>

-----------------------------------------------------------------------------
(* The GUI thread *)

NewStopEvent_Kept == stopEvent
NewStopEvent == FALSE

(* _start_receiver, with _reset_runtime_state and _start_preview_worker *)
Start ==
  /\ gui = "free" /\ rx = "off" /\ session < NumSessions
  /\ session' = session + 1 /\ rx' = "on" /\ handed' = {}
  /\ queue' = <<>> /\ results' = <<>> /\ stopEvent' = NewStopEvent
  /\ inputWait' = FALSE /\ decoder' = NewDecoder /\ fed' = <<>>
  /\ pc' = [pc EXCEPT ![session + 1] = "check"]
  /\ UNCHANGED <<events, gui, full, item>>

Handle(f) ==
  /\ gui = "free" /\ events # <<>> /\ Head(events) = f
  /\ events' = Tail(events)
  /\ UNCHANGED <<session, handed, workerVars, results>>

(* _handle_video_preview *)
DropInput(f) ==
  /\ Handle(f) /\ f # 0 /\ inputWait /\ ~IsKey(f)
  /\ UNCHANGED <<rx, guiVars, queue, stopEvent>>

PutInput(f) ==
  /\ Handle(f) /\ f # 0 /\ (inputWait => IsKey(f)) /\ Room
  /\ queue' = Append(queue, Item(f, inputWait)) /\ inputWait' = FALSE
  /\ UNCHANGED <<rx, gui, full, stopEvent>>

FindFull(f) ==
  /\ Handle(f) /\ f # 0 /\ (inputWait => IsKey(f)) /\ ~Room
  /\ gui' = "clear" /\ full' = f
  /\ UNCHANGED <<rx, inputWait, queue, stopEvent>>

(* _clear_preview_queue, one get_nowait at a time *)
ClearOne ==
  /\ gui = "clear" /\ queue # <<>>
  /\ queue' = WithoutHead
  /\ UNCHANGED <<session, rx, handed, events, guiVars, stopEvent, workerVars, results>>

WaitsAfterClear_Never == FALSE
WaitsAfterClear == ~IsKey(full)

ClearEnds ==
  /\ gui = "clear" /\ queue = <<>>
  /\ gui' = "free" /\ inputWait' = WaitsAfterClear
  /\ queue' = IF IsKey(full) THEN <<Item(full, TRUE)>> ELSE <<>>
  /\ UNCHANGED <<session, rx, handed, events, full, stopEvent, workerVars, results>>

(* _on_done, _stop_preview_worker: None is not put on a full queue. *)
StopWorker ==
  /\ Handle(0)
  /\ stopEvent' = TRUE /\ gui' = "join"
  /\ queue' = IF Room THEN Append(queue, None) ELSE queue
  /\ UNCHANGED <<rx, full, inputWait>>

(* join(timeout=0.2): only a decode takes longer. *)
Joined ==
  /\ gui = "join" /\ pc[session] \in {"over", "decode"}
  /\ gui' = "free" /\ rx' = "off"
  /\ UNCHANGED <<session, handed, events, full, inputWait, queue, stopEvent, workerVars, results>>

(* _drain_preview_result_queue: the newest is displayed, the rest let go. *)
Drain ==
  /\ gui = "free" /\ results # <<>> /\ results' = <<>>
  /\ UNCHANGED <<session, rx, handed, events, guiVars, queue, stopEvent, workerVars>>

Gui ==
  \/ \E f \in Frames : DropInput(f) \/ PutInput(f) \/ FindFull(f)
  \/ ClearOne \/ ClearEnds \/ StopWorker \/ Joined \/ Drain

-----------------------------------------------------------------------------
(* _preview_worker, the worker of session s *)

Goes(s, from, to) == pc[s] = from /\ pc' = [pc EXCEPT ![s] = to]

StopSeen_Never == FALSE
StopSeen == stopEvent

CheckStop(s) ==
  /\ Goes(s, "check", IF StopSeen THEN "over" ELSE "get")
  /\ UNCHANGED <<queue, item, decoder, fed, results>>

GetNone(s) ==
  /\ queue # <<>> /\ Head(queue) = None
  /\ queue' = WithoutHead /\ Goes(s, "get", "over")
  /\ UNCHANGED <<item, decoder, fed, results>>

(* reset_decoder: wait_for_keyframe, which opens a new codec *)
GetItem(s) ==
  /\ queue # <<>> /\ Head(queue) # None
  /\ queue' = WithoutHead /\ Goes(s, "get", "decode")
  /\ item' = [item EXCEPT ![s] = [frame |-> Head(queue).frame, of |-> session]]
  /\ decoder' = IF Head(queue).reset THEN NewDecoder ELSE decoder
  /\ UNCHANGED <<fed, results>>

GetTimesOut(s) ==
  /\ queue = <<>> /\ Goes(s, "get", "check")
  /\ UNCHANGED <<queue, item, decoder, fed, results>>

(* VideoPreviewDecoder.decode: the codec may give an image, none yet, or     *)
(* raise.  After an exception on a delta frame, or three in a row, a key     *)
(* frame is waited for.                                                      *)
Skips(f) == decoder.waiting /\ ~IsKey(f)
Broken(f, n) == ~IsKey(f) \/ n >= 3

Outcomes == {"image", "nothing"} \cup (IF Failures THEN {"error"} ELSE {})

Decoded(f, out) ==
  CASE Skips(f)        -> decoder
    [] out = "image"   -> [waiting |-> FALSE, errors |-> 0, last |-> f]
    [] out = "nothing" -> [waiting |-> FALSE, errors |-> decoder.errors, last |-> f]
    [] out = "error"   ->
         IF Broken(f, decoder.errors + 1)
         THEN [waiting |-> TRUE, errors |-> IF decoder.errors < 3 THEN decoder.errors + 1 ELSE 3,
               last |-> 0]
         ELSE [waiting |-> FALSE, errors |-> decoder.errors + 1, last |-> f]

Call(f) == [frame |-> f, skipped |-> Skips(f),
            after |-> IF IsKey(f) THEN 0 ELSE decoder.last]

Decode(s, out) ==
  /\ Goes(s, "decode", "put") /\ item[s].of = session
  /\ decoder' = Decoded(item[s].frame, out) /\ fed' = Append(fed, Call(item[s].frame))
  /\ UNCHANGED <<queue, item, results>>

(* The decoder of an earlier session: its state is of no more use. *)
DecodeLate(s) ==
  /\ Goes(s, "decode", "put") /\ item[s].of # session
  /\ UNCHANGED <<queue, item, decoder, fed, results>>

(* _put_preview_result: when the queue is full its oldest goes. *)
PutResult(s) ==
  /\ \/ /\ Len(results) < ResultLimit /\ Goes(s, "put", "check")
        /\ results' = Append(results, item[s].frame)
     \/ /\ Len(results) = ResultLimit /\ Goes(s, "put", "evict")
        /\ UNCHANGED results
  /\ UNCHANGED <<queue, item, decoder, fed>>

Rest == IF results = <<>> THEN <<>> ELSE Tail(results)

Evict(s) ==
  /\ Goes(s, "evict", "reput") /\ results' = Rest
  /\ UNCHANGED <<queue, item, decoder, fed>>

PutAgain(s) ==
  /\ Goes(s, "reput", "check")
  /\ results' = IF Len(results) < ResultLimit THEN Append(results, item[s].frame) ELSE results
  /\ UNCHANGED <<queue, item, decoder, fed>>

Worker(s) ==
  /\ \/ CheckStop(s) \/ GetNone(s) \/ GetItem(s) \/ GetTimesOut(s)
     \/ (\E out \in Outcomes : Decode(s, out)) \/ DecodeLate(s)
     \/ PutResult(s) \/ Evict(s) \/ PutAgain(s)
  /\ UNCHANGED <<session, rx, handed, events, guiVars, stopEvent>>

PreviewOwn == Start \/ EmitDone \/ Gui \/ \E s \in Sessions : Worker(s)

PreviewNext == PreviewOwn \/ \E f \in Frames : Emit(f)

PreviewSpec == PreviewInit /\ [][PreviewNext]_previewVars

(* Both threads run; the decoder returns, and a get that finds nothing times *)
(* out.                                                                      *)
PreviewFairness == WF_previewVars(Gui) /\ \A s \in Sessions : WF_previewVars(Worker(s))
PreviewFairSpec == PreviewSpec /\ PreviewFairness

-----------------------------------------------------------------------------
(* g is the frame handed over just before f. *)
Precedes(g, f) == g \in handed /\ g < f /\ \A h \in handed : h <= g \/ h >= f
First(f) == \A h \in handed : h >= f

(* Except while the GUI thread clears it, the queue never holds a delta      *)
(* frame whose predecessor the preview threw away: that is before it in the  *)
(* queue or a worker has it, however often the queue ran full.             *)
QueueIsChain ==
  gui # "clear" =>
    \A i \in 1 .. Len(queue) :
      queue[i] # None /\ ~IsKey(queue[i].frame) /\ ~First(queue[i].frame) =>
        IF i = 1 THEN \E s \in Sessions : item[s].of = session /\ Precedes(item[s].frame, queue[1].frame)
        ELSE Precedes(queue[i - 1].frame, queue[i].frame)

(* When the receiver is done its worker ends, also when the queue had no     *)
(* room for the None that tells it to; and so does one of an earlier session *)
(* that outlived its join.                                                   *)
StopEndsWorker ==
  (stopEvent /\ session = NumSessions) ~> \A s \in Sessions : pc[s] = "over"

(* While the receiver runs, in whichever session, a frame that reached the   *)
(* queue is decoded, unless the queue runs full and is cleared.              *)
Fed == {fed[i].frame : i \in 1 .. Len(fed)}
QueuedIsDecoded ==
  \A f \in Frames :
    (rx = "on" /\ \E i \in 1 .. Len(queue) : queue[i].frame = f)
      ~> (f \in Fed \/ rx # "on" \/ gui = "clear")

(* README: the chain of P frames is not skipped in; only a queue that is     *)
(* really full is cleared, and then the next key frame is waited for: a      *)
(* delta frame that is decoded follows the frame handed over before it.      *)
ChainKept ==
  \A i \in 1 .. Len(fed) :
    ~fed[i].skipped /\ ~IsKey(fed[i].frame) /\ ~First(fed[i].frame) =>
      Precedes(fed[i].after, fed[i].frame)
=============================================================================
