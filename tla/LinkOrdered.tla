----------------------------- MODULE LinkOrdered -----------------------------
(* The link the tools are made for: one Ethernet cable between the PC and   *)
(* the board (README: 192.168.1.10 and .50).  Packets and acknowledgements  *)
(* are lost, in buffers that are full too, but not repeated nor reordered.  *)
(* It uses the steps and the variables of Link with queues for the sets,    *)
(* and no refusal is invented: each one was sent by the board.              *)
EXTENDS Link

CONSTANT MaxQueue   \* bound: packets under way in a direction; a full queue loses more

OrderedInit ==
  /\ SenderInit /\ Board!Init
  /\ toBoard = <<>> /\ toHost = <<>>
  /\ content = <<>> /\ reached = [t \in Transfers |-> 0]

(* Every packet is queued or lost by itself. *)
Queue(q, packets) == {q} \cup (IF Len(q \o packets) <= MaxQueue THEN {q \o packets} ELSE {})

OrderedSend ==
  /\ Local
  /\ toBoard' \in Queue(toBoard, sent')
  /\ UNCHANGED <<boardVars, toHost, histVars>>

OrderedRead ==
  /\ toHost # <<>>
  /\ toHost' = Tail(toHost)
  /\ IF Open(Head(toHost).to)
     THEN Take(Head(toHost))
     ELSE UNCHANGED senderVars
  /\ UNCHANGED <<boardVars, toBoard, histVars>>

(* An acknowledgement of the coalescer may be lost while the one behind it  *)
(* arrives.                                                                 *)
Answer(q, answers) ==
  Queue(q, answers) \cup Queue(q, SubSeq(answers, 2, Len(answers)))
    \cup Queue(q, SubSeq(answers, 1, Len(answers) - 1))

OrderedBoard ==
  /\ \/ /\ toBoard # <<>> /\ toBoard' = Tail(toBoard)
        /\ BoardReset(Head(toBoard)) \/ BoardData(Head(toBoard))
     \/ /\ Board!Flush \/ Board!Internal
        /\ UNCHANGED <<content, toBoard>>
  /\ toHost' \in Answer(toHost, out')
  /\ Reach
  /\ UNCHANGED senderVars

OrderedNext == OrderedSend \/ OrderedRead \/ OrderedBoard

OrderedSpec == OrderedInit /\ [][OrderedNext]_linkVars

(* The worker thread runs until its transfer ends and reads the socket when *)
(* something is there; a deadline it polls comes.  Nothing is assumed of    *)
(* the network, of the board or of the user.                                *)
Drive ==
  /\ SendReset \/ ResetGivenUp \/ ResetTimeout \/ SendNext \/ Stop \/ Filled \/ Finish
       \/ NothingDue \/ Resend \/ RetriesExhausted
  /\ OrderedSend

Drain == Drained /\ toHost = <<>> /\ OrderedSend

Repeat == (Resend \/ RetriesExhausted) /\ OrderedSend

OrderedFairSpec ==
  /\ OrderedSpec
  /\ WF_linkVars(Drive) /\ WF_linkVars(Drain) /\ WF_linkVars(OrderedRead)
  /\ SF_linkVars(Repeat)

-----------------------------------------------------------------------------
(* Properties *)

(* While a transfer runs the board is in its session and holds every chunk  *)
(* the sender counts as acked, and none it did not send: no RESET, repeated *)
(* for a lost OK or left over from an earlier transfer, takes effect behind *)
(* the sender's back, even when random.randint gives two transfers the same *)
(* session.                                                                 *)
AckedIsHeld ==
  stage \in {"fill", "drain", "retry", "done"} =>
    /\ bSession = sess
    /\ base <= nextSeq /\ nextSeq <= next
    /\ \A i \in DOMAIN content : content[i] = transfer

(* Every transfer ends, with an answer from the board or without: a chunk   *)
(* that is never acked uses up its retries, and stop() is noticed.          *)
TransferEnds == stage \notin Ended ~> stage \in Ended
=============================================================================
