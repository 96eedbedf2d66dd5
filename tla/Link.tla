-------------------------------- MODULE Link --------------------------------
(* The sender and the board over UDP as bad as it may be: a packet or an    *)
(* acknowledgement, once sent, may arrive at any later time, any number of  *)
(* times, in any order, or never; so the network is the set of what was     *)
(* sent.  The board is Acceptor, which BoardRx implements.                  *)
(*                                                                         *)
(* Refusals are not even kept: the sender may read any of them at any time. *)
(* What the model does keep are the OKs, on which the sender builds.        *)
EXTENDS Sender

CONSTANTS CoalesceCount

VARIABLES
  bSession,   \* the board's current_session_id
  nextSeq,    \* the board's next_expected_seq
  pend,       \* the OK the board holds back
  halted,     \* dma_fatal_error
  out,        \* the answers of the board's last step
  toBoard,    \* packets sent so far
  toHost,     \* OKs sent so far
  content,    \* history: the transfers of the chunks the board accepted since the last RESET
  reached     \* history: reached[t] chunks of transfer t, from its first on, were accepted in a row

boardVars == <<bSession, nextSeq, pend, halted, out>>
netVars   == <<toBoard, toHost>>
histVars  == <<content, reached>>
linkVars  == <<senderVars, boardVars, netVars, histVars>>

Transfers == 1 .. MaxTransfers
Sockets   == Transfers \X {"reset", "data"}

Board == INSTANCE Acceptor
  WITH Peers     <- Sockets,
       NoPeer    <- <<0, "none">>,
       Sessions  <- UNION {SessionIds[t] : t \in Transfers},
       NoSession <- -1,
       Seqs      <- 0 .. Total - 1,
       session   <- bSession

LinkInit ==
  /\ SenderInit /\ Board!Init
  /\ toBoard = {} /\ toHost = {}
  /\ content = <<>> /\ reached = [t \in Transfers |-> 0]

Elements(s) == {s[i] : i \in DOMAIN s}

SenderStep ==
  /\ Local
  /\ toBoard' = toBoard \cup Elements(sent')
  /\ UNCHANGED <<boardVars, toHost, histVars>>

(* Each handshake and each transfer opens a socket; what is addressed to an *)
(* older one is lost.                                                       *)
Open(to) == IF stage = "await" THEN to = ResetSocket ELSE to = DataSocket

SenderReads ==
  /\ \/ \E a \in toHost : Open(a.to) /\ Take(a)
     \/ \E n \in 0 .. Total - 1, status \in Statuses \ {"OK"} : Take([seq |-> n, status |-> status])
  /\ UNCHANGED <<boardVars, netVars, histVars>>

Sends == toHost' = toHost \cup {a \in Elements(out') : a.status = "OK"}

InARow(t) == \A i \in DOMAIN content' : content'[i] = t

Reach == reached' = [t \in Transfers |->
                       IF InARow(t) /\ Len(content') > reached[t] THEN Len(content') ELSE reached[t]]

BoardReset(p) ==
  /\ p.kind = "reset"
  /\ \/ Board!Reset(p.from, p.sess) /\ content' = <<>>
     \/ Board!ResetRefused(p.from) /\ UNCHANGED content

BoardData(p) ==
  /\ p.kind = "data"
  /\ Board!Data(p.from, p.sess, p.seq)
  /\ content' = IF nextSeq' # nextSeq THEN Append(content, p.from[1]) ELSE content

BoardStep ==
  /\ \/ \E p \in toBoard : BoardReset(p) \/ BoardData(p)
     \/ (Board!Flush \/ Board!Internal) /\ UNCHANGED content
  /\ Sends /\ Reach
  /\ UNCHANGED <<senderVars, toBoard>>

LinkNext == SenderStep \/ SenderReads \/ BoardStep

LinkSpec == LinkInit /\ [][LinkNext]_linkVars

-----------------------------------------------------------------------------
(* Properties *)

(* README, cumulative OK: what the sender counts as acked was accepted by   *)
(* the board, from the first chunk on, without a chunk of another transfer  *)
(* in between, before any later RESET; a transfer reported done, all of it. *)
(* Late OKs of the session, of another one, coalesced or repeated, do not   *)
(* complete a chunk the board never had.                                    *)
AckedWasAccepted ==
  /\ transfer > 0 => base <= reached[transfer]
  /\ stage = "done" => reached[transfer] = Total
=============================================================================
