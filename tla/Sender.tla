------------------------------- MODULE Sender -------------------------------
(* The sending side on the PC (tools/pc_sender/sender_core.py): a RESET     *)
(* handshake, then a window of chunks that are acknowledged cumulatively    *)
(* and of which only the oldest is sent again.  UdpSender.send has two      *)
(* loops, the plain one and _send_throughput; they differ in when they read *)
(* the socket and in whether the window adapts, and are one model here.     *)
(*                                                                         *)
(* An action that takes an acknowledgement has it as a parameter; the       *)
(* packets a step sends are in sent.  Both are joined to a network in Link. *)
(* Time is abstract: a deadline lies in the future, where it may have come  *)
(* at any later step, or the code has pulled it to the present (due).       *)
(*                                                                         *)
(* An operator whose name ends in _Word, before the one it resembles, is a   *)
(* seeded fault that no specification uses.                                 *)
EXTENDS Integers, Sequences, FiniteSets

CONSTANTS
  Total,          \* chunks of a transfer
  Window,         \* config.window_size
  Retries,        \* config.retries
  ResetRetries,   \* max(config.retries, 3)
  Modes,          \* loops in use: subset of {"plain", "throughput"}
  MaxTransfers,   \* bound: transfers of one behaviour
  SessionIds      \* SessionIds[t]: what random.randint may give transfer t

ASSUME SenderAssumption ==
  /\ Total \in Nat
  /\ Window \in Nat \ {0}          \* _validate_config
  /\ Retries \in Nat
  /\ ResetRetries \in Nat
  /\ Modes \subseteq {"plain", "throughput"}
  /\ MaxTransfers \in Nat
  /\ \A t \in 1 .. MaxTransfers : SessionIds[t] \subseteq Nat

VARIABLES
  stage,      \* where the sender is
  transfer,   \* transfers begun
  mode,       \* config.throughput_mode
  sess,       \* session_id of this transfer
  tries,      \* RESETs sent in this handshake
  base,       \* base_seq
  next,       \* next_seq
  outst,      \* outstanding: attempts, retry_deadline (due), blocked_by_gap
  acked,      \* the set of seqs with acked[seq]
  win,        \* effective_window_size
  stable,     \* stable_ack_batches
  stop,       \* _stop_requested
  sent,       \* packets the last step sent
  got         \* status the last step processed for a chunk in the window

windowVars   == <<base, next, outst, acked, win, stable>>
transferVars == <<transfer, mode, sess>>
senderVars   == <<stage, transferVars, tries, windowVars, stop, sent, got>>

Ended  == {"idle", "done", "stopped", "failed"}
Stages == Ended \cup {"reset", "await", "fill", "drain", "retry"}

(* Each handshake and each transfer has a socket, hence a port, of its own. *)
ResetSocket == <<transfer, "reset">>
DataSocket  == <<transfer, "data">>
ResetPacket == [from |-> ResetSocket, kind |-> "reset", sess |-> sess, seq |-> 0]
DataPacket(n) == [from |-> DataSocket, kind |-> "data", sess |-> sess, seq |-> n]

Emit(packets) == sent' = packets /\ got' = "none"
Silent == Emit(<<>>)

SenderInit ==
  /\ stage = "idle" /\ transfer = 0 /\ mode = "plain" /\ sess = 0 /\ tries = 0
  /\ base = 0 /\ next = 0 /\ outst = <<>> /\ acked = {}
  /\ win = Window /\ stable = 0
  /\ stop = FALSE /\ sent = <<>> /\ got = "none"

(* A new UdpSender; send() starts with the handshake of _begin_new_session  *)
Begin(m, s) ==
  /\ stage \in Ended /\ transfer < MaxTransfers
  /\ stage' = "reset" /\ transfer' = transfer + 1 /\ mode' = m /\ sess' = s
  /\ tries' = 0
  /\ base' = 0 /\ next' = 0 /\ outst' = <<>> /\ acked' = {}
  /\ win' = Window /\ stable' = 0
  /\ stop' = FALSE
  /\ Silent

(* stop(), called from the GUI thread *)
RequestStop ==
  /\ stage \notin Ended /\ ~stop
  /\ stop' = TRUE
  /\ Silent
  /\ UNCHANGED <<stage, transferVars, tries, windowVars>>

-----------------------------------------------------------------------------
(* _begin_new_session *)

SendReset ==
  /\ stage = "reset" /\ tries <= ResetRetries
  /\ stage' = "await" /\ tries' = tries + 1
  /\ Emit(<<ResetPacket>>)
  /\ UNCHANGED <<transferVars, windowVars, stop>>

ResetGivenUp ==
  /\ stage = "reset" /\ tries > ResetRetries
  /\ stage' = "failed"
  /\ Silent
  /\ UNCHANGED <<transferVars, tries, windowVars, stop>>

ResetTimeout ==
  /\ stage = "await" /\ stage' = "reset"
  /\ Silent
  /\ UNCHANGED <<transferVars, tries, windowVars, stop>>

ResetOutcome_BusyIsOk(a) ==
  IF a.seq = 0 /\ a.status \in {"OK", "BUSY"} THEN "fill"
  ELSE IF a.seq = 0 /\ a.status = "DMA_ERROR" THEN "failed" ELSE "reset"

ResetOutcome(a) ==
  IF a.seq = 0 /\ a.status = "OK" THEN "fill"
  ELSE IF a.seq = 0 /\ a.status = "DMA_ERROR" THEN "failed" ELSE "reset"

ResetAnswer(a) ==
  /\ stage = "await" /\ stage' = ResetOutcome(a)
  /\ Silent
  /\ UNCHANGED <<transferVars, tries, windowVars, stop>>

-----------------------------------------------------------------------------
(* Filling the window *)

Limit == IF mode = "throughput" THEN win ELSE Window

HasRoom == next < Total /\ Cardinality(DOMAIN outst) < Limit

Extended(n) == [m \in DOMAIN outst \cup {n} |->
                  IF m = n THEN [tries |-> 1, due |-> FALSE, gap |-> FALSE] ELSE outst[m]]

AllAcked == base = Total

SendNext ==
  /\ stage = "fill" /\ ~AllAcked /\ HasRoom /\ ~stop
  /\ outst' = Extended(next) /\ next' = next + 1
  /\ Emit(<<DataPacket(next)>>)
  /\ UNCHANGED <<stage, transferVars, tries, base, acked, win, stable, stop>>

Stop ==
  /\ stage = "fill" /\ ~AllAcked /\ HasRoom /\ stop
  /\ stage' = "stopped"
  /\ Silent
  /\ UNCHANGED <<transferVars, tries, windowVars, stop>>

Filled ==
  /\ stage = "fill" /\ ~AllAcked /\ ~HasRoom
  /\ stage' = "drain"
  /\ Silent
  /\ UNCHANGED <<transferVars, tries, windowVars, stop>>

Finish ==
  /\ stage = "fill" /\ AllAcked
  /\ stage' = "done"
  /\ Silent
  /\ UNCHANGED <<transferVars, tries, windowVars, stop>>

-----------------------------------------------------------------------------
(* Taking an acknowledgement (_process_ack and its copy in send).  The      *)
(* throughput loop drains the socket, the plain one reads one packet.       *)

Oldest(S) == CHOOSE n \in S : \A m \in S : n <= m

AckTaken(status) ==
  /\ stage = "drain"
  /\ sent' = <<>> /\ got' = status
  /\ UNCHANGED <<transferVars, tries, next, stop>>

AfterAck == stage' = IF mode = "throughput" THEN "drain" ELSE "fill"

Halved_ToZero == win \div 2
Halved == IF win \div 2 > 1 THEN win \div 2 ELSE 1

(* the throughput loop on a status, when completed chunks became acked      *)
Adapt(status, completed) ==
  IF mode = "plain" THEN UNCHANGED <<win, stable>>
  ELSE CASE status = "BUSY" -> win' = Halved /\ stable' = 0
         [] status = "PENDING" -> win' = (IF win > 1 THEN win - 1 ELSE win) /\ stable' = 0
         [] status \notin {"BUSY", "PENDING"} /\ completed # {} ->
              IF stable + 1 >= win /\ win < Window
              THEN win' = win + 1 /\ stable' = 0
              ELSE win' = win /\ stable' = stable + 1
         [] OTHER -> UNCHANGED <<win, stable>>

IgnoreAck(a) ==
  /\ a.seq \notin DOMAIN outst
  /\ AckTaken("none") /\ AfterAck
  /\ Adapt(a.status, {})
  /\ UNCHANGED <<base, outst, acked>>

Completed_OneMore(a) == {n \in DOMAIN outst : n <= a.seq + 1}
Completed_Only(a) == {n \in DOMAIN outst : n = a.seq}
Completed(a) == {n \in DOMAIN outst : n <= a.seq}

OkAck(a) ==
  /\ a.seq \in DOMAIN outst /\ a.status = "OK"
  /\ AckTaken("OK") /\ AfterAck
  /\ LET left == DOMAIN outst \ Completed(a)
     IN outst' = [n \in left |->
                    [outst[n] EXCEPT !.due = @ \/ (outst[n].gap /\ n = Oldest(left))]]
  /\ acked' = acked \cup Completed(a)
  /\ base' \in base .. Total
  /\ base' \notin acked' /\ base .. base' - 1 \subseteq acked'
  /\ Adapt("OK", Completed(a))

(* An answer to a chunk sent long enough ago makes the oldest one due.      *)
PendingAck(a) ==
  /\ a.seq \in DOMAIN outst /\ a.status = "PENDING"
  /\ AckTaken("PENDING") /\ AfterAck
  /\ \E aged \in BOOLEAN :
       outst' = [n \in DOMAIN outst |->
                   [outst[n] EXCEPT !.gap = @ \/ n = a.seq,
                                    !.due = @ \/ (aged /\ n = Oldest(DOMAIN outst))]]
  /\ Adapt("PENDING", {})
  /\ UNCHANGED <<base, acked>>

Exhausted(n) == outst[n].tries >= Retries

RefusedAck(a) ==
  /\ a.seq \in DOMAIN outst /\ a.status \notin {"OK", "PENDING"}
  /\ ~Exhausted(a.seq)
  /\ AckTaken(a.status) /\ AfterAck
  /\ outst' = [outst EXCEPT ![a.seq].due = (a.status # "BUSY")]
  /\ Adapt(a.status, {})
  /\ UNCHANGED <<base, acked>>

RefusedTooOften(a) ==
  /\ a.seq \in DOMAIN outst /\ a.status \notin {"OK", "PENDING"}
  /\ Exhausted(a.seq)
  /\ AckTaken(a.status)
  /\ stage' = "failed"
  /\ UNCHANGED <<base, outst, acked, win, stable>>

TakeAck(a) == IgnoreAck(a) \/ OkAck(a) \/ PendingAck(a) \/ RefusedAck(a) \/ RefusedTooOften(a)

-----------------------------------------------------------------------------
(* When the socket is empty (in the plain loop: for a poll timeout) the     *)
(* oldest chunk is sent again if its deadline has come.                     *)

Drained ==
  /\ stage = "drain" /\ stage' = "retry"
  /\ Silent
  /\ UNCHANGED <<transferVars, tries, windowVars, stop>>

NothingDue ==
  /\ stage = "retry" /\ stage' = "fill"
  /\ DOMAIN outst # {} => ~outst[Oldest(DOMAIN outst)].due
  /\ Silent
  /\ UNCHANGED <<transferVars, tries, windowVars, stop>>

MayResend(n) == outst[n].tries < Retries

Resent_SameAttempt(e) == [e EXCEPT !.due = FALSE, !.gap = FALSE]
Resent(e) == [tries |-> e.tries + 1, due |-> FALSE, gap |-> FALSE]

Resend ==
  /\ stage = "retry" /\ DOMAIN outst # {}
  /\ LET n == Oldest(DOMAIN outst) IN
       /\ MayResend(n)
       /\ outst' = [outst EXCEPT ![n] = Resent(@)]
       /\ Emit(<<DataPacket(n)>>)
  /\ IF mode = "throughput" THEN win' = Halved /\ stable' = 0 ELSE UNCHANGED <<win, stable>>
  /\ stage' = "fill"
  /\ UNCHANGED <<transferVars, tries, base, next, acked, stop>>

RetriesExhausted ==
  /\ stage = "retry" /\ DOMAIN outst # {}
  /\ ~MayResend(Oldest(DOMAIN outst))
  /\ stage' = "failed"
  /\ Silent
  /\ UNCHANGED <<transferVars, tries, windowVars, stop>>

-----------------------------------------------------------------------------
Local ==
  \/ \E m \in Modes, s \in UNION {SessionIds[t] : t \in {transfer + 1} \cap DOMAIN SessionIds} :
       Begin(m, s)
  \/ RequestStop
  \/ SendReset \/ ResetGivenUp \/ ResetTimeout
  \/ SendNext \/ Stop \/ Filled \/ Finish
  \/ Drained \/ NothingDue \/ Resend \/ RetriesExhausted

Take(a) == ResetAnswer(a) \/ TakeAck(a)

Statuses == {"OK", "BAD_MAGIC", "BAD_LENGTH", "BAD_CHECKSUM", "BUSY", "DMA_ERROR", "PENDING"}

(* Any answer at any time: what holds here holds whatever the network and   *)
(* the board do.                                                            *)
SenderNext ==
  \/ Local
  \/ \E n \in 0 .. Total, status \in Statuses : Take([seq |-> n, status |-> status])

SenderSpec == SenderInit /\ [][SenderNext]_senderVars

-----------------------------------------------------------------------------
(* Properties *)

Entries == [tries : Nat, due : BOOLEAN, gap : BOOLEAN]

(* Types of the sender's variables. *)
SenderTypeOK ==
  /\ stage \in Stages
  /\ transfer \in 0 .. MaxTransfers /\ mode \in {"plain", "throughput"} /\ sess \in Nat
  /\ tries \in 0 .. ResetRetries + 1
  /\ base \in 0 .. Total /\ next \in 0 .. Total
  /\ DOMAIN outst \subseteq 0 .. Total - 1 /\ \A n \in DOMAIN outst : outst[n] \in Entries
  /\ acked \subseteq 0 .. Total - 1
  /\ win \in Nat /\ stable \in Nat
  /\ stop \in BOOLEAN
  /\ got \in Statuses \cup {"none"}

(* base_seq, next_seq, acked and outstanding are four records of the same   *)
(* window: what lies below base was acked, what lies above is outstanding.  *)
(* A chunk in neither would be waited for and never sent again.             *)
WindowIsInterval ==
  /\ base <= next
  /\ acked = 0 .. base - 1
  /\ DOMAIN outst = base .. next - 1

(* The window neither closes for good nor exceeds what the user configured. *)
WindowBounded ==
  /\ win \in 1 .. Window
  /\ Cardinality(DOMAIN outst) <= Window

(* config.retries bounds how often a chunk is on the wire.                  *)
RetriesBounded ==
  \A n \in DOMAIN outst : outst[n].tries <= (IF Retries > 1 THEN Retries ELSE 1)

(* README, ACK: BUSY "only affects the speed": the chunk is sent again      *)
(* after a pause.  The code also counts it against the retry limit.         *)
BusyOnlySlows == ~(stage = "failed" /\ got = "BUSY")
=============================================================================
