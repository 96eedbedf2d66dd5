------------------------------ MODULE LinkProof ------------------------------
(***************************************************************************)
(* Proofs about Sender, Link and LinkOrdered for any number of transfers   *)
(* and chunks, any window, any retry limits and everything their networks  *)
(* may do: the sender's records of its window always agree, and what it    *)
(* counts as acked, the board accepted, and holds.                         *)
(***************************************************************************)
EXTENDS LinkOrdered, FiniteSetTheorems, SequenceTheorems, TLAPS

-----------------------------------------------------------------------------
(* The sender, whatever answers it is given. *)

(* Where the window lies, and how often its chunks were sent.  The records  *)
(* agree only because an OK completes a whole prefix of the window: this is *)
(* inductive as it stands, once the window's place is known.                *)
InWindow ==
  /\ base \in 0 .. Total /\ next \in 0 .. Total
  /\ base <= next /\ next - base <= Window
  /\ acked = 0 .. base - 1
  /\ DOMAIN outst = base .. next - 1
  /\ \A n \in base .. next - 1 : /\ outst[n] \in Entries
                                 /\ outst[n].tries <= (IF Retries > 1 THEN Retries ELSE 1)

Adaptive ==
  /\ mode \in {"plain", "throughput"}
  /\ win \in 1 .. Window /\ stable \in Nat

Progress ==
  /\ stage \in Stages
  /\ transfer \in 0 .. MaxTransfers /\ sess \in Nat
  /\ tries \in 0 .. ResetRetries + 1
  /\ stop \in BOOLEAN /\ got \in Statuses \cup {"none"}

SenderInv == InWindow /\ Adaptive /\ Progress

-----------------------------------------------------------------------------
(* The smallest element of an interval. *)
LEMMA OldestOfInterval ==
  ASSUME NEW a \in Int, NEW b \in Int, a <= b
  PROVE  Oldest(a .. b) = a
<1>1. a \in a .. b /\ \A m \in a .. b : a <= m
  OBVIOUS
<1>2. \A n \in a .. b : (\A m \in a .. b : n <= m) => n = a
  OBVIOUS
<1> QED
  BY <1>1, <1>2 DEF Oldest

(* The new base after an OK lies behind the chunk it names. *)
LEMMA BaseAfterOk ==
  ASSUME InWindow, Total \in Nat, NEW s \in base .. next - 1, NEW k \in base .. Total,
         k \notin acked \cup {n \in DOMAIN outst : n <= s},
         base .. k - 1 \subseteq acked \cup {n \in DOMAIN outst : n <= s}
  PROVE  /\ k = s + 1
         /\ acked \cup {n \in DOMAIN outst : n <= s} = 0 .. k - 1
         /\ DOMAIN outst \ {n \in DOMAIN outst : n <= s} = k .. next - 1
<1>1. acked \cup {n \in DOMAIN outst : n <= s} = 0 .. s
  BY DEF InWindow
<1>2. k > s
  BY <1>1 DEF InWindow
<1>3. k <= s + 1
  <2>1. SUFFICES ASSUME k > s + 1 PROVE FALSE
    BY DEF InWindow
  <2>2. s + 1 \in base .. k - 1
    BY <2>1 DEF InWindow
  <2> QED
    BY <2>2, <1>1 DEF InWindow
<1>4. k = s + 1
  BY <1>2, <1>3 DEF InWindow
<1>5. DOMAIN outst \ {n \in DOMAIN outst : n <= s} = k .. next - 1
  BY <1>4 DEF InWindow
<1> QED
  BY <1>1, <1>4, <1>5

(* The number of chunks under way, as the code counts them. *)
LEMMA WindowSize ==
  ASSUME SenderAssumption, SenderInv
  PROVE  Cardinality(base .. next - 1) = next - base
<1>1. base \in Int /\ next - 1 \in Int /\ base <= next
  BY DEF SenderInv, InWindow, SenderAssumption
<1>2. Cardinality(base .. next - 1) = IF base <= next - 1 THEN (next - 1) - base + 1 ELSE 0
  BY <1>1, FS_Interval
<1> QED
  BY <1>1, <1>2 DEF SenderInv, InWindow, SenderAssumption

(* Halving and adapting keep the window open and within its limit. *)
LEMMA AdaptKeeps ==
  ASSUME SenderAssumption, Adaptive, NEW status, NEW done, Adapt(status, done)
  PROVE  win' \in 1 .. Window /\ stable' \in Nat
<1>1. Halved \in 1 .. Window
  BY DEF Halved, Adaptive, SenderAssumption
<1> QED
  BY <1>1 DEF Adapt, Adaptive, SenderAssumption

-----------------------------------------------------------------------------
(* The invariant holds before the first transfer.                           *)
LEMMA SenderInitInv ==
  ASSUME SenderAssumption, SenderInit
  PROVE  SenderInv
<1>1. base = 0 /\ next = 0 /\ acked = {} /\ outst = <<>>
  BY DEF SenderInit
<1>2. 0 .. -1 = {} /\ DOMAIN outst = {}
  BY <1>1
<1>3. InWindow
  BY <1>1, <1>2 DEF InWindow, SenderAssumption
<1>4. Adaptive
  BY DEF SenderInit, Adaptive, SenderAssumption
<1>5. Progress
  <2>1. stage = "idle" /\ transfer = 0 /\ sess = 0 /\ tries = 0 /\ stop = FALSE /\ got = "none"
    BY DEF SenderInit
  <2>2. 0 \in 0 .. MaxTransfers /\ 0 \in 0 .. ResetRetries + 1
    BY DEF SenderAssumption
  <2> QED
    BY <2>1, <2>2 DEF Progress, Stages, Ended
<1> QED
  BY <1>3, <1>4, <1>5 DEF SenderInv

(* Steps that leave the window alone. *)
LEMMA KeepsWindow ==
  ASSUME SenderInv, UNCHANGED windowVars, mode' = mode, Progress'
  PROVE  SenderInv'
  BY DEF SenderInv, InWindow, Adaptive, windowVars

(* A new transfer starts with an empty window.                              *)
LEMMA BeginKeeps ==
  ASSUME SenderAssumption, SenderInv, NEW m \in Modes,
         NEW s \in UNION {SessionIds[t] : t \in {transfer + 1} \cap DOMAIN SessionIds},
         Begin(m, s)
  PROVE  SenderInv'
<1>1. transfer + 1 \in 1 .. MaxTransfers /\ s \in SessionIds[transfer + 1]
  BY DEF Begin, SenderInv, Progress, SenderAssumption
<1>2. s \in Nat
  BY <1>1 DEF SenderAssumption
<1>3. InWindow'
  BY DEF Begin, InWindow, SenderAssumption
<1>4. Adaptive'
  BY DEF Begin, Adaptive, SenderAssumption
<1>5. Progress'
  <2>1. stage' = "reset" /\ transfer' = transfer + 1 /\ sess' = s /\ tries' = 0
        /\ stop' = FALSE /\ got' = "none"
    BY DEF Begin, Silent, Emit
  <2>2. transfer' \in 0 .. MaxTransfers /\ 0 \in 0 .. ResetRetries + 1
    BY <1>1, <2>1 DEF SenderAssumption
  <2> QED
    BY <1>2, <2>1, <2>2 DEF Progress, Stages
<1> QED
  BY <1>3, <1>4, <1>5 DEF SenderInv

(* Steps that change only the stage keep the invariant.                     *)
LEMMA StageStepKeeps ==
  ASSUME SenderAssumption, SenderInv,
         RequestStop \/ SendReset \/ ResetGivenUp \/ ResetTimeout \/ Stop \/ Filled \/ Finish
           \/ Drained \/ NothingDue \/ RetriesExhausted
  PROVE  SenderInv'
<1>1. UNCHANGED windowVars /\ mode' = mode
  BY DEF RequestStop, SendReset, ResetGivenUp, ResetTimeout, Stop, Filled, Finish, Drained,
         NothingDue, RetriesExhausted, transferVars
<1>2. Progress'
  <2>1. UNCHANGED <<transfer, sess>> /\ got' = "none"
    BY DEF RequestStop, SendReset, ResetGivenUp, ResetTimeout, Stop, Filled, Finish, Drained,
           NothingDue, RetriesExhausted, transferVars, Silent, Emit
  <2>2. stage' \in Stages
    BY DEF RequestStop, SendReset, ResetGivenUp, ResetTimeout, Stop, Filled, Finish, Drained,
           NothingDue, RetriesExhausted, Stages, Ended, SenderInv, Progress
  <2>3. stop' \in BOOLEAN
    BY DEF RequestStop, SendReset, ResetGivenUp, ResetTimeout, Stop, Filled, Finish, Drained,
           NothingDue, RetriesExhausted, SenderInv, Progress
  <2>4. tries' \in 0 .. ResetRetries + 1
    <3>1. CASE SendReset
      BY <3>1 DEF SendReset, SenderInv, Progress, SenderAssumption
    <3>2. CASE ~SendReset
      BY <3>2 DEF RequestStop, ResetGivenUp, ResetTimeout, Stop, Filled, Finish, Drained,
                  NothingDue, RetriesExhausted, SenderInv, Progress
    <3> QED
      BY <3>1, <3>2
  <2> QED
    BY <2>1, <2>2, <2>3, <2>4 DEF SenderInv, Progress
<1> QED
  BY <1>1, <1>2, KeepsWindow

(* An answer to a RESET keeps the invariant.                                *)
LEMMA ResetAnswerKeeps ==
  ASSUME SenderInv, NEW a, ResetAnswer(a)
  PROVE  SenderInv'
<1>1. UNCHANGED windowVars /\ mode' = mode
  BY DEF ResetAnswer, transferVars
<1>2. Progress'
  BY DEF SenderInv, Progress, ResetAnswer, ResetOutcome, transferVars, Silent, Emit, Stages, Ended
<1> QED
  BY <1>1, <1>2, KeepsWindow

(* A chunk is sent only while the window has room. *)
LEMMA SendNextKeeps ==
  ASSUME SenderAssumption, SenderInv, SendNext
  PROVE  SenderInv'
<1>1. Cardinality(base .. next - 1) = next - base
  BY WindowSize
<1>2. next < Total /\ next - base < Window
  BY <1>1 DEF SendNext, HasRoom, Limit, SenderInv, InWindow, Adaptive, SenderAssumption
<1>3. DOMAIN outst' = base .. next
  <2>1. DOMAIN outst' = DOMAIN outst \cup {next}
    BY DEF SendNext, Extended
  <2> QED
    BY <2>1 DEF SenderInv, InWindow, SenderAssumption
<1>4. \A n \in base .. next :
        /\ outst'[n] \in Entries
        /\ outst'[n].tries <= (IF Retries > 1 THEN Retries ELSE 1)
  <2> SUFFICES ASSUME NEW n \in base .. next
               PROVE  /\ outst'[n] \in Entries
                      /\ outst'[n].tries <= (IF Retries > 1 THEN Retries ELSE 1)
    OBVIOUS
  <2>1. n \in DOMAIN outst \cup {next}
    BY DEF SenderInv, InWindow, SenderAssumption
  <2>2. outst'[n] = IF n = next THEN [tries |-> 1, due |-> FALSE, gap |-> FALSE] ELSE outst[n]
    BY <2>1 DEF SendNext, Extended
  <2>3. CASE n = next
    BY <2>2, <2>3 DEF Entries, SenderAssumption
  <2>4. CASE n # next
    <3>1. n \in base .. next - 1
      BY <2>4 DEF SenderInv, InWindow, SenderAssumption
    <3> QED
      BY <2>2, <2>4, <3>1 DEF SenderInv, InWindow
  <2> QED
    BY <2>3, <2>4
<1>5. InWindow'
  <2>1. base' = base /\ next' = next + 1 /\ acked' = acked /\ base .. next' - 1 = base .. next
    BY DEF SendNext, SenderInv, InWindow, SenderAssumption
  <2> QED
    BY <2>1, <1>2, <1>3, <1>4 DEF SenderInv, InWindow, SenderAssumption
<1>6. Adaptive'
  BY DEF SendNext, SenderInv, Adaptive, transferVars
<1>7. Progress'
  BY DEF SendNext, SenderInv, Progress, transferVars, Emit
<1> QED
  BY <1>5, <1>6, <1>7 DEF SenderInv

(* A retransmission keeps the window and the bound on the attempts.         *)
LEMMA ResendKeeps ==
  ASSUME SenderAssumption, SenderInv, Resend
  PROVE  SenderInv'
<1> DEFINE o == Oldest(DOMAIN outst)
<1>1. o = base /\ base \in base .. next - 1
  <2>1. DOMAIN outst = base .. next - 1 /\ base \in Int /\ next - 1 \in Int
    BY DEF SenderInv, InWindow, SenderAssumption
  <2>2. base <= next - 1
    BY <2>1 DEF Resend
  <2> QED
    BY <2>1, <2>2, OldestOfInterval
<1>2. /\ outst[o].tries < Retries
      /\ outst' = [outst EXCEPT ![o] = [tries |-> outst[o].tries + 1, due |-> FALSE, gap |-> FALSE]]
  BY DEF Resend, MayResend, Resent
<1> HIDE DEF o
<1>3. outst[base] \in Entries /\ outst[base].tries \in Nat
  BY <1>1 DEF SenderInv, InWindow, Entries
<1>4. InWindow'
  <2>1. UNCHANGED <<base, next, acked>>
    BY DEF Resend
  <2>2. DOMAIN outst' = DOMAIN outst
    BY <1>2
  <2>3. ASSUME NEW n \in base .. next - 1
        PROVE  /\ outst'[n] \in Entries
               /\ outst'[n].tries <= (IF Retries > 1 THEN Retries ELSE 1)
    <3>1. CASE n = base
      <4>1. outst'[n] = [tries |-> outst[o].tries + 1, due |-> FALSE, gap |-> FALSE]
        BY <1>1, <1>2, <3>1 DEF SenderInv, InWindow
      <4>2. outst[o].tries + 1 \in Nat /\ outst[o].tries + 1 <= Retries
        BY <1>1, <1>2, <1>3 DEF SenderAssumption
      <4> QED
        BY <4>1, <4>2 DEF Entries, SenderAssumption
    <3>2. CASE n # base
      BY <1>1, <1>2, <3>2 DEF SenderInv, InWindow
    <3> QED
      BY <3>1, <3>2
  <2> QED
    BY <2>1, <2>2, <2>3 DEF SenderInv, InWindow
<1>5. Adaptive'
  BY DEF Resend, Halved, SenderInv, Adaptive, SenderAssumption, transferVars
<1>6. Progress'
  BY DEF Resend, SenderInv, Progress, transferVars, Emit, Stages
<1> QED
  BY <1>4, <1>5, <1>6 DEF SenderInv

(* Every acknowledgement, of whatever chunk and status, keeps the           *)
(* invariant.                                                               *)
LEMMA TakeAckKeeps ==
  ASSUME SenderAssumption, SenderInv, NEW a, a.status \in Statuses, TakeAck(a)
  PROVE  SenderInv'
<1>1. Progress'
  BY DEF TakeAck, IgnoreAck, OkAck, PendingAck, RefusedAck, RefusedTooOften, AckTaken, AfterAck,
         SenderInv, Progress, transferVars, Stages, Ended, Statuses
<1>2. mode' = mode /\ next' = next
  BY DEF TakeAck, IgnoreAck, OkAck, PendingAck, RefusedAck, RefusedTooOften, AckTaken, transferVars
<1>3. Adaptive'
  <2>1. (\E status, done : Adapt(status, done)) \/ UNCHANGED <<win, stable>>
    BY DEF TakeAck, IgnoreAck, OkAck, PendingAck, RefusedAck, RefusedTooOften
  <2> QED
    BY <2>1, <1>2, AdaptKeeps DEF SenderInv, Adaptive
<1>4. InWindow'
  <2>1. CASE IgnoreAck(a) \/ RefusedTooOften(a)
    BY <2>1, <1>2 DEF IgnoreAck, RefusedTooOften, SenderInv, InWindow
  <2>2. CASE OkAck(a)
    <3> DEFINE left == DOMAIN outst \ Completed(a)
    <3>1. a.seq \in base .. next - 1
      BY <2>2 DEF OkAck, SenderInv, InWindow
    <3>2. /\ base' \in base .. Total
          /\ base' \notin acked \cup Completed(a)
          /\ base .. base' - 1 \subseteq acked \cup Completed(a)
          /\ acked' = acked \cup Completed(a)
      BY <2>2 DEF OkAck
    <3>3. base' = a.seq + 1 /\ acked' = 0 .. base' - 1 /\ left = base' .. next - 1
      BY <3>1, <3>2, BaseAfterOk DEF Completed, SenderInv, SenderAssumption
    <3>4. outst' = [n \in left |->
                     [outst[n] EXCEPT !.due = @ \/ (outst[n].gap /\ n = Oldest(left))]]
      BY <2>2 DEF OkAck
    <3> HIDE DEF left
    <3>5. ASSUME NEW n \in left
          PROVE  /\ outst'[n] \in Entries /\ outst'[n].tries = outst[n].tries
      <4>1. outst[n] \in Entries
        BY <3>1, <3>3 DEF SenderInv, InWindow, SenderAssumption
      <4> QED
        BY <4>1, <3>4 DEF Entries
    <3>6. DOMAIN outst' = base' .. next - 1
      BY <3>3, <3>4
    <3>7. \A n \in base' .. next - 1 : n \in base .. next - 1
      BY <3>1, <3>3 DEF SenderInv, InWindow, SenderAssumption
    <3>8. \A n \in base' .. next' - 1 : /\ outst'[n] \in Entries
                                        /\ outst'[n].tries <= (IF Retries > 1 THEN Retries ELSE 1)
      BY <1>2, <3>3, <3>5, <3>7 DEF SenderInv, InWindow
    <3>9. /\ base' \in 0 .. Total /\ next' \in 0 .. Total
          /\ base' <= next' /\ next' - base' <= Window
      <4>1. /\ base \in 0 .. Total /\ next \in 0 .. Total /\ next - base <= Window
            /\ Total \in Nat /\ Window \in Nat
        BY DEF SenderInv, InWindow, SenderAssumption
      <4> QED
        BY <1>2, <3>1, <3>3, <4>1
    <3> QED
      BY <1>2, <3>3, <3>6, <3>8, <3>9 DEF InWindow
  <2>3. CASE PendingAck(a)
    <3>1. PICK aged \in BOOLEAN :
            outst' = [n \in DOMAIN outst |->
                        [outst[n] EXCEPT !.gap = @ \/ n = a.seq,
                                         !.due = @ \/ (aged /\ n = Oldest(DOMAIN outst))]]
      BY <2>3 DEF PendingAck
    <3>2. ASSUME NEW n \in base .. next - 1
          PROVE  outst'[n] \in Entries /\ outst'[n].tries = outst[n].tries
      <4>1. outst[n] \in Entries /\ n \in DOMAIN outst
        BY DEF SenderInv, InWindow
      <4> QED
        BY <4>1, <3>1 DEF Entries
    <3>3. DOMAIN outst' = DOMAIN outst /\ UNCHANGED <<base, acked>>
      BY <2>3, <3>1 DEF PendingAck
    <3> QED
      BY <1>2, <3>2, <3>3 DEF SenderInv, InWindow
  <2>4. CASE RefusedAck(a)
    <3>1. a.seq \in base .. next - 1
      BY <2>4 DEF RefusedAck, SenderInv, InWindow
    <3>2. outst' = [outst EXCEPT ![a.seq].due = (a.status # "BUSY")]
      BY <2>4 DEF RefusedAck
    <3>3. ASSUME NEW n \in base .. next - 1
          PROVE  outst'[n] \in Entries /\ outst'[n].tries = outst[n].tries
      <4>1. outst[n] \in Entries /\ n \in DOMAIN outst
        BY DEF SenderInv, InWindow
      <4> QED
        BY <4>1, <3>2 DEF Entries
    <3>4. DOMAIN outst' = DOMAIN outst /\ UNCHANGED <<base, acked>>
      BY <2>4, <3>2 DEF RefusedAck
    <3> QED
      BY <1>2, <3>3, <3>4 DEF SenderInv, InWindow
  <2> QED
    BY <2>1, <2>2, <2>3, <2>4 DEF TakeAck
<1> QED
  BY <1>1, <1>3, <1>4 DEF SenderInv

(* Every step of the sender that reads no answer keeps the invariant.       *)
LEMMA LocalKeeps ==
  ASSUME SenderAssumption, SenderInv, Local
  PROVE  SenderInv'
<1>1. CASE \E m \in Modes,
              s \in UNION {SessionIds[t] : t \in {transfer + 1} \cap DOMAIN SessionIds} : Begin(m, s)
  BY <1>1, BeginKeeps
<1>2. CASE RequestStop \/ SendReset \/ ResetGivenUp \/ ResetTimeout \/ Stop \/ Filled \/ Finish
             \/ Drained \/ NothingDue \/ RetriesExhausted
  BY <1>2, StageStepKeeps
<1>3. CASE SendNext
  BY <1>3, SendNextKeeps
<1>4. CASE Resend
  BY <1>4, ResendKeeps
<1> QED
  BY <1>1, <1>2, <1>3, <1>4 DEF Local

(* So does every answer, in the handshake and in the transfer.              *)
LEMMA TakeKeeps ==
  ASSUME SenderAssumption, SenderInv, NEW a, a.status \in Statuses, Take(a)
  PROVE  SenderInv'
  BY ResetAnswerKeeps, TakeAckKeeps DEF Take

(* SenderInv is inductive. *)
THEOREM WindowHolds == SenderSpec => []SenderInv
<1> USE SenderAssumption
<1>1. SenderInit => SenderInv
  BY SenderInitInv
<1>2. SenderInv /\ [SenderNext]_senderVars => SenderInv'
  <2> SUFFICES ASSUME SenderInv, [SenderNext]_senderVars PROVE SenderInv'
    OBVIOUS
  <2>1. CASE Local
    BY <2>1, LocalKeeps
  <2>2. CASE \E n \in 0 .. Total, status \in Statuses : Take([seq |-> n, status |-> status])
    BY <2>2, TakeKeeps
  <2>3. CASE UNCHANGED senderVars
    BY <2>3 DEF senderVars, transferVars, windowVars, SenderInv, InWindow, Adaptive, Progress
  <2> QED
    BY <2>1, <2>2, <2>3 DEF SenderNext
<1> QED
  BY <1>1, <1>2, PTL DEF SenderSpec

(* The sender's types, for any constants. *)
THEOREM SenderTyped == SenderSpec => []SenderTypeOK
<1>1. SenderInv => SenderTypeOK
  BY SenderAssumption
     DEF SenderInv, InWindow, Adaptive, Progress, SenderTypeOK, SenderAssumption
<1> QED
  BY <1>1, WindowHolds, PTL

(* No chunk falls between acked and outstanding, whatever is answered.      *)
THEOREM NoChunkForgotten == SenderSpec => []WindowIsInterval
<1>1. SenderInv => WindowIsInterval
  BY DEF SenderInv, InWindow, WindowIsInterval
<1> QED
  BY <1>1, WindowHolds, PTL

(* The window is never closed and never larger than configured.             *)
THEOREM WindowStaysOpen == SenderSpec => []WindowBounded
<1>1. SenderInv => WindowBounded
  <2> SUFFICES ASSUME SenderInv PROVE WindowBounded
    OBVIOUS
  <2>1. Cardinality(base .. next - 1) = next - base
    BY SenderAssumption, WindowSize
  <2> QED
    BY <2>1 DEF SenderInv, InWindow, Adaptive, WindowBounded
<1> QED
  BY <1>1, WindowHolds, PTL

(* No chunk is sent more often than configured.                             *)
THEOREM RetriesStayBounded == SenderSpec => []RetriesBounded
<1>1. SenderInv => RetriesBounded
  BY DEF SenderInv, InWindow, RetriesBounded
<1> QED
  BY <1>1, WindowHolds, PTL

-----------------------------------------------------------------------------
(* The sender and the board, over either network. *)

Packets == [from : Sockets, kind : {"reset", "data"}, sess : Nat, seq : Nat]
Answers == [to : Sockets, seq : Nat, status : Statuses, re : {"ctl", "data"}]

(* The transfer under way, if any, is in a session of its own. *)
InTransfer ==
  /\ transfer = 0 => stage = "idle" /\ base = 0
  /\ transfer > 0 => sess \in SessionIds[transfer]
  /\ stage = "done" => base = Total

(* A packet the sender may have sent. *)
Genuine(p) ==
  /\ p.kind = p.from[2]
  /\ p.sess \in SessionIds[p.from[1]]
  /\ p.kind = "data" => p.seq \in 0 .. Total - 1

(* What the board holds back is an OK to the socket of a transfer. *)
Waiting ==
  /\ pend.count \in Nat
  /\ pend.count > 0 => pend.to \in Sockets /\ pend.to[2] = "data" /\ pend.seq \in Nat

(* The chunks the board counts, and whose they are. *)
Counted ==
  /\ nextSeq \in 0 .. Total
  /\ content \in Seq(Transfers) /\ Len(content) = nextSeq
  /\ reached \in [Transfers -> 0 .. Total]

-----------------------------------------------------------------------------
(* What the sender's steps do to a transfer. *)

BeginsTransfer ==
  /\ transfer' = transfer + 1 /\ transfer' \in Transfers
  /\ base' = 0 /\ stage' = "reset" /\ sent' = <<>>

SendsFor ==
  /\ UNCHANGED <<transfer, sess, base>>
  /\ stage' \in {"reset", "await"} => stage \in {"reset", "await"}
  /\ stage' \in {"fill", "drain", "retry", "done"} => stage \in {"fill", "drain", "retry", "done"}
  /\ \/ sent' = <<>>
     \/ sent' = <<ResetPacket>> /\ stage \in {"reset", "await"}
     \/ \E n \in 0 .. Total - 1 :
          sent' = <<DataPacket(n)>> /\ stage \in {"fill", "drain", "retry", "done"}

(* A step that reads no answer begins a transfer, or sends at most one      *)
(* packet of the one under way: a RESET in the handshake, data after it.    *)
LEMMA LocalEffects ==
  ASSUME SenderAssumption, SenderInv, InTransfer, Local
  PROVE  InTransfer' /\ (BeginsTransfer \/ SendsFor)
<1>1. CASE \E m \in Modes,
              s \in UNION {SessionIds[t] : t \in {transfer + 1} \cap DOMAIN SessionIds} : Begin(m, s)
  <2>1. PICK m \in Modes,
             s \in UNION {SessionIds[t] : t \in {transfer + 1} \cap DOMAIN SessionIds} : Begin(m, s)
    BY <1>1
  <2>2. s \in SessionIds[transfer + 1]
    OBVIOUS
  <2>3. transfer \in 0 .. MaxTransfers /\ MaxTransfers \in Nat /\ transfer < MaxTransfers
    BY <2>1 DEF Begin, SenderInv, Progress, SenderAssumption
  <2>4. transfer' \in Transfers
    BY <2>1, <2>3 DEF Begin, Transfers
  <2>5. stage' = "reset" /\ transfer' = transfer + 1 /\ sess' = s /\ base' = 0 /\ sent' = <<>>
    BY <2>1 DEF Begin, Silent, Emit
  <2> QED
    BY <2>2, <2>3, <2>4, <2>5 DEF InTransfer, BeginsTransfer
<1>2. CASE RequestStop \/ SendReset \/ ResetGivenUp \/ ResetTimeout \/ Stop \/ Filled \/ Finish
             \/ Drained \/ NothingDue \/ RetriesExhausted
  <2>1. UNCHANGED <<transfer, sess, base>>
    BY <1>2 DEF RequestStop, SendReset, ResetGivenUp, ResetTimeout, Stop, Filled, Finish, Drained,
                NothingDue, RetriesExhausted, transferVars, windowVars
  <2>2. sent' = <<>> \/ (sent' = <<ResetPacket>> /\ stage = "reset")
    BY <1>2 DEF RequestStop, SendReset, ResetGivenUp, ResetTimeout, Stop, Filled, Finish, Drained,
                NothingDue, RetriesExhausted, Silent, Emit
  <2>3. /\ stage # "idle"
        /\ stage' \in {"reset", "await"} => stage \in {"reset", "await"}
        /\ stage' \in {"fill", "drain", "retry", "done"} => stage \in {"fill", "drain", "retry", "done"}
        /\ stage' = "done" => base = Total
    BY <1>2 DEF RequestStop, SendReset, ResetGivenUp, ResetTimeout, Stop, Filled, Finish, Drained,
                NothingDue, RetriesExhausted, AllAcked, Ended, InTransfer
  <2> QED
    BY <2>1, <2>2, <2>3 DEF InTransfer, SendsFor
<1>3. CASE SendNext
  <2>1. /\ UNCHANGED <<transfer, sess, base, stage>> /\ stage = "fill"
        /\ sent' = <<DataPacket(next)>> /\ next < Total
    BY <1>3 DEF SendNext, HasRoom, transferVars, Emit
  <2>2. next \in 0 .. Total - 1
    BY <2>1 DEF SenderInv, InWindow, SenderAssumption
  <2> QED
    BY <2>1, <2>2 DEF InTransfer, SendsFor
<1>4. CASE Resend
  <2>1. /\ UNCHANGED <<transfer, sess, base>> /\ stage = "retry" /\ stage' = "fill"
        /\ sent' = <<DataPacket(Oldest(DOMAIN outst))>> /\ DOMAIN outst # {}
    BY <1>4 DEF Resend, transferVars, Emit
  <2>2. DOMAIN outst = base .. next - 1 /\ base \in 0 .. Total /\ next \in 0 .. Total
    BY DEF SenderInv, InWindow
  <2>3. Oldest(DOMAIN outst) = base /\ base \in 0 .. Total - 1
    <3>1. base \in Int /\ next - 1 \in Int /\ base <= next - 1
      BY <2>1, <2>2, SenderAssumption DEF SenderAssumption
    <3> QED
      BY <3>1, <2>2, OldestOfInterval, SenderAssumption DEF SenderAssumption
  <2> QED
    BY <2>1, <2>3 DEF InTransfer, SendsFor
<1> QED
  BY <1>1, <1>2, <1>3, <1>4 DEF Local

(* An answer moves base only if it is an OK, and then to the chunk behind   *)
(* the one it names; the window opens only with an OK to the RESET.         *)
LEMMA TakeEffects ==
  ASSUME SenderAssumption, SenderInv, InTransfer, NEW a, Take(a)
  PROVE  /\ InTransfer' /\ UNCHANGED <<transfer, sess>> /\ sent' = <<>>
         /\ base' = base \/ (stage = "drain" /\ a.status = "OK" /\ base' = a.seq + 1)
         /\ stage' \in {"reset", "await"} => stage = "await"
         /\ stage' \in {"fill", "drain", "retry", "done"} =>
              stage = "drain" \/ (stage = "await" /\ a.status = "OK")
<1>1. CASE ResetAnswer(a)
  <2>1. /\ UNCHANGED <<transfer, sess, base>> /\ sent' = <<>>
        /\ stage = "await" /\ stage' = ResetOutcome(a)
    BY <1>1 DEF ResetAnswer, transferVars, windowVars, Silent, Emit
  <2>2. /\ ResetOutcome(a) \in {"fill", "failed", "reset"}
        /\ ResetOutcome(a) = "fill" => a.status = "OK"
    BY DEF ResetOutcome
  <2> QED
    BY <2>1, <2>2 DEF InTransfer
<1>2. CASE TakeAck(a)
  <2>1. /\ UNCHANGED <<transfer, sess>> /\ sent' = <<>>
        /\ stage = "drain" /\ stage' \in {"drain", "fill", "failed"}
    BY <1>2 DEF TakeAck, IgnoreAck, OkAck, PendingAck, RefusedAck, RefusedTooOften, AckTaken,
                AfterAck, transferVars
  <2>2. base' = base \/ (a.status = "OK" /\ base' = a.seq + 1)
    <3>1. CASE OkAck(a)
      <4>1. a.seq \in base .. next - 1
        BY <3>1 DEF OkAck, SenderInv, InWindow
      <4>2. /\ base' \in base .. Total
            /\ base' \notin acked \cup Completed(a)
            /\ base .. base' - 1 \subseteq acked \cup Completed(a)
        BY <3>1 DEF OkAck
      <4>3. base' = a.seq + 1
        BY <4>1, <4>2, BaseAfterOk DEF Completed, SenderInv, SenderAssumption
      <4> QED
        BY <3>1, <4>3 DEF OkAck
    <3>2. CASE ~OkAck(a)
      BY <1>2, <3>2 DEF TakeAck, IgnoreAck, PendingAck, RefusedAck, RefusedTooOften
    <3> QED
      BY <3>1, <3>2
  <2> QED
    BY <2>1, <2>2 DEF InTransfer
<1> QED
  BY <1>1, <1>2 DEF Take
-----------------------------------------------------------------------------
(* What the board's steps do, as seen from the link. *)

(* The acknowledgement e is the OK that was held back. *)
FromPend(e) == pend.count > 0 /\ e.to = pend.to /\ e.seq = pend.seq

(* An OK about packet p: the board counts the chunk. *)
OkFor(p, e) == p.kind = "data" /\ e.to = p.from /\ e.seq < nextSeq' /\ bSession = p.sess

(* How the chunks may change when p is handled: not, or by p's own. *)
SameChunks == UNCHANGED <<nextSeq, content>>
OneMore(p) ==
  nextSeq' = nextSeq + 1 /\ p.seq = nextSeq /\ content' = Append(content, p.from[1])

HandlesData(p) ==
  /\ p.kind = "data" /\ bSession' = bSession
  /\ SameChunks \/ (OneMore(p) /\ bSession = p.sess /\ nextSeq < Total)
  /\ \A e \in Elements(out') : /\ FromPend(e) \/ e.to = p.from
                               /\ e.status = "OK" => FromPend(e) \/ OkFor(p, e)
  /\ pend'.count > 0 => OkFor(p, pend')

HandlesReset(p) ==
  /\ p.kind = "reset" /\ pend'.count = 0
  /\ \/ /\ bSession' = p.sess /\ nextSeq' = 0 /\ content' = <<>>
        /\ \A e \in Elements(out') : e.to = p.from
     \/ /\ bSession' = bSession /\ SameChunks
        /\ \A e \in Elements(out') : /\ FromPend(e) \/ e.to = p.from
                                     /\ e.status = "OK" => FromPend(e)

WorksAlone ==
  /\ bSession' = bSession /\ SameChunks
  /\ \A e \in Elements(out') : FromPend(e)
  /\ pend' = pend \/ pend'.count = 0

BoardSends == Waiting' /\ out' \in Seq(Answers)

(* The elements of short sequences. *)
LEMMA AppendElements ==
  ASSUME NEW S, NEW s \in Seq(S), NEW e \in S
  PROVE  Append(s, e) \in Seq(S) /\ Elements(Append(s, e)) = Elements(s) \cup {e}
  BY AppendProperties DEF Elements

LEMMA FewElements ==
  /\ Elements(<<>>) = {}
  /\ \A e : Elements(<<e>>) = {e}
<1>1. Elements(<<>>) = {}
  BY DEF Elements
<1>2. ASSUME NEW e PROVE Elements(<<e>>) = {e}
  <2>1. DOMAIN <<e>> = {1} /\ <<e>>[1] = e
    OBVIOUS
  <2> QED
    BY <2>1 DEF Elements
<1> QED
  BY <1>1, <1>2

(* An acknowledgement the board makes. *)
LEMMA AckIsAnswer ==
  ASSUME NEW to \in Sockets, NEW n \in Nat, NEW status \in Statuses, NEW re \in {"ctl", "data"}
  PROVE  /\ Board!Ack(to, n, status, re) \in Answers
         /\ Board!Ack(to, n, status, re).to = to
         /\ Board!Ack(to, n, status, re).seq = n
         /\ Board!Ack(to, n, status, re).status = status
  BY DEF Board!Ack, Answers

(* What is held back goes out as one OK. *)
LEMMA HeldBackIsPend ==
  ASSUME Waiting
  PROVE  /\ Board!HeldBack \in Seq(Answers)
         /\ \A e \in Elements(Board!HeldBack) : FromPend(e)
<1>1. CASE pend.count = 0
  BY <1>1, FewElements DEF Board!HeldBack
<1>2. CASE pend.count # 0
  <2> DEFINE e == Board!Ack(pend.to, pend.seq, "OK", "data")
  <2>1. pend.count > 0 /\ pend.to \in Sockets /\ pend.seq \in Nat
    BY <1>2 DEF Waiting
  <2>2. e \in Answers /\ e.to = pend.to /\ e.seq = pend.seq
    BY <2>1, AckIsAnswer DEF Statuses
  <2>3. Board!HeldBack = <<e>>
    BY <1>2 DEF Board!HeldBack
  <2> HIDE DEF e
  <2> QED
    BY <2>1, <2>2, <2>3, FewElements DEF FromPend
<1> QED
  BY <1>1, <1>2

(* A refusal, or an answer to a repeated chunk, takes the OK with it. *)
LEMMA AnswerEffects ==
  ASSUME Waiting, NEW to \in Sockets, NEW n \in Nat, NEW status \in Statuses,
         NEW re \in {"ctl", "data"}, Board!Answer(to, n, status, re)
  PROVE  /\ BoardSends /\ pend'.count = 0
         /\ UNCHANGED <<bSession, nextSeq>>
         /\ \A e \in Elements(out') :
              FromPend(e) \/ (e.to = to /\ e.seq = n /\ e.status = status)
<1> DEFINE e == Board!Ack(to, n, status, re)
<1>1. e \in Answers /\ e.to = to /\ e.seq = n /\ e.status = status
  BY AckIsAnswer
<1>2. out' = Append(Board!HeldBack, e) /\ pend' = Board!NoPend /\ UNCHANGED <<bSession, nextSeq>>
  BY DEF Board!Answer
<1> HIDE DEF e
<1>3. out' \in Seq(Answers) /\ Elements(out') = Elements(Board!HeldBack) \cup {e}
  BY <1>1, <1>2, HeldBackIsPend, AppendElements
<1>4. Waiting' /\ pend'.count = 0
  BY <1>2 DEF Board!NoPend, Waiting
<1> QED
  BY <1>1, <1>2, <1>3, <1>4, HeldBackIsPend DEF BoardSends

(* Data, whether accepted, repeated or refused. *)
LEMMA DataEffects ==
  ASSUME SenderAssumption, Waiting, Counted, NEW p \in Packets, Genuine(p), BoardData(p)
  PROVE  BoardSends /\ HandlesData(p)
<1>1. /\ p.from \in Sockets /\ p.kind = "data" /\ p.from[2] = "data"
      /\ p.seq \in Nat /\ p.seq < Total /\ nextSeq \in Nat
  BY DEF BoardData, Packets, Genuine, Counted, SenderAssumption
<1>2. CASE Board!Refuse(p.from, p.sess, p.seq)
  <2>1. PICK status \in Board!Refused(p.sess, p.seq) : Board!Answer(p.from, p.seq, status, "data")
    BY <1>2 DEF Board!Refuse
  <2>2. status \in Statuses /\ status # "OK"
    BY DEF Board!Refused, Statuses
  <2>3. /\ BoardSends /\ pend'.count = 0
        /\ UNCHANGED <<bSession, nextSeq>>
        /\ \A e \in Elements(out') :
             FromPend(e) \/ (e.to = p.from /\ e.seq = p.seq /\ e.status = status)
    BY <1>1, <2>1, <2>2, AnswerEffects
  <2>4. content' = content
    BY <2>3 DEF BoardData
  <2> QED
    BY <1>1, <2>2, <2>3, <2>4 DEF HandlesData, SameChunks
<1>3. CASE Board!Repeated(p.from, p.sess, p.seq)
  <2>1. bSession = p.sess /\ p.seq < nextSeq /\ Board!Answer(p.from, p.seq, "OK", "data")
    BY <1>3 DEF Board!Repeated
  <2>2. /\ BoardSends /\ pend'.count = 0
        /\ UNCHANGED <<bSession, nextSeq>>
        /\ \A e \in Elements(out') :
             FromPend(e) \/ (e.to = p.from /\ e.seq = p.seq /\ e.status = "OK")
    BY <1>1, <2>1, AnswerEffects DEF Statuses
  <2>3. content' = content
    BY <2>2 DEF BoardData
  <2> QED
    BY <1>1, <2>1, <2>2, <2>3 DEF HandlesData, SameChunks, OkFor
<1>4. CASE Board!Accept(p.from, p.sess, p.seq)
  <2> DEFINE e     == Board!Ack(p.from, p.seq, "OK", "data")
             same  == pend.count > 0 /\ pend.to = p.from
             count == IF same THEN pend.count + 1 ELSE 1
             first == IF same THEN <<>> ELSE Board!HeldBack
  <2>1. /\ bSession = p.sess /\ p.seq = nextSeq /\ nextSeq' = p.seq + 1 /\ bSession' = bSession
        /\ \/ out' = Append(first, e) /\ pend' = Board!NoPend
           \/ out' = first /\ pend' = [to |-> p.from, seq |-> p.seq, count |-> count]
    BY <1>4 DEF Board!Accept
  <2>2. e \in Answers /\ e.to = p.from /\ e.seq = p.seq
    BY <1>1, AckIsAnswer DEF Statuses
  <2>3. first \in Seq(Answers) /\ \A x \in Elements(first) : FromPend(x)
    BY HeldBackIsPend, FewElements
  <2>4. count \in Nat
    BY DEF Waiting
  <2>5. OneMore(p) /\ nextSeq < Total
    BY <1>1, <2>1 DEF OneMore, BoardData
  <2> HIDE DEF e, first, count
  <2>6. CASE out' = Append(first, e) /\ pend' = Board!NoPend
    <3>1. out' \in Seq(Answers) /\ Elements(out') = Elements(first) \cup {e}
      BY <2>2, <2>3, <2>6, AppendElements
    <3>2. Waiting' /\ ~(pend'.count > 0)
      BY <2>6 DEF Board!NoPend, Waiting
    <3> QED
      BY <1>1, <2>1, <2>2, <2>3, <2>5, <3>1, <3>2 DEF BoardSends, HandlesData, OkFor
  <2>7. CASE out' = first /\ pend' = [to |-> p.from, seq |-> p.seq, count |-> count]
    <3>1. pend'.to = p.from /\ pend'.seq = p.seq /\ pend'.count = count
      BY <2>7
    <3>2. Waiting'
      BY <1>1, <2>4, <3>1 DEF Waiting
    <3> QED
      BY <1>1, <2>1, <2>3, <2>5, <2>7, <3>1, <3>2 DEF BoardSends, HandlesData, OkFor
  <2> QED
    BY <2>1, <2>6, <2>7
<1> QED
  BY <1>2, <1>3, <1>4 DEF BoardData, Board!Data

(* A RESET, taken or refused. *)
LEMMA ResetEffects ==
  ASSUME Waiting, NEW p \in Packets, BoardReset(p)
  PROVE  BoardSends /\ HandlesReset(p)
<1>1. p.from \in Sockets /\ p.kind = "reset"
  BY DEF Packets, BoardReset
<1>2. CASE Board!Reset(p.from, p.sess) /\ content' = <<>>
  <2> DEFINE e == Board!Ack(p.from, 0, "OK", "ctl")
  <2>1. e \in Answers /\ e.to = p.from
    BY <1>1, AckIsAnswer DEF Statuses
  <2>2. bSession' = p.sess /\ nextSeq' = 0 /\ pend' = Board!NoPend /\ out' = <<e>>
    BY <1>2 DEF Board!Reset
  <2> HIDE DEF e
  <2>3. Elements(out') = {e} /\ out' \in Seq(Answers)
    BY <2>1, <2>2, FewElements
  <2>4. Waiting' /\ pend'.count = 0
    BY <2>2 DEF Board!NoPend, Waiting
  <2> QED
    BY <1>1, <1>2, <2>1, <2>2, <2>3, <2>4 DEF BoardSends, HandlesReset
<1>3. CASE Board!ResetRefused(p.from) /\ UNCHANGED content
  <2> DEFINE status == IF halted THEN "DMA_ERROR" ELSE "BUSY"
  <2>1. status \in Statuses /\ status # "OK"
    BY DEF Statuses
  <2>2. Board!Answer(p.from, 0, status, "ctl")
    BY <1>3 DEF Board!ResetRefused
  <2> HIDE DEF status
  <2>3. /\ BoardSends /\ pend'.count = 0
        /\ UNCHANGED <<bSession, nextSeq>>
        /\ \A e \in Elements(out') : FromPend(e) \/ (e.to = p.from /\ e.status = status)
    BY <1>1, <2>1, <2>2, AnswerEffects
  <2> QED
    BY <1>1, <1>3, <2>1, <2>3 DEF HandlesReset, SameChunks
<1> QED
  BY <1>2, <1>3 DEF BoardReset

(* The board's timer and its inner work. *)
LEMMA AloneEffects ==
  ASSUME Waiting, Board!Flush \/ Board!Internal, UNCHANGED content
  PROVE  BoardSends /\ WorksAlone
<1>1. CASE Board!Flush
  BY <1>1, HeldBackIsPend DEF Board!Flush, Board!NoPend, BoardSends, WorksAlone, SameChunks, Waiting
<1>2. CASE Board!Internal
  <2>1. out' = <<>> /\ UNCHANGED <<bSession, nextSeq, pend>>
    BY <1>2 DEF Board!Internal
  <2> QED
    BY <2>1, FewElements DEF BoardSends, WorksAlone, SameChunks, Waiting
<1> QED
  BY <1>1, <1>2
-----------------------------------------------------------------------------
(* The worst network.  Acknowledgements name no session, so what one means  *)
(* is carried by its address: the socket of the transfer it was sent for.   *)

(* Random session ids do not repeat.  With two equal ones a late RESET or   *)
(* chunk of the earlier transfer is taken for the later one's, and the      *)
(* promise fails: LinkOrdered shows what is left of it then.                *)
SessionsDiffer == \A t, u \in Transfers : t # u => SessionIds[t] \cap SessionIds[u] = {}

(* What an OK to a transfer's socket promises stays true.                   *)
Kept(a, r) == a.to[2] = "data" => a.seq < r[a.to[1]]

(* The chunks since the last RESET are of the transfer whose session it is, *)
(* and count among those it ever had accepted in a row.                     *)
OneTransfer ==
  /\ \A i \in DOMAIN content : bSession \in SessionIds[content[i]]
  /\ \A t \in Transfers : bSession \in SessionIds[t] => nextSeq <= reached[t]

LinkInv ==
  /\ SenderInv /\ InTransfer
  /\ toBoard \subseteq Packets /\ \A p \in toBoard : Genuine(p)
  /\ Waiting /\ Counted /\ OneTransfer
  /\ pend.count > 0 => Kept(pend, reached)
  /\ toHost \subseteq Answers /\ \A a \in toHost : a.status = "OK" /\ Kept(a, reached)
  /\ transfer > 0 => base <= reached[transfer]

(* Nothing was sent, nothing was promised.                                  *)
LEMMA LinkInitInv ==
  ASSUME SenderAssumption, LinkInit
  PROVE  LinkInv
<1>1. SenderInv
  BY SenderInitInv DEF LinkInit
<1>2. InTransfer /\ transfer = 0
  BY DEF LinkInit, SenderInit, InTransfer
<1>3. Waiting /\ ~(pend.count > 0)
  BY DEF LinkInit, Board!Init, Board!NoPend, Waiting
<1>4. Counted /\ content = <<>> /\ nextSeq = 0
  BY DEF LinkInit, Board!Init, Counted, SenderAssumption
<1>5. OneTransfer
  BY <1>4 DEF OneTransfer, Counted
<1> QED
  BY <1>1, <1>2, <1>3, <1>4, <1>5 DEF LinkInv, LinkInit

(* A chunk more of transfer t, or none: what was reached stays reached, and *)
(* a row of chunks of t counts for t.                                       *)
LEMMA ReachKeeps ==
  ASSUME SenderAssumption, Counted, Reach,
         content' \in Seq(Transfers), Len(content') = nextSeq', nextSeq' \in 0 .. Total
  PROVE  /\ Counted'
         /\ \A t \in Transfers : reached'[t] >= reached[t]
         /\ \A t \in Transfers : InARow(t) => reached'[t] >= nextSeq'
<1> DEFINE r(t) == IF InARow(t) /\ Len(content') > reached[t] THEN Len(content') ELSE reached[t]
<1>1. reached' = [t \in Transfers |-> r(t)]
  BY DEF Reach
<1>2. ASSUME NEW t \in Transfers
      PROVE  /\ r(t) \in 0 .. Total /\ r(t) >= reached[t]
             /\ InARow(t) => r(t) >= nextSeq'
  <2>1. reached[t] \in 0 .. Total /\ Total \in Nat
    BY DEF Counted, SenderAssumption
  <2> QED
    BY <2>1
<1> HIDE DEF r
<1> QED
  BY <1>1, <1>2 DEF Counted

(* The chunks stay a sequence when one is appended or all are forgotten. *)
LEMMA ChunksTyped ==
  ASSUME SenderAssumption, Counted, NEW p \in Packets,
         SameChunks \/ (OneMore(p) /\ nextSeq < Total) \/ (nextSeq' = 0 /\ content' = <<>>)
  PROVE  content' \in Seq(Transfers) /\ Len(content') = nextSeq' /\ nextSeq' \in 0 .. Total
<1>1. content \in Seq(Transfers) /\ Len(content) = nextSeq /\ nextSeq \in 0 .. Total /\ Total \in Nat
  BY DEF Counted, SenderAssumption
<1>2. CASE SameChunks
  BY <1>1, <1>2 DEF SameChunks
<1>3. CASE OneMore(p) /\ nextSeq < Total
  <2>1. p.from[1] \in Transfers
    BY DEF Packets, Sockets
  <2>2. content' \in Seq(Transfers) /\ Len(content') = Len(content) + 1
    BY <1>1, <1>3, <2>1, AppendProperties DEF OneMore
  <2> QED
    BY <1>1, <1>3, <2>2 DEF OneMore
<1>4. CASE nextSeq' = 0 /\ content' = <<>>
  BY <1>1, <1>4
<1> QED
  BY <1>2, <1>3, <1>4

(* Since sessions differ, all chunks of a session are one transfer's.       *)
LEMMA OneTransferKeeps ==
  ASSUME SenderAssumption, SessionsDiffer, Counted, OneTransfer, Reach,
         NEW p \in Packets, Genuine(p), HandlesData(p) \/ HandlesReset(p)
  PROVE  /\ Counted' /\ OneTransfer'
         /\ \A t \in Transfers : reached'[t] >= reached[t]
<1>1. p.from[1] \in Transfers /\ p.sess \in SessionIds[p.from[1]]
  BY DEF Packets, Sockets, Genuine
<1>2. SameChunks \/ (OneMore(p) /\ nextSeq < Total) \/ (nextSeq' = 0 /\ content' = <<>>)
  BY DEF HandlesData, HandlesReset
<1>3. content' \in Seq(Transfers) /\ Len(content') = nextSeq' /\ nextSeq' \in 0 .. Total
  BY <1>2, ChunksTyped
<1>4. /\ Counted' /\ \A t \in Transfers : reached'[t] >= reached[t]
      /\ \A t \in Transfers : InARow(t) => reached'[t] >= nextSeq'
  BY <1>3, ReachKeeps
<1>5. nextSeq \in Nat /\ nextSeq' \in Nat /\ reached \in [Transfers -> Nat] /\ reached' \in [Transfers -> Nat]
  BY <1>4 DEF Counted, SenderAssumption
<1>6. CASE SameChunks /\ bSession' = bSession
  BY <1>4, <1>5, <1>6 DEF OneTransfer, SameChunks
<1>7. CASE OneMore(p) /\ bSession = p.sess /\ bSession' = bSession
  <2>1. content \in Seq(Transfers)
    BY DEF Counted
  <2>2. \A i \in DOMAIN content' : content'[i] = p.from[1]
    <3>1. ASSUME NEW i \in DOMAIN content PROVE content[i] = p.from[1]
      <4>1. content[i] \in Transfers /\ bSession \in SessionIds[content[i]]
        BY <2>1 DEF OneTransfer
      <4> QED
        BY <1>1, <1>7, <4>1 DEF SessionsDiffer
    <3>2. \A i \in DOMAIN content' : i \in DOMAIN content \/ i = Len(content) + 1
      BY <1>1, <1>7, <2>1 DEF OneMore
    <3>3. content'[Len(content) + 1] = p.from[1] /\ \A i \in DOMAIN content : content'[i] = content[i]
      BY <1>1, <1>7, <2>1 DEF OneMore
    <3> QED
      BY <3>1, <3>2, <3>3
  <2>3. reached'[p.from[1]] >= nextSeq'
    BY <1>1, <1>4, <2>2 DEF InARow
  <2>4. \A t \in Transfers : bSession \in SessionIds[t] => t = p.from[1]
    BY <1>1, <1>7 DEF SessionsDiffer
  <2> QED
    BY <1>1, <1>4, <1>5, <1>7, <2>2, <2>3, <2>4 DEF OneTransfer
<1>8. CASE bSession' = p.sess /\ nextSeq' = 0 /\ content' = <<>>
  BY <1>4, <1>5, <1>8 DEF OneTransfer
<1> QED
  BY <1>4, <1>6, <1>7, <1>8 DEF HandlesData, HandlesReset

(* The OKs of a step are kept promises, those held back and those about p.  *)
LEMMA NewOksKept ==
  ASSUME SenderAssumption, Waiting, Counted, Counted', pend.count > 0 => Kept(pend, reached),
         OneTransfer', \A t \in Transfers : reached'[t] >= reached[t], BoardSends,
         NEW p \in Packets, Genuine(p), HandlesData(p) \/ HandlesReset(p)
  PROVE  /\ \A e \in Elements(out') : e \in Answers /\ (e.status = "OK" => Kept(e, reached'))
         /\ pend'.count > 0 => Kept(pend', reached')
<1>1. p.from[1] \in Transfers /\ p.sess \in SessionIds[p.from[1]] /\ p.kind = p.from[2]
  BY DEF Packets, Sockets, Genuine
<1>2. nextSeq' \in Int /\ \A t \in Transfers : reached[t] \in Int /\ reached'[t] \in Int
  BY DEF Counted, SenderAssumption
<1>3. ASSUME NEW e, FromPend(e) PROVE Kept(e, reached')
  <2>1. /\ pend.to \in Sockets /\ pend.seq \in Nat /\ Kept(pend, reached) /\ pend.to[2] = "data"
        /\ e.to = pend.to /\ e.seq = pend.seq
    BY <1>3 DEF FromPend, Waiting
  <2>2. pend.to[1] \in Transfers
    BY <2>1 DEF Sockets
  <2> QED
    BY <1>2, <2>1, <2>2 DEF Kept
<1>4. ASSUME NEW e, OkFor(p, e), bSession' = bSession, e.seq \in Nat PROVE Kept(e, reached')
  <2>1. e.seq < nextSeq' /\ nextSeq' <= reached'[p.from[1]] /\ e.to = p.from
    BY <1>1, <1>4 DEF OkFor, OneTransfer
  <2> QED
    BY <1>1, <1>2, <1>4, <2>1 DEF Kept
<1>5. \A e \in Elements(out') : e \in Answers /\ e.seq \in Nat
  <2>1. \A e \in Elements(out') : e \in Answers
    BY DEF BoardSends, Elements
  <2> QED
    BY <2>1 DEF Answers
<1>6. CASE HandlesData(p)
  <2>1. pend'.count > 0 => pend'.seq \in Nat
    BY DEF BoardSends, Waiting
  <2> QED
    BY <1>3, <1>4, <1>5, <1>6, <2>1 DEF HandlesData
<1>7. CASE HandlesReset(p)
  <2>1. \A e : e.to = p.from => Kept(e, reached')
    BY <1>1, <1>7 DEF HandlesReset, Kept
  <2>2. ~(pend'.count > 0)
    BY <1>7 DEF HandlesReset
  <2> QED
    BY <1>3, <1>5, <1>7, <2>1, <2>2 DEF HandlesReset
<1> QED
  BY <1>6, <1>7

(* What the timer of the coalescer sends was promised before.               *)
LEMMA AloneKeeps ==
  ASSUME SenderAssumption, Waiting, Counted, OneTransfer, pend.count > 0 => Kept(pend, reached),
         BoardSends, WorksAlone, Reach
  PROVE  /\ Counted' /\ OneTransfer'
         /\ \A t \in Transfers : reached'[t] >= reached[t]
         /\ \A e \in Elements(out') : e \in Answers /\ (e.status = "OK" => Kept(e, reached'))
         /\ pend'.count > 0 => Kept(pend', reached')
<1>1. /\ Counted' /\ \A t \in Transfers : reached'[t] >= reached[t]
  BY ReachKeeps DEF WorksAlone, SameChunks, Counted
<1>2. nextSeq \in Int /\ \A t \in Transfers : reached[t] \in Int /\ reached'[t] \in Int
  BY <1>1 DEF Counted, SenderAssumption
<1>3. OneTransfer'
  BY <1>1, <1>2 DEF OneTransfer, WorksAlone, SameChunks
<1>4. pend.count > 0 => Kept(pend, reached')
  <2> SUFFICES ASSUME pend.count > 0 PROVE Kept(pend, reached')
    OBVIOUS
  <2>1. pend.to[1] \in Transfers /\ pend.seq \in Nat
    BY DEF Waiting, Sockets
  <2> QED
    BY <1>1, <1>2, <2>1 DEF Kept
<1>5. \A e : FromPend(e) => Kept(e, reached')
  BY <1>4 DEF FromPend, Kept
<1>6. \A e \in Elements(out') : e \in Answers
  BY DEF BoardSends, Elements
<1>7. pend'.count > 0 => Kept(pend', reached')
  BY <1>4 DEF WorksAlone
<1> QED
  BY <1>1, <1>3, <1>5, <1>6, <1>7 DEF WorksAlone

(* A packet reaches the board, or it works by itself: no promise is broken. *)
LEMMA BoardStepKeeps ==
  ASSUME SenderAssumption, SessionsDiffer, LinkInv, BoardStep
  PROVE  LinkInv'
<1>1. UNCHANGED <<senderVars, toBoard>> /\ Sends /\ Reach
  BY DEF BoardStep
<1>2. SenderInv' /\ InTransfer' /\ UNCHANGED <<transfer, base>>
  BY <1>1 DEF LinkInv, senderVars, transferVars, windowVars, SenderInv, InWindow, Adaptive,
              Progress, InTransfer
<1>3. /\ BoardSends /\ Counted' /\ OneTransfer'
      /\ \A t \in Transfers : reached'[t] >= reached[t]
      /\ \A e \in Elements(out') : e \in Answers /\ (e.status = "OK" => Kept(e, reached'))
      /\ pend'.count > 0 => Kept(pend', reached')
  <2>1. CASE \E p \in toBoard : BoardReset(p) \/ BoardData(p)
    <3>1. PICK p \in toBoard : BoardReset(p) \/ BoardData(p)
      BY <2>1
    <3>2. p \in Packets /\ Genuine(p)
      BY DEF LinkInv
    <3>3. BoardSends /\ (HandlesData(p) \/ HandlesReset(p))
      BY <3>1, <3>2, DataEffects, ResetEffects DEF LinkInv
    <3>4. Counted' /\ OneTransfer' /\ \A t \in Transfers : reached'[t] >= reached[t]
      BY <1>1, <3>2, <3>3, OneTransferKeeps DEF LinkInv
    <3> QED
      BY <3>2, <3>3, <3>4, NewOksKept DEF LinkInv
  <2>2. CASE (Board!Flush \/ Board!Internal) /\ UNCHANGED content
    <3>1. BoardSends /\ WorksAlone
      BY <2>2, AloneEffects DEF LinkInv
    <3> QED
      BY <1>1, <3>1, AloneKeeps DEF LinkInv
  <2> QED
    BY <2>1, <2>2 DEF BoardStep
<1>4. \A t \in Transfers : reached[t] \in Int /\ reached'[t] \in Int
  BY <1>3 DEF LinkInv, Counted
<1>5. \A a \in toHost : Kept(a, reached')
  <2> SUFFICES ASSUME NEW a \in toHost PROVE Kept(a, reached')
    OBVIOUS
  <2>1. a \in Answers /\ Kept(a, reached)
    BY DEF LinkInv
  <2>2. a.to[1] \in Transfers /\ a.seq \in Nat
    BY <2>1 DEF Answers, Sockets
  <2> QED
    BY <1>3, <1>4, <2>1, <2>2 DEF Kept
<1>6. toHost' \subseteq Answers /\ \A a \in toHost' : a.status = "OK" /\ Kept(a, reached')
  BY <1>1, <1>3, <1>5 DEF Sends, LinkInv
<1>7. transfer > 0 => base <= reached'[transfer]
  <2>1. transfer > 0 => transfer \in Transfers
    BY DEF LinkInv, SenderInv, Progress, Transfers, SenderAssumption
  <2>2. base \in Int
    BY DEF LinkInv, SenderInv, InWindow
  <2> QED
    BY <1>3, <1>4, <2>1, <2>2 DEF LinkInv
<1> QED
  BY <1>1, <1>2, <1>3, <1>6, <1>7 DEF LinkInv, BoardSends

(* What the sender puts on the wire is a packet of the transfer under way.  *)
LEMMA SentIsGenuine ==
  ASSUME SenderAssumption, SenderInv, InTransfer, BeginsTransfer \/ SendsFor
  PROVE  \A p \in Elements(sent') : /\ p \in Packets /\ Genuine(p)
                                    /\ p.from \in {ResetSocket, DataSocket} /\ p.sess = sess
<1>1. CASE sent' = <<>>
  BY <1>1, FewElements
<1>2. CASE SendsFor /\ sent' # <<>>
  <2>1. stage # "idle" /\ transfer \in Transfers /\ sess \in SessionIds[transfer] /\ sess \in Nat
    <3>1. stage # "idle"
      BY <1>2 DEF SendsFor
    <3> QED
      BY <3>1 DEF SenderInv, Progress, InTransfer, Transfers, SenderAssumption
  <2>2. CASE sent' = <<ResetPacket>>
    <3>1. ResetPacket \in Packets /\ Genuine(ResetPacket)
      BY <2>1 DEF ResetPacket, ResetSocket, Packets, Genuine, Sockets
    <3>2. ResetPacket.from = ResetSocket /\ ResetPacket.sess = sess
      BY DEF ResetPacket
    <3>3. Elements(sent') = {ResetPacket}
      BY <2>2, FewElements
    <3> QED
      BY <3>1, <3>2, <3>3
  <2>3. CASE \E n \in 0 .. Total - 1 : sent' = <<DataPacket(n)>>
    <3>1. PICK n \in 0 .. Total - 1 : sent' = <<DataPacket(n)>>
      BY <2>3
    <3>2. DataPacket(n) \in Packets /\ Genuine(DataPacket(n))
      BY <2>1 DEF DataPacket, DataSocket, Packets, Genuine, Sockets, SenderAssumption
    <3>3. DataPacket(n).from = DataSocket /\ DataPacket(n).sess = sess
      BY DEF DataPacket
    <3>4. Elements(sent') = {DataPacket(n)}
      BY <3>1, FewElements
    <3> QED
      BY <3>2, <3>3, <3>4
  <2> QED
    BY <1>2, <2>2, <2>3 DEF SendsFor
<1> QED
  BY <1>1, <1>2 DEF BeginsTransfer

(* The sender sends, or reads what may have been promised long ago.         *)
LEMMA SenderStepKeeps ==
  ASSUME SenderAssumption, LinkInv, SenderStep
  PROVE  LinkInv'
<1>1. Local /\ toBoard' = toBoard \cup Elements(sent') /\ UNCHANGED <<boardVars, toHost, histVars>>
  BY DEF SenderStep
<1>2. SenderInv' /\ InTransfer' /\ (BeginsTransfer \/ SendsFor)
  BY <1>1, LocalKeeps, LocalEffects DEF LinkInv
<1>3. toBoard' \subseteq Packets /\ \A p \in toBoard' : Genuine(p)
  BY <1>1, <1>2, SentIsGenuine DEF LinkInv
<1>4. transfer' > 0 => base' <= reached[transfer']
  <2>1. CASE BeginsTransfer
    BY <2>1 DEF BeginsTransfer, LinkInv, Counted, SenderAssumption
  <2>2. CASE SendsFor
    BY <2>2 DEF SendsFor, LinkInv
  <2> QED
    BY <1>2, <2>1, <2>2
<1> QED
  BY <1>1, <1>2, <1>3, <1>4 DEF LinkInv, boardVars, histVars, Waiting, Counted, OneTransfer

LEMMA SenderReadsKeeps ==
  ASSUME SenderAssumption, LinkInv, SenderReads
  PROVE  LinkInv'
<1>1. UNCHANGED <<boardVars, netVars, histVars>>
  BY DEF SenderReads
<1>2. SenderInv' /\ InTransfer' /\ (transfer' > 0 => base' <= reached[transfer'])
  <2>1. CASE \E a \in toHost : Open(a.to) /\ Take(a)
    <3>1. PICK a \in toHost : Open(a.to) /\ Take(a)
      BY <2>1
    <3>2. a \in Answers /\ a.status = "OK" /\ Kept(a, reached)
      BY DEF LinkInv
    <3>3. SenderInv'
      BY <3>1, <3>2, TakeKeeps DEF LinkInv, Answers
    <3>4. /\ InTransfer' /\ transfer' = transfer
          /\ base' = base \/ (stage = "drain" /\ base' = a.seq + 1)
      BY <3>1, TakeEffects DEF LinkInv
    <3>5. CASE stage = "drain" /\ base' = a.seq + 1
      <4>1. a.to = DataSocket /\ a.seq \in Nat /\ transfer \in Transfers
        BY <3>1, <3>2, <3>5 DEF Open, Answers, LinkInv, InTransfer, SenderInv, Progress, Transfers,
                                SenderAssumption
      <4>2. a.seq < reached[transfer] /\ reached[transfer] \in Int
        BY <3>2, <4>1 DEF Kept, DataSocket, LinkInv, Counted
      <4> QED
        BY <3>3, <3>4, <3>5, <4>1, <4>2
    <3> QED
      BY <3>3, <3>4, <3>5 DEF LinkInv
  <2>2. CASE \E n \in 0 .. Total - 1, status \in Statuses \ {"OK"} :
               Take([seq |-> n, status |-> status])
    <3>1. PICK n \in 0 .. Total - 1, status \in Statuses \ {"OK"} :
            Take([seq |-> n, status |-> status])
      BY <2>2
    <3> DEFINE a == [seq |-> n, status |-> status]
    <3>2. Take(a) /\ a.status \in Statuses /\ a.status # "OK"
      BY <3>1
    <3> HIDE DEF a
    <3>3. SenderInv' /\ InTransfer' /\ transfer' = transfer /\ base' = base
      BY <3>2, TakeKeeps, TakeEffects DEF LinkInv
    <3> QED
      BY <3>3 DEF LinkInv
  <2> QED
    BY <2>1, <2>2 DEF SenderReads
<1> QED
  BY <1>1, <1>2 DEF LinkInv, boardVars, netVars, histVars, Waiting, Counted, OneTransfer

(* LinkInv is inductive as soon as sessions differ. *)
THEOREM PromisesKept ==
  ASSUME SessionsDiffer
  PROVE  LinkSpec => []LinkInv
<1> USE SenderAssumption
<1>1. LinkInit => LinkInv
  BY LinkInitInv
<1>2. LinkInv /\ [LinkNext]_linkVars => LinkInv'
  <2> SUFFICES ASSUME LinkInv, [LinkNext]_linkVars PROVE LinkInv'
    OBVIOUS
  <2>1. CASE UNCHANGED linkVars
    BY <2>1 DEF linkVars, senderVars, transferVars, windowVars, boardVars, netVars, histVars,
                LinkInv, SenderInv, InWindow, Adaptive, Progress, InTransfer, Waiting, Counted,
                OneTransfer
  <2> QED
    BY <2>1, SenderStepKeeps, SenderReadsKeeps, BoardStepKeeps DEF LinkNext
<1> QED
  BY <1>1, <1>2, PTL DEF LinkSpec

(* What the sender counts as acked the board accepted, from the transfer's  *)
(* first chunk on and without a foreign chunk in between, whatever the      *)
(* network loses, repeats or reorders; a transfer reported done, all of it. *)
THEOREM AckedMeansAccepted ==
  ASSUME SessionsDiffer
  PROVE  LinkSpec => []AckedWasAccepted
<1>1. ASSUME LinkInv, stage = "done" PROVE reached[transfer] = Total
  <2>1. transfer \in Transfers /\ base = Total
    BY <1>1, SenderAssumption
       DEF LinkInv, InTransfer, SenderInv, Progress, Transfers, SenderAssumption
  <2>2. Total <= reached[transfer] /\ reached[transfer] \in 0 .. Total /\ Total \in Nat
    BY <1>1, <2>1, SenderAssumption DEF LinkInv, Counted, SenderAssumption, Transfers
  <2> QED
    BY <2>2
<1>2. LinkInv => AckedWasAccepted
  BY <1>1 DEF LinkInv, AckedWasAccepted
<1> QED
  BY <1>2, PromisesKept, PTL

-----------------------------------------------------------------------------
(* The cable.  What is lost on it leaves a gap and nothing else, so what    *)
(* the board handles last was sent last; session ids may repeat.            *)

Before(p, q) ==
  \/ p.from[1] < q.from[1]
  \/ p.from[1] = q.from[1] /\ (p.kind = "data" => q.kind = "data")

(* Packets reach the board in the order of the transfers, the RESETs of one *)
(* before its data.                                                         *)
InOrder ==
  /\ toBoard \in Seq(Packets)
  /\ \A p \in Elements(toBoard) :
       /\ Genuine(p) /\ p.from[1] <= transfer
       /\ p.from[1] = transfer => p.sess = sess
       /\ stage \in {"reset", "await"} => p.from # DataSocket
  /\ \A i, j \in 1 .. Len(toBoard) : i < j => Before(toBoard[i], toBoard[j])

(* No answer is to a transfer that has not begun. *)
AnswersPast ==
  /\ toHost \in Seq(Answers)
  /\ \A a \in Elements(toHost) : a.to[1] <= transfer
  /\ pend.count > 0 => pend.to[1] <= transfer

(* An OK about the data of this transfer, under way or held back.           *)
OkUnderWay(n) ==
  \/ \E a \in Elements(toHost) : a.to = DataSocket /\ a.status = "OK" /\ a.seq = n
  \/ pend.count > 0 /\ pend.to = DataSocket /\ pend.seq = n

(* The board has seen no data of this transfer ...                          *)
Fresh == base = 0 /\ \A n \in Nat : ~OkUnderWay(n)

(* ... unless nothing else can reach it any more.                           *)
OnlyData == stage \notin {"reset", "await"} /\ \A p \in Elements(toBoard) : p.from = DataSocket

(* The board is in this transfer's session, and no packet of an earlier one *)
(* can reach it any more.                                                   *)
InSession ==
  /\ bSession = sess
  /\ \A i \in DOMAIN content : content[i] = transfer
  /\ \A p \in Elements(toBoard) : p.from[1] = transfer

(* The handshake has succeeded, or its OK is under way.                     *)
Confirmed ==
  \/ stage \in {"fill", "drain", "retry", "done"}
  \/ \E a \in Elements(toHost) : a.to = ResetSocket /\ a.status = "OK"

OrderedInv ==
  /\ SenderInv /\ InTransfer
  /\ InOrder /\ AnswersPast /\ Waiting /\ Counted
  /\ OnlyData \/ Fresh
  /\ Confirmed => InSession
  /\ base <= nextSeq
  /\ \A n \in Nat : OkUnderWay(n) => n < nextSeq
(* Queues: what a step adds or takes. *)
LEMMA QueueElements ==
  ASSUME NEW S, NEW q \in Seq(S), NEW r \in Seq(S), NEW x \in Queue(q, r)
  PROVE  /\ x \in Seq(S) /\ Elements(x) \subseteq Elements(q) \cup Elements(r)
         /\ x = q \/ x = q \o r
<1>1. x = q \/ x = q \o r
  BY DEF Queue
<1>2. q \o r \in Seq(S)
  BY ConcatProperties
<1>3. Elements(q \o r) \subseteq Elements(q) \cup Elements(r)
  <2> SUFFICES ASSUME NEW i \in 1 .. Len(q \o r)
               PROVE  (q \o r)[i] \in Elements(q) \cup Elements(r)
    BY <1>2 DEF Elements
  <2>1. Len(q) \in Nat /\ Len(r) \in Nat /\ Len(q \o r) = Len(q) + Len(r)
    BY ConcatProperties
  <2>2. CASE i <= Len(q)
    BY <2>1, <2>2 DEF Elements
  <2>3. CASE i > Len(q)
    <3>1. (q \o r)[i] = r[i - Len(q)] /\ i - Len(q) \in 1 .. Len(r)
      BY <2>1, <2>3
    <3> QED
      BY <3>1 DEF Elements
  <2> QED
    BY <2>1, <2>2, <2>3
<1> QED
  BY <1>1, <1>2, <1>3

LEMMA TailElements ==
  ASSUME NEW S, NEW q \in Seq(S), q # <<>>
  PROVE  /\ Tail(q) \in Seq(S) /\ Head(q) \in Elements(q) /\ Elements(Tail(q)) \subseteq Elements(q)
         /\ Head(q) = q[1] /\ Len(Tail(q)) = Len(q) - 1 /\ Len(q) \in Nat \ {0}
         /\ \A i \in 1 .. Len(Tail(q)) : Tail(q)[i] = q[i + 1]
<1>1. /\ Tail(q) \in Seq(S) /\ Head(q) = q[1] /\ Len(Tail(q)) = Len(q) - 1 /\ Len(q) \in Nat \ {0}
      /\ \A i \in 1 .. Len(Tail(q)) : Tail(q)[i] = q[i + 1]
  BY HeadTailProperties
<1>2. Head(q) \in Elements(q)
  BY <1>1 DEF Elements
<1>3. ASSUME NEW i \in 1 .. Len(Tail(q)) PROVE Tail(q)[i] \in Elements(q)
  BY <1>1 DEF Elements
<1>4. Elements(Tail(q)) \subseteq Elements(q)
  BY <1>1, <1>3 DEF Elements
<1> QED
  BY <1>1, <1>2, <1>4

LEMMA SubSeqElements ==
  ASSUME NEW S, NEW q \in Seq(S), NEW m \in {1, 2}, NEW n \in {Len(q) - 1, Len(q)}
  PROVE  SubSeq(q, m, n) \in Seq(S) /\ Elements(SubSeq(q, m, n)) \subseteq Elements(q)
<1>1. /\ SubSeq(q, m, n) \in Seq(S)
      /\ \A i \in 1 .. Len(SubSeq(q, m, n)) : SubSeq(q, m, n)[i] \in Elements(q)
  <2>1. Len(q) \in Nat /\ m \in Nat /\ n \in Int
    OBVIOUS
  <2>2. \A i \in m .. n : i \in 1 .. Len(q)
    BY <2>1
  <2>3. /\ SubSeq(q, m, n) \in Seq(S)
        /\ \A i \in 1 .. Len(SubSeq(q, m, n)) : SubSeq(q, m, n)[i] = q[m + i - 1]
        /\ Len(SubSeq(q, m, n)) = IF m <= n THEN n - m + 1 ELSE 0
    BY <2>1, <2>2, SubSeqProperties
  <2>4. ASSUME NEW i \in 1 .. Len(SubSeq(q, m, n)) PROVE m + i - 1 \in m .. n
    BY <2>1, <2>3
  <2>5. \A i \in 1 .. Len(SubSeq(q, m, n)) : SubSeq(q, m, n)[i] \in Elements(q)
    BY <2>2, <2>3, <2>4 DEF Elements
  <2> QED
    BY <2>3, <2>5
<1> QED
  BY <1>1 DEF Elements

(* A packet of a transfer is from one of its two sockets. *)
LEMMA SocketOf ==
  ASSUME NEW p \in Packets, Genuine(p)
  PROVE  p.from = <<p.from[1], p.kind>> /\ p.kind \in {"reset", "data"} /\ p.from[1] \in Nat
  BY DEF Packets, Genuine, Sockets, Transfers

(* What is left behind the packet at the front was not sent before it.      *)
LEMMA BehindTheFront ==
  ASSUME SenderAssumption, SenderInv, InOrder, toBoard # <<>>, toBoard' = Tail(toBoard)
  PROVE  /\ Head(toBoard) \in Elements(toBoard) /\ Head(toBoard) \in Packets
         /\ toBoard' \in Seq(Packets) /\ Elements(toBoard') \subseteq Elements(toBoard)
         /\ \A i, j \in 1 .. Len(toBoard') : i < j => Before(toBoard'[i], toBoard'[j])
         /\ \A q \in Elements(toBoard') : Before(Head(toBoard), q)
<1> DEFINE t == Tail(toBoard)
<1>1. toBoard \in Seq(Packets) /\ \A i, j \in 1 .. Len(toBoard) : i < j => Before(toBoard[i], toBoard[j])
  BY DEF InOrder
<1>2. /\ t \in Seq(Packets) /\ Head(toBoard) \in Elements(toBoard) /\ Elements(t) \subseteq Elements(toBoard)
      /\ Head(toBoard) = toBoard[1] /\ Len(t) = Len(toBoard) - 1 /\ Len(toBoard) \in Nat \ {0}
      /\ \A i \in 1 .. Len(t) : t[i] = toBoard[i + 1]
  BY <1>1, TailElements
<1>3. \A i, j \in 1 .. Len(t) : i < j => Before(t[i], t[j])
  <2> SUFFICES ASSUME NEW i \in 1 .. Len(t), NEW j \in 1 .. Len(t), i < j
               PROVE  Before(t[i], t[j])
    OBVIOUS
  <2>1. i + 1 \in 1 .. Len(toBoard) /\ j + 1 \in 1 .. Len(toBoard) /\ i + 1 < j + 1
    BY <1>2
  <2> QED
    BY <1>1, <1>2, <2>1
<1>4. ASSUME NEW i \in 1 .. Len(t) PROVE Before(Head(toBoard), t[i])
  <2>1. 1 \in 1 .. Len(toBoard) /\ i + 1 \in 1 .. Len(toBoard) /\ 1 < i + 1
    BY <1>2
  <2> QED
    BY <1>1, <1>2, <2>1
<1>5. \A q \in Elements(t) : Before(Head(toBoard), q)
  BY <1>2, <1>4 DEF Elements
<1>6. Head(toBoard) \in Packets
  BY <1>1
<1> QED
  BY <1>2, <1>3, <1>5, <1>6

(* A packet behind all others, of the transfer under way and no RESET after *)
(* its data, keeps the order.                                               *)
LEMMA SentLast ==
  ASSUME InOrder, NEW p \in Packets, \A q \in Elements(toBoard) : Before(q, p)
  PROVE  /\ toBoard \o <<p>> \in Seq(Packets)
         /\ \A i, j \in 1 .. Len(toBoard \o <<p>>) :
              i < j => Before((toBoard \o <<p>>)[i], (toBoard \o <<p>>)[j])
<1> DEFINE b == toBoard \o <<p>>
<1>1. toBoard \in Seq(Packets) /\ Len(toBoard) \in Nat
  BY DEF InOrder
<1>2. /\ b \in Seq(Packets) /\ Len(b) = Len(toBoard) + 1
      /\ \A i \in 1 .. Len(toBoard) : b[i] = toBoard[i]
      /\ b[Len(toBoard) + 1] = p
  BY <1>1
<1>3. \A i \in 1 .. Len(toBoard) : Before(toBoard[i], p)
  BY <1>1 DEF Elements
<1> HIDE DEF b
<1>4. ASSUME NEW i \in 1 .. Len(b), NEW j \in 1 .. Len(b), i < j PROVE Before(b[i], b[j])
  <2>1. i \in 1 .. Len(toBoard)
    BY <1>1, <1>2, <1>4
  <2>2. CASE j \in 1 .. Len(toBoard)
    BY <1>2, <1>4, <2>1, <2>2 DEF InOrder
  <2>3. CASE j = Len(toBoard) + 1
    BY <1>2, <1>3, <2>1, <2>3
  <2> QED
    BY <1>1, <1>2, <2>2, <2>3
<1> QED
  BY <1>2, <1>4 DEF b
(* The sender's send: a RESET before data, data after, behind all that is   *)
(* on the cable.                                                            *)
LEMMA SendKeepsOrder ==
  ASSUME SenderAssumption, SenderInv, InTransfer, InOrder, SendsFor,
         toBoard' \in Queue(toBoard, sent')
  PROVE  /\ InOrder'
         /\ \A p \in Elements(toBoard') : \/ p \in Elements(toBoard)
                                          \/ p.from = ResetSocket /\ stage \in {"reset", "await"}
                                          \/ p.from = DataSocket
<1>1. UNCHANGED <<transfer, sess>> /\ (stage' \in {"reset", "await"} => stage \in {"reset", "await"})
  BY DEF SendsFor
<1>2. DataSocket' = DataSocket
  BY <1>1 DEF DataSocket
<1>3. toBoard \in Seq(Packets)
  BY DEF InOrder
<1>4. CASE toBoard' = toBoard
  BY <1>1, <1>2, <1>4 DEF InOrder
<1>5. CASE sent' = <<>>
  <2>1. toBoard' = toBoard
    BY <1>3, <1>5, ConcatEmptySeq DEF Queue
  <2> QED
    BY <1>4, <2>1
<1>6. ASSUME NEW p, sent' = <<p>>, toBoard' = toBoard \o <<p>>,
             \/ p.from = ResetSocket /\ stage \in {"reset", "await"}
             \/ p.from = DataSocket /\ stage \notin {"reset", "await"}
      PROVE  /\ InOrder'
             /\ \A q \in Elements(toBoard') : q \in Elements(toBoard) \/ q = p
  <2>1. p \in Packets /\ Genuine(p) /\ p.sess = sess /\ p.from[1] = transfer
    <3>1. Elements(sent') = {p}
      BY <1>6, FewElements
    <3>2. p \in Packets /\ Genuine(p) /\ p.sess = sess
      BY <3>1, SentIsGenuine
    <3> QED
      BY <1>6, <3>2 DEF ResetSocket, DataSocket
  <2>2. ASSUME NEW q \in Elements(toBoard) PROVE Before(q, p)
    <3>1. /\ q \in Packets /\ Genuine(q) /\ q.from[1] <= transfer
          /\ stage \in {"reset", "await"} => q.from # DataSocket
      <4>1. q \in Packets
        BY <1>3 DEF Elements
      <4> QED
        BY <4>1 DEF InOrder
    <3>2. q.from = <<q.from[1], q.kind>> /\ q.from[1] \in Nat /\ p.from = <<transfer, p.kind>>
      BY <2>1, <3>1, SocketOf
    <3>3. transfer \in Nat
      BY DEF SenderInv, Progress
    <3>4. CASE p.from = DataSocket
      BY <2>1, <3>1, <3>2, <3>3, <3>4 DEF Before, DataSocket
    <3>5. CASE stage \in {"reset", "await"}
      <4>1. q.from[1] = transfer => q.kind # "data"
        BY <3>1, <3>2, <3>5 DEF DataSocket
      <4> QED
        BY <2>1, <3>1, <3>2, <3>3, <4>1 DEF Before
    <3> QED
      BY <1>6, <3>4, <3>5
  <2>3. /\ toBoard' \in Seq(Packets)
        /\ \A i, j \in 1 .. Len(toBoard') : i < j => Before(toBoard'[i], toBoard'[j])
    BY <1>6, <2>1, <2>2, SentLast
  <2>4. \A q \in Elements(toBoard') : q \in Elements(toBoard) \/ q = p
    <3>1. sent' \in Seq(Packets) /\ Elements(sent') = {p}
      BY <1>6, <2>1, FewElements
    <3>2. Elements(toBoard') \subseteq Elements(toBoard) \cup Elements(sent')
      BY <1>3, <3>1, QueueElements
    <3> QED
      BY <3>1, <3>2
  <2>5. stage' \in {"reset", "await"} => p.from # DataSocket
    BY <1>1, <1>6 DEF ResetSocket, DataSocket
  <2>6. ASSUME NEW q \in Elements(toBoard')
        PROVE  /\ Genuine(q) /\ q.from[1] <= transfer'
               /\ q.from[1] = transfer' => q.sess = sess'
               /\ stage' \in {"reset", "await"} => q.from # DataSocket'
    <3>1. transfer <= transfer
      BY DEF SenderInv, Progress
    <3>2. CASE q = p
      BY <1>1, <1>2, <2>1, <2>5, <3>1, <3>2
    <3>3. CASE q \in Elements(toBoard)
      BY <1>1, <1>2, <3>3 DEF InOrder
    <3> QED
      BY <2>4, <3>2, <3>3
  <2> QED
    BY <2>3, <2>4, <2>6 DEF InOrder
<1>7. CASE sent' = <<ResetPacket>> /\ stage \in {"reset", "await"}
  <2>1. ResetPacket.from = ResetSocket
    BY DEF ResetPacket
  <2>2. toBoard' = toBoard \/ toBoard' = toBoard \o <<ResetPacket>>
    BY <1>7 DEF Queue
  <2>3. CASE toBoard' = toBoard \o <<ResetPacket>>
    <3>1. InOrder' /\ \A q \in Elements(toBoard') : q \in Elements(toBoard) \/ q = ResetPacket
      BY <1>6, <1>7, <2>1, <2>3
    <3> QED
      BY <1>7, <2>1, <3>1
  <2> QED
    BY <1>4, <2>2, <2>3
<1>8. CASE \E n \in 0 .. Total - 1 :
             sent' = <<DataPacket(n)>> /\ stage \in {"fill", "drain", "retry", "done"}
  <2>1. PICK n \in 0 .. Total - 1 :
          sent' = <<DataPacket(n)>> /\ stage \in {"fill", "drain", "retry", "done"}
    BY <1>8
  <2>2. DataPacket(n).from = DataSocket
    BY DEF DataPacket
  <2>3. toBoard' = toBoard \/ toBoard' = toBoard \o <<DataPacket(n)>>
    BY <2>1 DEF Queue
  <2>4. CASE toBoard' = toBoard \o <<DataPacket(n)>>
    <3>1. InOrder' /\ \A q \in Elements(toBoard') : q \in Elements(toBoard) \/ q = DataPacket(n)
      BY <1>6, <2>1, <2>2, <2>4
    <3> QED
      BY <2>2, <3>1
  <2> QED
    BY <1>4, <2>3, <2>4
<1> QED
  BY <1>5, <1>7, <1>8 DEF SendsFor

(* The invariant holds before the first transfer.                           *)
LEMMA OrderedInitInv ==
  ASSUME SenderAssumption, OrderedInit
  PROVE  OrderedInv
<1>1. SenderInv
  BY SenderInitInv DEF OrderedInit
<1>2. InTransfer /\ transfer = 0 /\ base = 0 /\ stage = "idle"
  BY DEF OrderedInit, SenderInit, InTransfer
<1>3. Waiting /\ ~(pend.count > 0)
  BY DEF OrderedInit, Board!Init, Board!NoPend, Waiting
<1>4. Counted /\ nextSeq = 0
  BY DEF OrderedInit, Board!Init, Counted, SenderAssumption
<1>5. toBoard = <<>> /\ toHost = <<>> /\ Elements(toBoard) = {} /\ Elements(toHost) = {}
  BY FewElements DEF OrderedInit
<1>6. InOrder /\ AnswersPast
  BY <1>3, <1>5 DEF InOrder, AnswersPast
<1>7. \A n \in Nat : ~OkUnderWay(n)
  BY <1>3, <1>5 DEF OkUnderWay
<1>8. ~Confirmed
  BY <1>2, <1>5 DEF Confirmed
<1> QED
  BY <1>1, <1>2, <1>3, <1>4, <1>6, <1>7, <1>8 DEF OrderedInv, Fresh

(* A new transfer is unknown to the board; its socket has had no answer.    *)
LEMMA BeginKeepsOrdered ==
  ASSUME SenderAssumption, OrderedInv, OrderedSend, BeginsTransfer
  PROVE  OrderedInv'
<1>1. SenderInv' /\ InTransfer' /\ UNCHANGED <<boardVars, toHost, histVars>>
  BY LocalKeeps, LocalEffects DEF OrderedSend, OrderedInv
<1>2. /\ transfer' = transfer + 1 /\ transfer \in Nat
      /\ base' = 0 /\ stage' = "reset" /\ sent' = <<>>
  BY DEF BeginsTransfer, OrderedInv, SenderInv, Progress
<1>3. toBoard' = toBoard /\ toBoard \in Seq(Packets)
  <2>1. toBoard \in Seq(Packets) /\ toBoard' \in Queue(toBoard, <<>>)
    BY <1>2 DEF OrderedSend, OrderedInv, InOrder
  <2> QED
    BY <2>1, ConcatEmptySeq DEF Queue
<1>4. \A p \in Elements(toBoard) : p.from[1] \in Nat /\ p.from[1] <= transfer /\ p.from[1] # transfer'
  <2> SUFFICES ASSUME NEW p \in Elements(toBoard)
               PROVE  p.from[1] \in Nat /\ p.from[1] <= transfer /\ p.from[1] # transfer'
    OBVIOUS
  <2>1. p \in Packets
    BY <1>3 DEF Elements
  <2>2. Genuine(p) /\ p.from[1] <= transfer
    BY DEF OrderedInv, InOrder
  <2>3. p.from[1] \in Nat
    BY <2>1, <2>2, SocketOf
  <2> QED
    BY <1>2, <2>2, <2>3
<1>5. InOrder'
  <2>1. \A p \in Elements(toBoard) : p.from # DataSocket'
    BY <1>4 DEF DataSocket
  <2>2. \A p \in Elements(toBoard) : p.from[1] <= transfer'
    BY <1>2, <1>4
  <2> QED
    BY <1>3, <1>4, <2>1, <2>2 DEF OrderedInv, InOrder
<1>6. \A a \in Elements(toHost) : a.to[1] \in Nat /\ a.to[1] <= transfer /\ a.to[1] # transfer'
  <2> SUFFICES ASSUME NEW a \in Elements(toHost)
               PROVE  a.to[1] \in Nat /\ a.to[1] <= transfer /\ a.to[1] # transfer'
    OBVIOUS
  <2>1. a \in Answers /\ a.to[1] <= transfer
    BY DEF OrderedInv, AnswersPast, Elements
  <2>2. a.to[1] \in Nat
    BY <2>1 DEF Answers, Sockets, Transfers
  <2> QED
    BY <1>2, <2>1, <2>2
<1>7. pend.count > 0 => pend.to[1] \in Nat /\ pend.to[1] <= transfer /\ pend.to[1] # transfer'
  <2> SUFFICES ASSUME pend.count > 0
               PROVE  pend.to[1] \in Nat /\ pend.to[1] <= transfer /\ pend.to[1] # transfer'
    OBVIOUS
  <2>1. pend.to[1] \in Nat /\ pend.to[1] <= transfer
    BY DEF OrderedInv, AnswersPast, Waiting, Sockets, Transfers
  <2> QED
    BY <1>2, <2>1
<1>8. AnswersPast' /\ (\A n \in Nat : ~OkUnderWay(n)') /\ ~Confirmed'
  <2>1. UNCHANGED <<toHost, pend>>
    BY <1>1 DEF boardVars
  <2>2. AnswersPast'
    BY <1>2, <1>6, <1>7, <2>1 DEF OrderedInv, AnswersPast
  <2>3. \A a \in Elements(toHost') : a.to # DataSocket' /\ a.to # ResetSocket'
    BY <1>6, <2>1 DEF DataSocket, ResetSocket
  <2>4. ~(pend'.count > 0 /\ pend'.to = DataSocket')
    BY <1>7, <2>1 DEF DataSocket
  <2> QED
    BY <1>2, <2>2, <2>3, <2>4 DEF OkUnderWay, Confirmed
<1>9. base' <= nextSeq'
  BY <1>1, <1>2 DEF boardVars, OrderedInv, Counted, SenderAssumption
<1> QED
  BY <1>1, <1>2, <1>5, <1>8, <1>9
     DEF OrderedInv, Fresh, Waiting, Counted, boardVars, histVars

(* Whatever else the sender does by itself leaves the board's view alone.   *)
LEMMA SendKeepsOrdered ==
  ASSUME SenderAssumption, OrderedInv, OrderedSend, SendsFor
  PROVE  OrderedInv'
<1>1. SenderInv' /\ InTransfer' /\ UNCHANGED <<boardVars, toHost, histVars>>
  BY LocalKeeps, LocalEffects DEF OrderedSend, OrderedInv
<1>2. /\ UNCHANGED <<transfer, sess, base>>
      /\ stage' \in {"reset", "await"} => stage \in {"reset", "await"}
      /\ stage' \in {"fill", "drain", "retry", "done"} => stage \in {"fill", "drain", "retry", "done"}
  BY DEF SendsFor
<1>3. UNCHANGED <<DataSocket, ResetSocket, toHost, pend, bSession, nextSeq, content>>
  BY <1>1, <1>2 DEF DataSocket, ResetSocket, boardVars, histVars
<1>4. /\ InOrder'
      /\ \A p \in Elements(toBoard') : \/ p \in Elements(toBoard)
                                       \/ p.from = ResetSocket /\ stage \in {"reset", "await"}
                                       \/ p.from = DataSocket
  BY SendKeepsOrder DEF OrderedSend, OrderedInv
<1>5. AnswersPast'
  BY <1>2, <1>3 DEF OrderedInv, AnswersPast
<1>6. \A n \in Nat : OkUnderWay(n)' <=> OkUnderWay(n)
  BY <1>3 DEF OkUnderWay
<1>7. OnlyData' \/ Fresh'
  <2>1. CASE Fresh
    BY <1>2, <1>6, <2>1 DEF Fresh
  <2>2. CASE OnlyData
    BY <1>2, <1>3, <1>4, <2>2 DEF OnlyData
  <2> QED
    BY <2>1, <2>2 DEF OrderedInv
<1>8. Confirmed' => InSession'
  <2>1. Confirmed' => Confirmed
    BY <1>2, <1>3 DEF Confirmed
  <2>2. ResetSocket[1] = transfer /\ DataSocket[1] = transfer
    BY DEF ResetSocket, DataSocket
  <2>3. InSession => InSession'
    BY <1>2, <1>3, <1>4, <2>2 DEF InSession
  <2> QED
    BY <2>1, <2>3 DEF OrderedInv
<1>9. base' <= nextSeq' /\ \A n \in Nat : OkUnderWay(n)' => n < nextSeq'
  BY <1>2, <1>3, <1>6 DEF OrderedInv
<1> QED
  BY <1>1, <1>3, <1>4, <1>5, <1>7, <1>8, <1>9 DEF OrderedInv, Waiting, Counted, histVars

(* The sender reads: base moves only to where the board is.                 *)
LEMMA ReadKeepsOrdered ==
  ASSUME SenderAssumption, OrderedInv, OrderedRead
  PROVE  OrderedInv'
<1> DEFINE a == Head(toHost)
<1>1. /\ toHost # <<>> /\ toHost' = Tail(toHost) /\ UNCHANGED <<boardVars, toBoard, histVars>>
      /\ IF Open(a.to) THEN Take(a) ELSE UNCHANGED senderVars
  BY DEF OrderedRead
<1>2. toHost' \in Seq(Answers) /\ a \in Elements(toHost) /\ Elements(toHost') \subseteq Elements(toHost)
  BY <1>1, TailElements DEF OrderedInv, AnswersPast
<1>3. a \in Answers /\ a.status \in Statuses /\ a.seq \in Nat
  <2>1. a \in Answers
    BY <1>2 DEF OrderedInv, AnswersPast, Elements
  <2> QED
    BY <2>1 DEF Answers
<1> HIDE DEF a
<1>4. /\ SenderInv' /\ InTransfer' /\ UNCHANGED <<transfer, sess>>
      /\ base' = base \/ (Open(a.to) /\ stage = "drain" /\ a.status = "OK" /\ base' = a.seq + 1)
      /\ stage' \in {"reset", "await"} => stage \in {"reset", "await"}
      /\ stage' \in {"fill", "drain", "retry", "done"} =>
           \/ stage \in {"fill", "drain", "retry", "done"}
           \/ Open(a.to) /\ stage = "await" /\ a.status = "OK"
  <2>1. CASE Open(a.to)
    <3>1. Take(a)
      BY <1>1, <2>1
    <3> QED
      BY <1>3, <2>1, <3>1, TakeKeeps, TakeEffects DEF OrderedInv
  <2>2. CASE ~Open(a.to)
    BY <1>1, <2>2 DEF senderVars, transferVars, windowVars, OrderedInv, SenderInv, InWindow,
                      Adaptive, Progress, InTransfer
  <2> QED
    BY <2>1, <2>2
<1>5. UNCHANGED <<DataSocket, ResetSocket, toBoard, pend, bSession, nextSeq, content>>
  BY <1>1, <1>4 DEF DataSocket, ResetSocket, boardVars, histVars
<1>6. InOrder' /\ AnswersPast'
  BY <1>2, <1>4, <1>5 DEF OrderedInv, InOrder, AnswersPast
<1>7. \A n \in Nat : OkUnderWay(n)' => OkUnderWay(n)
  BY <1>2, <1>5 DEF OkUnderWay
<1>8. base' = base \/ (OkUnderWay(a.seq) /\ base' = a.seq + 1)
  BY <1>2, <1>4 DEF Open, OkUnderWay
<1>9. OnlyData' \/ Fresh'
  <2>1. CASE Fresh
    BY <1>3, <1>7, <1>8, <2>1 DEF Fresh
  <2>2. CASE OnlyData
    BY <1>4, <1>5, <2>2 DEF OnlyData
  <2> QED
    BY <2>1, <2>2 DEF OrderedInv
<1>10. Confirmed' => InSession'
  <2>1. Confirmed' => Confirmed
    <3>1. Open(a.to) /\ stage = "await" /\ a.status = "OK" => Confirmed
      BY <1>2 DEF Open, Confirmed
    <3> QED
      BY <1>2, <1>4, <1>5, <3>1 DEF Confirmed
  <2>2. InSession => InSession'
    BY <1>4, <1>5 DEF InSession
  <2> QED
    BY <2>1, <2>2 DEF OrderedInv
<1>11. base' <= nextSeq' /\ \A n \in Nat : OkUnderWay(n)' => n < nextSeq'
  <2>1. nextSeq \in Int
    BY DEF OrderedInv, Counted
  <2>2. a.seq \in Int
    BY <1>3
  <2> QED
    BY <1>3, <1>5, <1>7, <1>8, <2>1, <2>2 DEF OrderedInv
<1> QED
  BY <1>1, <1>4, <1>5, <1>6, <1>9, <1>10, <1>11
     DEF OrderedInv, Waiting, Counted, histVars
(* What the sender may read after the step of the board is what was under   *)
(* way before it and what the board sent in it.                             *)
LEMMA AnswersAfter ==
  ASSUME toHost \in Seq(Answers), out' \in Seq(Answers),
         toHost' \in Answer(toHost, out')
  PROVE  /\ toHost' \in Seq(Answers)
         /\ Elements(toHost') \subseteq Elements(toHost) \cup Elements(out')
<1>1. ASSUME NEW r \in Seq(Answers), Elements(r) \subseteq Elements(out'),
             toHost' \in Queue(toHost, r)
      PROVE  /\ toHost' \in Seq(Answers)
             /\ Elements(toHost') \subseteq Elements(toHost) \cup Elements(out')
  BY <1>1, QueueElements
<1>2. SubSeq(out', 2, Len(out')) \in Seq(Answers)
      /\ Elements(SubSeq(out', 2, Len(out'))) \subseteq Elements(out')
  BY SubSeqElements
<1>3. SubSeq(out', 1, Len(out') - 1) \in Seq(Answers)
      /\ Elements(SubSeq(out', 1, Len(out') - 1)) \subseteq Elements(out')
  BY SubSeqElements
<1> QED
  BY <1>1, <1>2, <1>3 DEF Answer

(* The board answers packet p or what it held back, so to transfers begun.  *)
LEMMA AnswersStayPast ==
  ASSUME AnswersPast, Waiting, toHost' \in Seq(Answers), transfer' = transfer,
         Elements(toHost') \subseteq Elements(toHost) \cup Elements(out'),
         NEW p, p.from[1] <= transfer, HandlesData(p) \/ HandlesReset(p)
  PROVE  AnswersPast'
<1>1. \A e : FromPend(e) => e.to[1] <= transfer
  BY DEF FromPend, AnswersPast
<1>2. \A e \in Elements(out') : e.to[1] <= transfer
  BY <1>1 DEF HandlesData, HandlesReset
<1>3. pend'.count > 0 => pend'.to[1] <= transfer
  BY DEF HandlesData, HandlesReset, OkFor
<1> QED
  BY <1>2, <1>3 DEF AnswersPast

(* Data of the transfer under way: everything behind it is that too.  Data  *)
(* of an earlier one moves neither the sender nor what it was promised.     *)
LEMMA DataKeepsOrdered ==
  ASSUME SenderAssumption, OrderedInv, UNCHANGED senderVars, toBoard # <<>>,
         toBoard' = Tail(toBoard), InOrder', Counted', AnswersPast', BoardSends,
         Elements(toHost') \subseteq Elements(toHost) \cup Elements(out'),
         HandlesData(Head(toBoard))
  PROVE  /\ OnlyData' \/ Fresh'
         /\ Confirmed' => InSession'
         /\ base' <= nextSeq' /\ \A n \in Nat : OkUnderWay(n)' => n < nextSeq'
<1> DEFINE p == Head(toBoard)
<1>1. /\ p \in Elements(toBoard) /\ p \in Packets
      /\ Elements(toBoard') \subseteq Elements(toBoard)
      /\ \A q \in Elements(toBoard') : Before(p, q)
  BY BehindTheFront DEF OrderedInv
<1>2. /\ Genuine(p) /\ p.from[1] <= transfer
      /\ p.from[1] = transfer => p.sess = sess
      /\ stage \in {"reset", "await"} => p.from # DataSocket
  BY <1>1 DEF OrderedInv, InOrder
<1>3. HandlesData(p)
  OBVIOUS
<1> HIDE DEF p
<1>4. p.kind = "data" /\ p.from = <<p.from[1], "data">> /\ p.from[1] \in Nat
  BY <1>1, <1>2, <1>3, SocketOf DEF HandlesData
<1>5. UNCHANGED <<stage, transfer, sess, base, DataSocket, ResetSocket>>
  BY DEF senderVars, transferVars, windowVars, DataSocket, ResetSocket
<1>6. bSession' = bSession /\ nextSeq \in Nat /\ nextSeq' \in Nat /\ nextSeq <= nextSeq'
      /\ base \in Nat /\ transfer \in Nat
  BY <1>3 DEF HandlesData, SameChunks, OneMore, OrderedInv, Counted, SenderInv, InWindow, Progress,
              SenderAssumption
<1>7. ASSUME NEW n \in Nat, OkUnderWay(n)' PROVE OkUnderWay(n) \/ (p.from = DataSocket /\ n < nextSeq')
  <2>1. CASE pend'.count > 0 /\ pend'.to = DataSocket' /\ pend'.seq = n
    BY <1>3, <1>5, <2>1 DEF HandlesData, OkFor
  <2>2. CASE \E a \in Elements(toHost') : a.to = DataSocket' /\ a.status = "OK" /\ a.seq = n
    <3>1. PICK a \in Elements(toHost') : a.to = DataSocket /\ a.status = "OK" /\ a.seq = n
      BY <1>5, <2>2
    <3>2. CASE a \in Elements(toHost)
      BY <3>1, <3>2 DEF OkUnderWay
    <3>3. CASE a \in Elements(out')
      <4>1. FromPend(a) \/ OkFor(p, a)
        BY <1>3, <3>1, <3>3 DEF HandlesData
      <4> QED
        BY <3>1, <4>1 DEF FromPend, OkFor, OkUnderWay
    <3> QED
      BY <3>1, <3>2, <3>3
  <2> QED
    BY <1>7, <2>1, <2>2 DEF OkUnderWay
<1>8. OnlyData' \/ Fresh'
  <2>1. CASE p.from = DataSocket
    <3>1. p.from[1] = transfer /\ stage \notin {"reset", "await"}
      BY <1>2, <2>1 DEF DataSocket
    <3>2. ASSUME NEW q \in Elements(toBoard') PROVE q.from = DataSocket
      <4>1. q \in Elements(toBoard) /\ q \in Packets /\ Before(p, q)
        BY <1>1 DEF OrderedInv, InOrder, Elements
      <4>2. Genuine(q) /\ q.from[1] <= transfer
        BY <4>1 DEF OrderedInv, InOrder
      <4>3. q.from = <<q.from[1], q.kind>> /\ q.from[1] \in Nat
        BY <4>1, <4>2, SocketOf
      <4>4. q.from[1] = transfer /\ q.kind = "data"
        BY <1>4, <1>6, <3>1, <4>1, <4>2, <4>3 DEF Before
      <4> QED
        BY <4>3, <4>4 DEF DataSocket
    <3> QED
      BY <1>5, <3>1, <3>2 DEF OnlyData
  <2>2. CASE p.from # DataSocket
    <3>1. Fresh
      BY <1>1, <2>2 DEF OrderedInv, OnlyData
    <3> QED
      BY <1>5, <1>7, <2>2, <3>1 DEF Fresh
  <2> QED
    BY <2>1, <2>2
<1>9. Confirmed' => InSession'
  <2>1. ASSUME NEW e \in Elements(out'), e.status = "OK" PROVE e.to # ResetSocket
    <3>1. FromPend(e) \/ OkFor(p, e)
      BY <1>3, <2>1 DEF HandlesData
    <3>2. e.to[2] = "data"
      BY <1>4, <3>1 DEF FromPend, OkFor, OrderedInv, Waiting
    <3> QED
      BY <3>2 DEF ResetSocket
  <2>2. Confirmed' => Confirmed
    BY <1>5, <2>1 DEF Confirmed
  <2>3. InSession => InSession'
    <3> SUFFICES ASSUME InSession PROVE InSession'
      OBVIOUS
    <3>1. p.from[1] = transfer /\ content \in Seq(Transfers) /\ p.from[1] \in Transfers
      BY <1>1 DEF InSession, OrderedInv, Counted, Packets, Sockets
    <3>2. \A i \in DOMAIN content' : content'[i] = transfer
      BY <1>3, <3>1 DEF HandlesData, SameChunks, OneMore, InSession
    <3> QED
      BY <1>1, <1>5, <1>6, <3>2 DEF InSession
  <2> QED
    BY <2>2, <2>3 DEF OrderedInv
<1>10. base' <= nextSeq'
  <2>1. base <= nextSeq
    BY DEF OrderedInv
  <2> QED
    BY <1>5, <1>6, <2>1
<1>11. \A n \in Nat : OkUnderWay(n)' => n < nextSeq'
  <2>1. \A n \in Nat : OkUnderWay(n) => n < nextSeq
    BY DEF OrderedInv
  <2> QED
    BY <1>6, <1>7, <2>1
<1> QED
  BY <1>8, <1>9, <1>10, <1>11

(* A RESET reaches the board only before this transfer's data; one of an    *)
(* earlier transfer, or a repeated one, takes nothing away that was acked.  *)
LEMMA ResetKeepsOrdered ==
  ASSUME SenderAssumption, OrderedInv, UNCHANGED senderVars, toBoard # <<>>,
         toBoard' = Tail(toBoard), InOrder', Counted', AnswersPast', BoardSends,
         Elements(toHost') \subseteq Elements(toHost) \cup Elements(out'),
         HandlesReset(Head(toBoard))
  PROVE  /\ OnlyData' \/ Fresh'
         /\ Confirmed' => InSession'
         /\ base' <= nextSeq' /\ \A n \in Nat : OkUnderWay(n)' => n < nextSeq'
<1> DEFINE p == Head(toBoard)
<1>1. /\ p \in Elements(toBoard) /\ p \in Packets
      /\ Elements(toBoard') \subseteq Elements(toBoard)
      /\ \A q \in Elements(toBoard') : Before(p, q)
  BY BehindTheFront DEF OrderedInv
<1>2. /\ Genuine(p) /\ p.from[1] <= transfer
      /\ p.from[1] = transfer => p.sess = sess
  BY <1>1 DEF OrderedInv, InOrder
<1>3. HandlesReset(p)
  OBVIOUS
<1> HIDE DEF p
<1>4. p.from = <<p.from[1], "reset">> /\ p.from[1] \in Nat /\ p.from # DataSocket
  BY <1>1, <1>2, <1>3, SocketOf DEF HandlesReset, DataSocket
<1>5. UNCHANGED <<stage, transfer, sess, base, DataSocket, ResetSocket>>
  BY DEF senderVars, transferVars, windowVars, DataSocket, ResetSocket
<1>6. ~(pend'.count > 0)
  BY <1>3 DEF HandlesReset
<1>7. ASSUME NEW n \in Nat, OkUnderWay(n)' PROVE OkUnderWay(n)
  <2>1. PICK a \in Elements(toHost') : a.to = DataSocket /\ a.status = "OK" /\ a.seq = n
    BY <1>5, <1>6, <1>7 DEF OkUnderWay
  <2>2. CASE a \in Elements(toHost)
    BY <2>1, <2>2 DEF OkUnderWay
  <2>3. CASE a \in Elements(out')
    <3>1. FromPend(a)
      BY <1>3, <1>4, <2>1, <2>3 DEF HandlesReset
    <3> QED
      BY <2>1, <3>1 DEF FromPend, OkUnderWay
  <2> QED
    BY <2>1, <2>2, <2>3
<1>8. Fresh'
  <2>1. Fresh
    BY <1>1, <1>4 DEF OrderedInv, OnlyData
  <2> QED
    BY <1>5, <1>7, <2>1 DEF Fresh
<1>9. base' <= nextSeq' /\ \A n \in Nat : OkUnderWay(n)' => n < nextSeq'
  <2>1. nextSeq' \in Nat
    BY DEF Counted, SenderAssumption
  <2> QED
    BY <1>8, <2>1 DEF Fresh
<1>10. Confirmed' => InSession'
  <2>1. CASE /\ bSession' = p.sess /\ nextSeq' = 0 /\ content' = <<>>
             /\ \A e \in Elements(out') : e.to = p.from
    <3>1. CASE p.from[1] = transfer
      <4>1. ASSUME NEW q \in Elements(toBoard') PROVE q.from[1] = transfer
        <5>1. q \in Elements(toBoard) /\ q \in Packets /\ Before(p, q)
          BY <1>1 DEF OrderedInv, InOrder, Elements
        <5>2. Genuine(q) /\ q.from[1] <= transfer
          BY <5>1 DEF OrderedInv, InOrder
        <5>3. q.from[1] \in Nat
          BY <5>1, <5>2, SocketOf
        <5> QED
          BY <1>4, <3>1, <5>1, <5>2, <5>3 DEF Before
      <4> QED
        BY <1>2, <1>5, <2>1, <3>1, <4>1 DEF InSession
    <3>2. CASE p.from[1] # transfer
      <4>1. p.from # ResetSocket
        BY <3>2 DEF ResetSocket
      <4>2. Confirmed' => Confirmed
        BY <1>5, <2>1, <4>1 DEF Confirmed
      <4>3. ~InSession
        BY <1>1, <3>2 DEF InSession
      <4> QED
        BY <4>2, <4>3 DEF OrderedInv
    <3> QED
      BY <3>1, <3>2
  <2>2. CASE /\ bSession' = bSession /\ SameChunks
             /\ \A e \in Elements(out') : e.status = "OK" => FromPend(e)
    <3>1. \A e : FromPend(e) => e.to # ResetSocket
      BY DEF FromPend, OrderedInv, Waiting, ResetSocket
    <3>2. Confirmed' => Confirmed
      BY <1>5, <2>2, <3>1 DEF Confirmed
    <3>3. InSession => InSession'
      BY <1>1, <1>5, <2>2 DEF InSession, SameChunks
    <3> QED
      BY <3>2, <3>3 DEF OrderedInv
  <2> QED
    BY <1>3, <2>1, <2>2 DEF HandlesReset
<1> QED
  BY <1>8, <1>9, <1>10

(* The coalescer's timer sends what was held back.                          *)
LEMMA AloneKeepsOrdered ==
  ASSUME SenderAssumption, OrderedInv, UNCHANGED senderVars, UNCHANGED toBoard,
         Elements(toHost') \subseteq Elements(toHost) \cup Elements(out'),
         WorksAlone
  PROVE  /\ OnlyData' \/ Fresh'
         /\ Confirmed' => InSession'
         /\ base' <= nextSeq' /\ \A n \in Nat : OkUnderWay(n)' => n < nextSeq'
<1>1. UNCHANGED <<stage, transfer, sess, base, DataSocket, ResetSocket, toBoard, bSession, nextSeq, content>>
  BY DEF senderVars, transferVars, windowVars, DataSocket, ResetSocket, WorksAlone, SameChunks
<1>2. ASSUME NEW n \in Nat, OkUnderWay(n)' PROVE OkUnderWay(n)
  <2>1. \A e \in Elements(toHost') : e \in Elements(toHost) \/ FromPend(e)
    BY DEF WorksAlone
  <2> QED
    BY <1>1, <1>2, <2>1 DEF OkUnderWay, FromPend, WorksAlone
<1>3. OnlyData' \/ Fresh'
  BY <1>1, <1>2 DEF OnlyData, Fresh, OrderedInv
<1>4. Confirmed' => InSession'
  <2>1. \A e : FromPend(e) => e.to # ResetSocket
    BY DEF FromPend, OrderedInv, Waiting, ResetSocket
  <2>2. Confirmed' => Confirmed
    BY <1>1, <2>1 DEF Confirmed, WorksAlone
  <2> QED
    BY <1>1, <2>2 DEF OrderedInv, InSession
<1> QED
  BY <1>1, <1>2, <1>3, <1>4 DEF OrderedInv

(* The board's step: the front of the queue, or its own work. *)
LEMMA BoardKeepsOrdered ==
  ASSUME SenderAssumption, OrderedInv, OrderedBoard
  PROVE  OrderedInv'
<1>1. UNCHANGED senderVars /\ Reach /\ toHost' \in Answer(toHost, out')
  BY DEF OrderedBoard
<1>2. SenderInv' /\ InTransfer' /\ UNCHANGED <<stage, transfer, sess, DataSocket>>
  BY <1>1 DEF OrderedInv, senderVars, transferVars, windowVars, SenderInv, InWindow, Adaptive,
              Progress, InTransfer, DataSocket
<1>3. transfer \in Nat /\ toHost \in Seq(Answers)
  BY DEF OrderedInv, SenderInv, Progress, AnswersPast
<1>4. CASE toBoard # <<>> /\ toBoard' = Tail(toBoard)
           /\ (BoardReset(Head(toBoard)) \/ BoardData(Head(toBoard)))
  <2> DEFINE p == Head(toBoard)
  <2>1. /\ p \in Elements(toBoard) /\ p \in Packets
        /\ toBoard' \in Seq(Packets) /\ Elements(toBoard') \subseteq Elements(toBoard)
        /\ \A i, j \in 1 .. Len(toBoard') : i < j => Before(toBoard'[i], toBoard'[j])
    BY <1>4, BehindTheFront DEF OrderedInv
  <2>2. Genuine(p) /\ p.from[1] <= transfer
    BY <2>1 DEF OrderedInv, InOrder
  <2>3. InOrder'
    BY <1>2, <2>1 DEF OrderedInv, InOrder
  <2>4. BoardSends /\ (HandlesData(p) \/ HandlesReset(p))
    BY <1>4, <2>1, <2>2, DataEffects, ResetEffects DEF OrderedInv
  <2>5. Counted'
    <3>1. SameChunks \/ (OneMore(p) /\ nextSeq < Total) \/ (nextSeq' = 0 /\ content' = <<>>)
      BY <2>4 DEF HandlesData, HandlesReset
    <3> HIDE DEF p
    <3> QED
      BY <1>1, <2>1, <3>1, ChunksTyped, ReachKeeps DEF OrderedInv
  <2>6. /\ toHost' \in Seq(Answers)
        /\ Elements(toHost') \subseteq Elements(toHost) \cup Elements(out')
    BY <1>1, <1>3, <2>4, AnswersAfter DEF BoardSends
  <2>7. AnswersPast'
    BY <1>2, <2>2, <2>4, <2>6, AnswersStayPast DEF OrderedInv
  <2>8. /\ OnlyData' \/ Fresh'
        /\ Confirmed' => InSession'
        /\ base' <= nextSeq' /\ \A n \in Nat : OkUnderWay(n)' => n < nextSeq'
    BY <1>1, <1>4, <2>3, <2>4, <2>5, <2>6, <2>7, DataKeepsOrdered, ResetKeepsOrdered
  <2> QED
    BY <1>2, <2>3, <2>4, <2>5, <2>7, <2>8 DEF OrderedInv, BoardSends
<1>5. CASE (Board!Flush \/ Board!Internal) /\ UNCHANGED <<content, toBoard>>
  <2>1. BoardSends /\ WorksAlone
    BY <1>5, AloneEffects DEF OrderedInv
  <2>2. Counted'
    BY <1>1, <2>1, ReachKeeps DEF OrderedInv, WorksAlone, SameChunks, Counted
  <2>3. /\ toHost' \in Seq(Answers)
        /\ Elements(toHost') \subseteq Elements(toHost) \cup Elements(out')
    BY <1>1, <1>3, <2>1, AnswersAfter DEF BoardSends
  <2>4. AnswersPast'
    BY <1>2, <2>1, <2>3 DEF OrderedInv, AnswersPast, WorksAlone, FromPend
  <2>5. InOrder'
    BY <1>2, <1>5 DEF OrderedInv, InOrder
  <2>6. /\ OnlyData' \/ Fresh'
        /\ Confirmed' => InSession'
        /\ base' <= nextSeq' /\ \A n \in Nat : OkUnderWay(n)' => n < nextSeq'
    BY <1>1, <1>5, <2>1, <2>3, AloneKeepsOrdered
  <2> QED
    BY <1>2, <2>1, <2>2, <2>4, <2>5, <2>6 DEF OrderedInv, BoardSends
<1> QED
  BY <1>4, <1>5 DEF OrderedBoard

(* OrderedInv is inductive. *)
LEMMA OrderedStep ==
  ASSUME SenderAssumption, OrderedInv, [OrderedNext]_linkVars
  PROVE  OrderedInv'
<1>1. CASE UNCHANGED linkVars
  <2>1. UNCHANGED <<senderVars, boardVars, toBoard, toHost, content, reached>>
    BY <1>1 DEF linkVars, netVars, histVars
  <2>2. SenderInv' /\ InTransfer' /\ UNCHANGED <<stage, transfer, sess, base, DataSocket, ResetSocket>>
    BY <2>1 DEF OrderedInv, senderVars, transferVars, windowVars, SenderInv, InWindow, Adaptive,
                Progress, InTransfer, DataSocket, ResetSocket
  <2>3. InOrder' /\ AnswersPast' /\ Waiting' /\ Counted'
    BY <2>1, <2>2 DEF OrderedInv, InOrder, AnswersPast, Waiting, Counted, boardVars
  <2>4. \A n \in Nat : OkUnderWay(n)' <=> OkUnderWay(n)
    BY <2>1, <2>2 DEF OkUnderWay, boardVars
  <2> QED
    BY <2>1, <2>2, <2>3, <2>4 DEF OrderedInv, OnlyData, Fresh, Confirmed, InSession, boardVars
<1>2. CASE OrderedSend
  <2>1. BeginsTransfer \/ SendsFor
    BY <1>2, LocalEffects DEF OrderedSend, OrderedInv
  <2> QED
    BY <1>2, <2>1, BeginKeepsOrdered, SendKeepsOrdered
<1> QED
  BY <1>1, <1>2, ReadKeepsOrdered, BoardKeepsOrdered DEF OrderedNext

(* On the cable the packets stay in order, and what the sender knows of the *)
(* board stays true.                                                        *)
THEOREM OrderHolds == OrderedSpec => []OrderedInv
<1> USE SenderAssumption
<1>1. OrderedInit => OrderedInv
  BY OrderedInitInv
<1> QED
  BY <1>1, OrderedStep, PTL DEF OrderedSpec


-----------------------------------------------------------------------------
(* What the board counts was sent.  This needs the order of the queue: one  *)
(* RESET that takes effect late would empty the board's count and not the   *)
(* sender's.                                                                *)
NotAhead ==
  /\ \A p \in Elements(toBoard) : p.from = DataSocket => p.seq < next
  /\ Confirmed => nextSeq <= next

(* Before its end a transfer sends each new chunk by raising next over it.  *)
LEMMA LocalNext ==
  ASSUME SenderAssumption, SenderInv, InTransfer, Local, SendsFor
  PROVE  /\ next \in Nat /\ next' \in Nat /\ next <= next'
         /\ \A p \in Elements(sent') : p.from = DataSocket => p.seq < next'
<1>1. /\ next \in Nat /\ base \in Nat /\ transfer \in Nat /\ DOMAIN outst = base .. next - 1
  BY DEF SenderInv, InWindow, Progress, SenderAssumption
<1>2. CASE RequestStop \/ SendReset \/ ResetGivenUp \/ ResetTimeout \/ Stop \/ Filled \/ Finish
             \/ Drained \/ NothingDue \/ RetriesExhausted
  <2>1. next' = next /\ (sent' = <<>> \/ sent' = <<ResetPacket>>)
    BY <1>2 DEF RequestStop, SendReset, ResetGivenUp, ResetTimeout, Stop, Filled, Finish, Drained,
                NothingDue, RetriesExhausted, windowVars, Silent, Emit
  <2>2. ResetPacket.from # DataSocket
    BY DEF ResetPacket, ResetSocket, DataSocket
  <2>3. Elements(sent') \subseteq {ResetPacket}
    BY <2>1, FewElements
  <2> QED
    BY <1>1, <2>1, <2>2, <2>3
<1>3. CASE SendNext
  <2>1. next' = next + 1 /\ sent' = <<DataPacket(next)>> /\ DataPacket(next).seq = next
    BY <1>3 DEF SendNext, Emit, DataPacket
  <2>2. Elements(sent') = {DataPacket(next)}
    BY <2>1, FewElements
  <2> QED
    BY <1>1, <2>1, <2>2
<1>4. CASE Resend
  <2> DEFINE n == Oldest(DOMAIN outst)
  <2>1. next' = next /\ sent' = <<DataPacket(n)>> /\ DataPacket(n).seq = n /\ DOMAIN outst # {}
    BY <1>4 DEF Resend, Emit, DataPacket
  <2>2. n = base /\ base < next
    <3>1. base \in Int /\ next - 1 \in Int /\ base <= next - 1
      BY <1>1, <2>1
    <3> QED
      BY <3>1, <1>1, OldestOfInterval
  <2> HIDE DEF n
  <2>3. Elements(sent') = {DataPacket(n)}
    BY <2>1, FewElements
  <2> QED
    BY <1>1, <2>1, <2>2, <2>3
<1>5. ASSUME NEW m, NEW s, Begin(m, s) PROVE FALSE
  BY <1>1, <1>5 DEF Begin, SendsFor
<1> QED
  BY <1>2, <1>3, <1>4, <1>5 DEF Local

(* A sender's step keeps it. *)
LEMMA SendKeepsNotAhead ==
  ASSUME SenderAssumption, OrderedInv, OrderedInv', NotAhead, OrderedSend
  PROVE  NotAhead'
<1>1. UNCHANGED <<boardVars, toHost, histVars>> /\ toBoard' \in Queue(toBoard, sent') /\ Local
  BY DEF OrderedSend
<1>2. SenderInv /\ InTransfer /\ toBoard \in Seq(Packets)
  BY DEF OrderedInv, InOrder
<1>3. CASE BeginsTransfer
  <2>1. stage' = "reset" /\ transfer' = transfer + 1 /\ transfer \in Nat
    BY <1>3 DEF BeginsTransfer, OrderedInv, SenderInv, Progress
  <2>2. \A p \in Elements(toBoard') : p.from # DataSocket'
    BY <2>1 DEF OrderedInv, InOrder
  <2>3. ASSUME NEW a \in Elements(toHost) PROVE a.to # ResetSocket'
    <3>1. a \in Answers /\ a.to[1] <= transfer
      BY DEF OrderedInv, AnswersPast, Elements
    <3>2. a.to[1] \in Nat
      BY <3>1 DEF Answers, Sockets, Transfers
    <3> QED
      BY <2>1, <3>1, <3>2 DEF ResetSocket
  <2>4. ~Confirmed'
    BY <1>1, <2>1, <2>3 DEF Confirmed
  <2> QED
    BY <2>2, <2>4 DEF NotAhead
<1>4. CASE SendsFor
  <2>1. /\ next \in Nat /\ next' \in Nat /\ next <= next'
        /\ \A p \in Elements(sent') : p.from = DataSocket => p.seq < next'
    BY <1>1, <1>2, <1>4, LocalNext
  <2>2. UNCHANGED <<DataSocket, ResetSocket, toHost, nextSeq>>
    BY <1>1, <1>4 DEF SendsFor, DataSocket, ResetSocket, boardVars
  <2>3. Elements(toBoard') \subseteq Elements(toBoard) \cup Elements(sent')
    <3>1. CASE toBoard' = toBoard
      BY <3>1
    <3>2. CASE toBoard' # toBoard
      <4>1. sent' \in Seq(Packets)
        <5>1. \A p \in Elements(sent') : p \in Packets
          BY <1>2, <1>4, SentIsGenuine
        <5>2. sent' = <<>> \/ \E p : sent' = <<p>>
          BY <1>4 DEF SendsFor
        <5>3. ASSUME NEW p, sent' = <<p>> PROVE sent' \in Seq(Packets)
          <6>1. p \in Packets
            BY <5>1, <5>3, FewElements
          <6> QED
            BY <5>3, <6>1
        <5>4. sent' = <<>> => sent' \in Seq(Packets)
          OBVIOUS
        <5> QED
          BY <5>2, <5>3, <5>4, Zenon
      <4> QED
        BY <1>1, <1>2, <4>1, QueueElements
    <3> QED
      BY <3>1, <3>2
  <2>4. ASSUME NEW p \in Elements(toBoard'), p.from = DataSocket' PROVE p.seq < next'
    <3>1. CASE p \in Elements(sent')
      BY <2>1, <2>2, <2>4, <3>1
    <3>2. CASE p \in Elements(toBoard)
      <4>1. p.seq < next /\ p \in Packets
        BY <1>2, <2>2, <2>4, <3>2 DEF NotAhead, Elements
      <4>2. p.seq \in Nat
        BY <4>1 DEF Packets
      <4> QED
        BY <2>1, <4>1, <4>2
    <3> QED
      BY <2>3, <3>1, <3>2
  <2>5. Confirmed' => Confirmed
    BY <1>4, <2>2 DEF SendsFor, Confirmed
  <2>6. nextSeq \in Nat
    BY DEF OrderedInv, Counted
  <2> QED
    BY <2>1, <2>2, <2>4, <2>5, <2>6 DEF NotAhead
<1> QED
  BY <1>1, <1>2, <1>3, <1>4, LocalEffects

(* Reading an answer sends nothing. *)
LEMMA ReadKeepsNotAhead ==
  ASSUME SenderAssumption, OrderedInv, NotAhead, OrderedRead
  PROVE  NotAhead'
<1> DEFINE a == Head(toHost)
<1>1. /\ toHost # <<>> /\ toHost' = Tail(toHost) /\ UNCHANGED <<boardVars, toBoard, histVars>>
      /\ IF Open(a.to) THEN Take(a) ELSE UNCHANGED senderVars
  BY DEF OrderedRead
<1>2. a \in Elements(toHost) /\ Elements(toHost') \subseteq Elements(toHost)
  BY <1>1, TailElements DEF OrderedInv, AnswersPast
<1> HIDE DEF a
<1>3. /\ UNCHANGED <<transfer, next>>
      /\ stage' \in {"fill", "drain", "retry", "done"} =>
           \/ stage \in {"fill", "drain", "retry", "done"}
           \/ Open(a.to) /\ stage = "await" /\ a.status = "OK"
  <2>1. CASE Open(a.to)
    <3>1. Take(a)
      BY <1>1, <2>1
    <3>2. next' = next
      BY <3>1 DEF Take, ResetAnswer, windowVars, TakeAck, IgnoreAck, OkAck, PendingAck, RefusedAck,
                  RefusedTooOften, AckTaken
    <3> QED
      BY <2>1, <3>1, <3>2, TakeEffects DEF OrderedInv
  <2>2. CASE ~Open(a.to)
    BY <1>1, <2>2 DEF senderVars, transferVars, windowVars
  <2> QED
    BY <2>1, <2>2
<1>4. UNCHANGED <<DataSocket, ResetSocket, toBoard, nextSeq>>
  BY <1>1, <1>3 DEF DataSocket, ResetSocket, boardVars
<1>5. Confirmed' => Confirmed
  <2>1. Open(a.to) /\ stage = "await" /\ a.status = "OK" => Confirmed
    BY <1>2 DEF Open, Confirmed
  <2> QED
    BY <1>2, <1>3, <1>4, <2>1 DEF Confirmed
<1> QED
  BY <1>3, <1>4, <1>5 DEF NotAhead

(* The board accepts, in a session, only a packet that is on the cable.     *)
LEMMA BoardKeepsNotAhead ==
  ASSUME SenderAssumption, OrderedInv, NotAhead, OrderedBoard
  PROVE  NotAhead'
<1>1. UNCHANGED senderVars /\ toHost' \in Answer(toHost, out') /\ toHost \in Seq(Answers)
  BY DEF OrderedBoard, OrderedInv, AnswersPast
<1>2. UNCHANGED <<stage, transfer, next, DataSocket, ResetSocket>>
  BY <1>1 DEF senderVars, transferVars, windowVars, DataSocket, ResetSocket
<1>3. next \in Nat /\ nextSeq \in Nat
  BY DEF OrderedInv, SenderInv, InWindow, Counted
<1>4. CASE toBoard # <<>> /\ toBoard' = Tail(toBoard)
           /\ (BoardReset(Head(toBoard)) \/ BoardData(Head(toBoard)))
  <2> DEFINE p == Head(toBoard)
  <2>1. p \in Elements(toBoard) /\ p \in Packets /\ Elements(toBoard') \subseteq Elements(toBoard)
    BY <1>4, BehindTheFront DEF OrderedInv
  <2>2. Genuine(p)
    BY <2>1 DEF OrderedInv, InOrder
  <2>3. BoardSends /\ (HandlesData(p) \/ HandlesReset(p))
    BY <1>4, <2>1, <2>2, DataEffects, ResetEffects DEF OrderedInv
  <2>4. \A a \in Elements(toHost') : a \in Elements(toHost) \/ a \in Elements(out')
    BY <1>1, <2>3, AnswersAfter DEF BoardSends
  <2> HIDE DEF p
  <2>5. \A e : FromPend(e) => e.to # ResetSocket
    BY DEF FromPend, OrderedInv, Waiting, ResetSocket
  <2>6. CASE HandlesData(p)
    <3>1. p.from # ResetSocket
      <4>1. p.from[2] = "data"
        BY <2>2, <2>6 DEF HandlesData, Genuine
      <4> QED
        BY <4>1 DEF ResetSocket
    <3>2. \A e \in Elements(out') : e.to # ResetSocket
      BY <2>5, <2>6, <3>1 DEF HandlesData
    <3>3. Confirmed' => Confirmed
      BY <1>2, <2>4, <3>2 DEF Confirmed
    <3>4. ASSUME Confirmed PROVE nextSeq' <= next
      <4>1. p.from = DataSocket
        <5>1. p.kind = "data" /\ p.from = <<p.from[1], p.kind>>
          BY <2>1, <2>2, <2>6, SocketOf DEF HandlesData
        <5>2. p.from[1] = transfer
          BY <2>1, <3>4 DEF OrderedInv, InSession
        <5> QED
          BY <5>1, <5>2 DEF DataSocket
      <4>2. p.seq < next /\ nextSeq <= next
        BY <2>1, <3>4, <4>1 DEF NotAhead
      <4> QED
        BY <1>3, <2>6, <4>2 DEF HandlesData, SameChunks, OneMore
    <3> QED
      BY <1>2, <2>1, <3>3, <3>4 DEF NotAhead
  <2>7. CASE HandlesReset(p)
    <3>1. CASE nextSeq' = 0
      BY <1>2, <1>3, <2>1, <3>1 DEF NotAhead
    <3>2. CASE SameChunks /\ \A e \in Elements(out') : e.status = "OK" => FromPend(e)
      <4>1. Confirmed' => Confirmed
        BY <1>2, <2>4, <2>5, <3>2 DEF Confirmed
      <4> QED
        BY <1>2, <2>1, <3>2, <4>1 DEF NotAhead, SameChunks
    <3> QED
      BY <2>7, <3>1, <3>2 DEF HandlesReset
  <2> QED
    BY <2>3, <2>6, <2>7
<1>5. CASE (Board!Flush \/ Board!Internal) /\ UNCHANGED <<content, toBoard>>
  <2>1. BoardSends /\ WorksAlone
    BY <1>5, AloneEffects DEF OrderedInv
  <2>2. \A a \in Elements(toHost') : a \in Elements(toHost) \/ FromPend(a)
    BY <1>1, <2>1, AnswersAfter DEF BoardSends, WorksAlone
  <2>3. \A e : FromPend(e) => e.to # ResetSocket
    BY DEF FromPend, OrderedInv, Waiting, ResetSocket
  <2>4. Confirmed' => Confirmed
    BY <1>2, <2>2, <2>3 DEF Confirmed
  <2> QED
    BY <1>2, <1>5, <2>1, <2>4 DEF NotAhead, WorksAlone, SameChunks
<1> QED
  BY <1>4, <1>5 DEF OrderedBoard

(* The board has no more chunks of a running transfer than were sent. *)
THEOREM CountedWereSent == OrderedSpec => []NotAhead
<1> USE SenderAssumption
<1>1. OrderedInit => NotAhead
  <2> SUFFICES ASSUME OrderedInit PROVE NotAhead
    OBVIOUS
  <2>1. stage = "idle" /\ Elements(toBoard) = {} /\ Elements(toHost) = {}
    BY FewElements DEF OrderedInit, SenderInit
  <2> QED
    BY <2>1 DEF NotAhead, Confirmed
<1>2. OrderedInv /\ OrderedInv' /\ NotAhead /\ [OrderedNext]_linkVars => NotAhead'
  <2> SUFFICES ASSUME OrderedInv, OrderedInv', NotAhead, [OrderedNext]_linkVars PROVE NotAhead'
    OBVIOUS
  <2>1. CASE UNCHANGED linkVars
    BY <2>1 DEF linkVars, netVars, senderVars, transferVars, windowVars, boardVars, NotAhead,
                Confirmed, DataSocket, ResetSocket
  <2> QED
    BY <2>1, SendKeepsNotAhead, ReadKeepsNotAhead, BoardKeepsNotAhead DEF OrderedNext
<1> QED
  BY <1>1, <1>2, OrderHolds, PTL DEF OrderedSpec

(* While a transfer runs the board is in its session and holds all that the *)
(* sender counts as acked and nothing it did not send, also when session    *)
(* ids repeat.                                                              *)
THEOREM AckedStaysHeld == OrderedSpec => []AckedIsHeld
<1>1. OrderedInv /\ NotAhead => AckedIsHeld
  BY DEF OrderedInv, NotAhead, Confirmed, InSession, AckedIsHeld
<1> QED
  BY <1>1, OrderHolds, CountedWereSent, PTL
=============================================================================
