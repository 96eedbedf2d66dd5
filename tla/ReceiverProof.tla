---------------------------- MODULE ReceiverProof ----------------------------
(* Proofs about Receiver for any number and length of transfers, any damage, *)
(* any datagram size and any order of what arrives.                          *)
EXTENDS Receiver, FiniteSetTheorems, WellFoundedInduction, TLAPS

-----------------------------------------------------------------------------
(* Types.  The one relation among them is that the parser stays in the       *)
(* gapless front of the file: Covered(pos).                                  *)

LEMMA CoveredIsInside ==
  ASSUME NEW n \in Nat, Covered(n + 1)
  PROVE  n + 1 <= 3 * MaxPackets
BY ReceiverAssumption DEF Covered, Written, Offsets

LEMMA DatagramsHaveOrigin ==
  ASSUME NEW t \in 1 .. begun, NEW d \in Datagrams(t)
  PROVE  d.of = t
BY DEF Datagrams

(* A datagram fills holes and never makes one. *)
LEMMA WritingKeepsCovered ==
  ASSUME ReceiverTypeOK, NEW d \in wire, raw' = WithExtent(d), pos' = pos
  PROVE  /\ raw' \in [Offsets -> 0 .. NumTransfers]
         /\ Covered(pos)'
<1>1. d.of \in 1 .. NumTransfers
  BY DatagramsHaveOrigin, ReceiverAssumption DEF ReceiverTypeOK
<1>2. raw' \in [Offsets -> 0 .. NumTransfers]
  BY <1>1, ReceiverAssumption DEF ReceiverTypeOK, WithExtent
<1>3. \A o \in Offsets : raw[o] # 0 => raw'[o] # 0
  BY <1>1 DEF WithExtent
<1> QED
  BY <1>2, <1>3 DEF ReceiverTypeOK, Covered, Written

(* The packet the parser stands at. *)
LEMMA PacketAtHasPlace ==
  ASSUME ReceiverTypeOK, PacketAt
  PROVE  /\ pos \in Nat /\ pos % 3 = 0 /\ pos + 3 \in 0 .. 3 * MaxPackets
         /\ Of \in 1 .. NumTransfers /\ PacketSeq \in Seqs
<1>1. pos \in Nat /\ pos % 3 = 0 /\ raw[pos + 1] # 0
  BY DEF ReceiverTypeOK, PacketAt, Magic, Header
<1>2. pos + 3 <= 3 * MaxPackets
  BY <1>1, ReceiverAssumption DEF PacketAt, Covered, Written, Offsets
<1>3. PacketSeq \in Seqs
  BY <1>1, <1>2, ReceiverAssumption DEF PacketSeq, Seqs
<1>4. pos + 1 \in Offsets
  BY <1>1, <1>2, ReceiverAssumption DEF Offsets
<1>5. Of \in 1 .. NumTransfers
  BY <1>1, <1>4, ReceiverAssumption DEF ReceiverTypeOK, Of
<1> QED
  BY <1>1, <1>2, <1>3, <1>5, ReceiverAssumption

LEMMA TypesInit == Init => ReceiverTypeOK
<1> SUFFICES ASSUME Init PROVE ReceiverTypeOK
  OBVIOUS
<1>1. raw \in [Offsets -> 0 .. NumTransfers] /\ file \in [Seqs -> 0 .. NumTransfers]
  BY ReceiverAssumption DEF Init
<1>2. pos \in 0 .. 3 * MaxPackets /\ Covered(pos)
  BY ReceiverAssumption DEF Init, Covered
<1>3. temps \in [{"raw", "file"} -> {"open", "gone", "kept"}]
  BY DEF Init, Open
<1>4. attempts \in 0 .. MaxAttempts /\ begun \in 0 .. NumTransfers
      /\ wire \subseteq UNION {Datagrams(t) : t \in 1 .. begun}
  BY ReceiverAssumption DEF Init
<1>5. acks \subseteq [mine : BOOLEAN, ok : BOOLEAN]
  <2>1. acks = {} \/ acks = {[mine |-> FALSE, ok |-> TRUE]}
    BY DEF Init
  <2>2. [mine |-> FALSE, ok |-> TRUE] \in [mine : BOOLEAN, ok : BOOLEAN]
    BY Zenon
  <2> QED
    BY <2>1, <2>2
<1>6. phase \in Phases
  BY DEF Init, Phases
<1>7. damaged \in [Transfers -> SUBSET Offsets]
  BY DEF Init
<1>8. /\ registered \in BOOLEAN /\ cfg \in BOOLEAN /\ peer \in BOOLEAN
      /\ mode \in {"none", "raw", "air0", "airv"} /\ meta \in 0 .. NumTransfers
  <2>1. registered \in BOOLEAN
    BY Zenon DEF Init
  <2>2. cfg \in BOOLEAN /\ peer \in BOOLEAN
    BY Zenon DEF Init
  <2> QED
    BY <2>1, <2>2, ReceiverAssumption DEF Init
<1>9. /\ seen \subseteq Seqs /\ flaws \subseteq {"meta", "payload"}
      /\ gotLast \in BOOLEAN /\ heard \in BOOLEAN /\ stop \in BOOLEAN /\ incomplete \in BOOLEAN
  BY DEF Init
<1> QED
  BY <1>1, <1>2, <1>3, <1>4, <1>5, <1>6, <1>7, <1>8, <1>9 DEF ReceiverTypeOK

(* What every way out of run() leaves behind has a type. *)
LEMMA EndTypes ==
  ASSUME ReceiverTypeOK
  PROVE  /\ Discarded \in [{"raw", "file"} -> {"open", "gone", "kept"}]
         /\ Kept \in [{"raw", "file"} -> {"open", "gone", "kept"}]
BY DEF ReceiverTypeOK, Discarded, Kept, Gone

LEMMA TypesFail ==
  ASSUME ReceiverTypeOK, Fail
  PROVE  /\ phase' \in Phases /\ incomplete' \in BOOLEAN
         /\ temps' \in [{"raw", "file"} -> {"open", "gone", "kept"}]
BY EndTypes DEF ReceiverTypeOK, Fail, Phases, Over

LEMMA TypesNetwork == ReceiverTypeOK /\ Network => ReceiverTypeOK'
<1> SUFFICES ASSUME ReceiverTypeOK, Network PROVE ReceiverTypeOK'
  OBVIOUS
<1> USE ReceiverAssumption
<1>1. CASE Begin
  <2>1. begun' \in 0 .. NumTransfers
    BY <1>1 DEF ReceiverTypeOK, Begin
  <2>2. wire' \subseteq UNION {Datagrams(t) : t \in 1 .. begun'}
    BY <1>1, <2>1 DEF ReceiverTypeOK, Begin
  <2> QED
    BY <1>1, <2>1, <2>2
       DEF ReceiverTypeOK, Begin, regVars, parseVars, endVars, Covered, Written
<1>2. CASE RegistrationLost
  <2>1. cfg' \in BOOLEAN /\ acks' \subseteq [mine : BOOLEAN, ok : BOOLEAN]
    BY <1>2 DEF ReceiverTypeOK, RegistrationLost
  <2> QED
    BY <1>2, <2>1
       DEF ReceiverTypeOK, RegistrationLost, netVars, parseVars, endVars, Covered, Written
<1>3. ASSUME NEW d \in wire, Lose(d) PROVE ReceiverTypeOK'
  <2>1. wire' \subseteq UNION {Datagrams(t) : t \in 1 .. begun'}
    BY <1>3 DEF ReceiverTypeOK, Lose
  <2> QED
    BY <1>3, <2>1
       DEF ReceiverTypeOK, Lose, regVars, parseVars, endVars, Covered, Written
<1>4. ASSUME NEW ok \in BOOLEAN, BoardAnswers(ok) PROVE ReceiverTypeOK'
  <2>1. cfg' \in BOOLEAN /\ peer' \in BOOLEAN
        /\ acks' \subseteq [mine : BOOLEAN, ok : BOOLEAN]
    <3>1. cfg' \in {FALSE, Duplicates} /\ FALSE \in BOOLEAN /\ Duplicates \in BOOLEAN
      BY <1>4, ZenonT(30) DEF BoardAnswers
    <3>2. peer' \in BOOLEAN
      BY <1>4, ZenonT(30) DEF BoardAnswers
    <3>3. acks' = acks \cup {[mine |-> TRUE, ok |-> ok]}
      BY <1>4 DEF BoardAnswers
    <3>4. [mine |-> TRUE, ok |-> ok] \in [mine : BOOLEAN, ok : BOOLEAN]
      BY Zenon
    <3> QED
      BY <3>1, <3>2, <3>3, <3>4 DEF ReceiverTypeOK
  <2>2. Covered(pos)'
    BY <1>4 DEF ReceiverTypeOK, BoardAnswers, netVars, parseVars, Covered, Written
  <2>3. UNCHANGED <<phase, attempts, registered, netVars, raw, mode, parseVars, heard, stop, endVars>>
    BY <1>4 DEF BoardAnswers
  <2> QED
    BY <2>1, <2>2, <2>3 DEF ReceiverTypeOK, netVars, parseVars, endVars
<1> QED
  BY <1>1, <1>2, <1>3, <1>4 DEF Network

LEMMA TypesParse == ReceiverTypeOK /\ Parse => ReceiverTypeOK'
<1> SUFFICES ASSUME ReceiverTypeOK, Parse PROVE ReceiverTypeOK'
  OBVIOUS
<1> USE ReceiverAssumption
<1>1. phase' \in Phases
  BY DEF Parse, ParseEnds, Resync, BadHeader, PayloadMissing, WrongMeta, BadPayload, TakePacket,
         TakeFragment, Consume, Parsed, MoreToParse, Phases, Over
<1>2. pos' \in 0 .. 3 * MaxPackets /\ Covered(pos')
  <2>1. CASE ParseEnds \/ PayloadMissing
    BY <2>1 DEF ReceiverTypeOK, ParseEnds, PayloadMissing, parseVars
  <2>2. CASE Resync
    <3>1. CASE pos' \in NextMagic
      <4>1. PICK o \in Offsets : pos' = o /\ Covered(o + 1)
        BY <3>1 DEF NextMagic, Found
      <4> QED
        BY <4>1 DEF Offsets, Covered
    <3>2. CASE pos' \in pos .. (3 * MaxPackets) /\ Covered(pos')
      BY <3>2 DEF ReceiverTypeOK
    <3> QED
      BY <2>2, <3>1, <3>2 DEF Resync
  <2>3. CASE BadHeader
    <3>1. pos + 1 <= 3 * MaxPackets /\ Covered(pos + 1) /\ pos' = pos + 1
      BY <2>3 DEF ReceiverTypeOK, BadHeader, Covered, Written, Offsets
    <3> QED
      BY <3>1 DEF ReceiverTypeOK
  <2>4. CASE WrongMeta \/ BadPayload \/ TakePacket \/ TakeFragment
    <3>1. PacketAt /\ pos' = pos + 3
      BY <2>4 DEF WrongMeta, BadPayload, TakePacket, TakeFragment, Consume
    <3> QED
      BY <3>1, PacketAtHasPlace DEF PacketAt
  <2> QED
    BY <2>1, <2>2, <2>3, <2>4 DEF Parse
<1>3. /\ meta' \in 0 .. NumTransfers /\ seen' \subseteq Seqs
      /\ file' \in [Seqs -> 0 .. NumTransfers]
      /\ flaws' \subseteq {"meta", "payload"} /\ gotLast' \in BOOLEAN
  <2>1. CASE ParseEnds \/ Resync \/ BadHeader \/ PayloadMissing
    BY <2>1 DEF ReceiverTypeOK, ParseEnds, Resync, BadHeader, PayloadMissing, parseVars
  <2>2. CASE WrongMeta
    BY <2>2 DEF ReceiverTypeOK, WrongMeta
  <2>3. CASE BadPayload
    <3>1. Of \in 1 .. NumTransfers
      BY <2>3, PacketAtHasPlace DEF BadPayload
    <3> QED
      BY <2>3, <3>1 DEF ReceiverTypeOK, BadPayload, FirstMeta, LastSeen
  <2>4. CASE TakePacket
    <3>1. Of \in 1 .. NumTransfers /\ PacketSeq \in Seqs
      BY <2>4, PacketAtHasPlace DEF TakePacket
    <3>2. meta' \in 0 .. NumTransfers /\ gotLast' \in BOOLEAN
      BY <2>4, <3>1 DEF ReceiverTypeOK, TakePacket, FirstMeta, LastSeen
    <3>3. seen' \subseteq Seqs /\ file' \in [Seqs -> 0 .. NumTransfers]
      BY <2>4, <3>1 DEF ReceiverTypeOK, TakePacket
    <3> QED
      BY <2>4, <3>2, <3>3 DEF ReceiverTypeOK, TakePacket
  <2>5. CASE TakeFragment
    <3>1. Of \in 1 .. NumTransfers /\ PacketSeq \in Seqs
      BY <2>5, PacketAtHasPlace DEF TakeFragment
    <3> QED
      BY <2>5, <3>1 DEF ReceiverTypeOK, TakeFragment, FirstMeta
  <2> QED
    BY <2>1, <2>2, <2>3, <2>4, <2>5 DEF Parse
<1>4. Covered(pos)'
  BY <1>2 DEF Parse, Covered, Written
<1> QED
  BY <1>1, <1>2, <1>3, <1>4 DEF ReceiverTypeOK, Parse, regVars, netVars, endVars

LEMMA TypesSocket == ReceiverTypeOK /\ Socket => ReceiverTypeOK'
<1> SUFFICES ASSUME ReceiverTypeOK, Socket PROVE ReceiverTypeOK'
  OBVIOUS
<1> USE ReceiverAssumption
<1>1. ASSUME NEW a \in acks, RegisterAck(a) PROVE ReceiverTypeOK'
  <2>1. /\ phase' \in Phases /\ incomplete' \in BOOLEAN
        /\ temps' \in [{"raw", "file"} -> {"open", "gone", "kept"}]
    BY <1>1, TypesFail DEF ReceiverTypeOK, RegisterAck, endVars, Phases
  <2>2. registered' \in BOOLEAN /\ acks' \subseteq acks /\ cfg' \in BOOLEAN
    BY <1>1 DEF ReceiverTypeOK, RegisterAck, Received
  <2>3. Covered(pos)'
    BY <1>1 DEF ReceiverTypeOK, RegisterAck, parseVars, Covered, Written
  <2> QED
    BY <1>1, <2>1, <2>2, <2>3 DEF ReceiverTypeOK, RegisterAck, netVars, parseVars
<1>2. ASSUME NEW d \in wire, Taken(d)
      PROVE  wire' \subseteq UNION {Datagrams(t) : t \in 1 .. begun}
  BY <1>2 DEF ReceiverTypeOK, Taken
<1>3. ASSUME NEW d \in wire, Arrive(d) PROVE ReceiverTypeOK'
  <2>1. raw' \in [Offsets -> 0 .. NumTransfers] /\ Covered(pos)'
    BY <1>3, WritingKeepsCovered DEF Arrive, parseVars
  <2>2. mode' \in {"none", "raw", "air0", "airv"}
    <3>1. CASE mode # "none"
      BY <1>3, <3>1 DEF ReceiverTypeOK, Arrive, Detected
    <3>2. CASE mode = "none" /\ raw'[0] = 0
      BY <1>3, <3>2 DEF Arrive, Detected
    <3>3. CASE mode = "none" /\ raw'[0] # 0
      <4>1. 0 \in Offsets
        <5>1. d.of \in Transfers
          BY DatagramsHaveOrigin DEF ReceiverTypeOK, Transfers
        <5>2. Packets[d.of] \in 1 .. MaxPackets
          BY <5>1
        <5> QED
          BY <5>2 DEF Offsets
      <4>2. raw'[0] \in Transfers
        BY <2>1, <3>3, <4>1 DEF Transfers
      <4> QED
        BY <1>3, <3>3, <4>2 DEF Arrive, Detected, FirstWord
    <3> QED
      BY <3>1, <3>2, <3>3
  <2>3. phase' \in Phases /\ heard' \in BOOLEAN
    BY <1>3 DEF Arrive, Phases
  <2>4. wire' \subseteq UNION {Datagrams(t) : t \in 1 .. begun}
    BY <1>2, <1>3 DEF Arrive
  <2> QED
    BY <1>3, <2>1, <2>2, <2>3, <2>4 DEF ReceiverTypeOK, Arrive, regVars, parseVars, endVars
<1>4. ASSUME NEW d \in wire, ArriveBad(d) PROVE ReceiverTypeOK'
  <2>1. phase' \in Phases /\ heard' \in BOOLEAN
    BY <1>4 DEF ArriveBad, Phases
  <2>2. wire' \subseteq UNION {Datagrams(t) : t \in 1 .. begun}
    BY <1>2, <1>4 DEF ArriveBad
  <2>3. Covered(pos)'
    BY <1>4 DEF ReceiverTypeOK, ArriveBad, parseVars, Covered, Written
  <2> QED
    BY <1>4, <2>1, <2>2, <2>3 DEF ReceiverTypeOK, ArriveBad, regVars, parseVars, endVars
<1>5. ASSUME NEW d \in wire, WriteFails(d) PROVE ReceiverTypeOK'
  <2>1. /\ phase' \in Phases /\ incomplete' \in BOOLEAN
        /\ temps' \in [{"raw", "file"} -> {"open", "gone", "kept"}]
    BY <1>5, TypesFail DEF WriteFails
  <2>2. wire' \subseteq UNION {Datagrams(t) : t \in 1 .. begun}
    BY <1>2, <1>5 DEF WriteFails
  <2>3. Covered(pos)'
    BY <1>5 DEF ReceiverTypeOK, WriteFails, parseVars, Covered, Written
  <2> QED
    BY <1>5, <2>1, <2>2, <2>3 DEF ReceiverTypeOK, WriteFails, regVars, parseVars
<1> QED
  BY <1>1, <1>3, <1>4, <1>5 DEF Socket

LEMMA TypesDecide == ReceiverTypeOK /\ Decide => ReceiverTypeOK'
<1> SUFFICES ASSUME ReceiverTypeOK, Decide PROVE ReceiverTypeOK'
  OBVIOUS
<1>1. phase' \in Phases
  BY DEF Decide, Save, FinalizeFails, Fail, GiveUp, NotYet, Leave, Phases, Over
<1>2. incomplete' \in BOOLEAN /\ temps' \in [{"raw", "file"} -> {"open", "gone", "kept"}]
  BY EndTypes DEF ReceiverTypeOK, Decide, Save, FinalizeFails, Fail, GiveUp, NotYet, Leave, endVars
<1>3. Covered(pos)'
  BY DEF ReceiverTypeOK, Decide, parseVars, Covered, Written
<1> QED
  BY <1>1, <1>2, <1>3 DEF ReceiverTypeOK, Decide, regVars, netVars, parseVars

LEMMA TypesRest ==
  ReceiverTypeOK /\ (\/ RegisterSend \/ RegisterGivesUp \/ CallFails
                     \/ RegisterTimeout \/ Idle \/ LoopEnds \/ RequestStop)
    => ReceiverTypeOK'
<1> SUFFICES ASSUME ReceiverTypeOK,
                    \/ RegisterSend \/ RegisterGivesUp \/ CallFails
                    \/ RegisterTimeout \/ Idle \/ LoopEnds \/ RequestStop
             PROVE  ReceiverTypeOK'
  OBVIOUS
<1>1. Covered(pos)'
  BY DEF ReceiverTypeOK, RegisterSend, RegisterGivesUp, RegisterTimeout, CallFails, Idle, LoopEnds,
         RequestStop, parseVars, Covered, Written
<1>2. CASE RegisterSend
  <2>1. attempts' \in 0 .. MaxAttempts /\ phase' \in Phases /\ cfg' \in BOOLEAN
    BY <1>2, ReceiverAssumption DEF ReceiverTypeOK, RegisterSend, Phases
  <2> QED
    BY <1>1, <1>2, <2>1 DEF ReceiverTypeOK, RegisterSend, netVars, parseVars, endVars
<1>3. CASE RegisterGivesUp \/ CallFails
  BY <1>1, <1>3, TypesFail DEF ReceiverTypeOK, RegisterGivesUp, CallFails, regVars, netVars, parseVars
<1>4. CASE RegisterTimeout \/ Idle \/ LoopEnds
  <2>1. phase' \in Phases
    BY <1>4 DEF RegisterTimeout, Idle, LoopEnds, Phases
  <2>2. UNCHANGED <<regVars, netVars, raw, mode, parseVars, heard, stop, endVars>>
    BY <1>4 DEF RegisterTimeout, Idle, LoopEnds
  <2> QED
    BY <1>1, <2>1, <2>2 DEF ReceiverTypeOK, regVars, netVars, parseVars, endVars
<1>5. CASE RequestStop
  BY <1>1, <1>5 DEF ReceiverTypeOK, RequestStop, regVars, netVars, parseVars, endVars
<1> QED
  BY <1>2, <1>3, <1>4, <1>5

LEMMA TypesNext == ReceiverTypeOK /\ [Next]_vars => ReceiverTypeOK'
<1> SUFFICES ASSUME ReceiverTypeOK, [Next]_vars PROVE ReceiverTypeOK'
  OBVIOUS
<1>1. CASE UNCHANGED vars
  BY <1>1 DEF ReceiverTypeOK, vars, regVars, netVars, parseVars, endVars, Covered, Written
<1> QED
  BY <1>1, TypesNetwork, TypesParse, TypesSocket, TypesDecide, TypesRest DEF Next, Worker

(* The parser never leaves the gapless front of the file, and what it counts *)
(* stays within the transfer, whatever arrives.                              *)
THEOREM ReceiverTyped == Spec => []ReceiverTypeOK
  BY TypesInit, TypesNext, PTL DEF Spec

-----------------------------------------------------------------------------
(* Registration.  What must be known besides: the answers under way.         *)

Answered == \A a \in acks : a.mine /\ a.ok => peer
RegInv == RegisteredIsPeer /\ Answered

LEMMA RegInit == Init => RegInv
BY DEF Init, RegInv, RegisteredIsPeer, Answered

LEMMA RegNext == RegInv /\ [Next]_vars => RegInv'
<1> SUFFICES ASSUME RegInv, [Next]_vars PROVE RegInv'
  OBVIOUS
<1>1. ASSUME NEW ok \in BOOLEAN, BoardAnswers(ok) PROVE RegInv'
  <2>1. registered' = registered /\ (peer => peer') /\ (ok => peer')
    BY <1>1 DEF BoardAnswers
  <2>2. acks' = acks \cup {[mine |-> TRUE, ok |-> ok]}
    BY <1>1 DEF BoardAnswers
  <2> QED
    BY <2>1, <2>2 DEF RegInv, RegisteredIsPeer, Answered
<1>2. CASE RegistrationLost
  BY <1>2 DEF RegistrationLost, RegInv, RegisteredIsPeer, Answered
<1>3. ASSUME NEW a \in acks, RegisterAck(a) PROVE RegInv'
  <2>1. acks' \subseteq acks /\ peer' = peer
    BY <1>3 DEF RegisterAck, Received
  <2>2. registered' => registered \/ (a.mine /\ a.ok)
    BY <1>3 DEF RegisterAck, Concerns
  <2> QED
    BY <2>1, <2>2 DEF RegInv, RegisteredIsPeer, Answered
<1>4. CASE UNCHANGED <<registered, acks, peer>>
  BY <1>4 DEF RegInv, RegisteredIsPeer, Answered
<1>5. CASE Begin \/ (\E d \in wire : Lose(d)) \/ RegisterSend \/ RegisterGivesUp \/ Parse \/ Decide \/ LoopEnds
  BY <1>4, <1>5 DEF Begin, Lose, RegisterSend, RegisterGivesUp, Parse, Decide, LoopEnds, regVars
<1>6. CASE (\E d \in wire : Arrive(d) \/ ArriveBad(d) \/ WriteFails(d)) \/ RegisterTimeout \/ CallFails \/ Idle
           \/ RequestStop \/ UNCHANGED vars
  BY <1>4, <1>6 DEF Arrive, ArriveBad, WriteFails, RegisterTimeout, CallFails, Idle,
                    RequestStop, vars, regVars
<1> QED
  BY <1>1, <1>2, <1>3, <1>5, <1>6 DEF Next, Network, Socket, Worker

(* A receiver that believes itself registered is the one the board returns   *)
(* to: however the answers are delayed or repeated, its sequence number      *)
(* tells those of an earlier receiver apart.                                 *)
THEOREM RegisteredMeansPeer == Spec => []RegisteredIsPeer
<1>1. RegInv => RegisteredIsPeer
  BY DEF RegInv
<1> QED
  BY <1>1, RegInit, RegNext, PTL DEF Spec

-----------------------------------------------------------------------------
(* The AIR0 file.  Only packets of the transfer that the first header named  *)
(* are written, so every chunk that is there is of that transfer.            *)

FileOfMeta == \A s \in Seqs : file[s] \in {0, meta}
FileInv == ReceiverTypeOK /\ FileOfMeta

LEMMA FileInit == Init => FileInv
BY TypesInit DEF Init, FileInv, FileOfMeta

LEMMA FileNext == FileInv /\ [Next]_vars => FileInv'
<1> SUFFICES ASSUME FileInv, [Next]_vars PROVE FileInv'
  OBVIOUS
<1>1. ReceiverTypeOK'
  BY TypesNext DEF FileInv
<1>2. CASE UNCHANGED <<file, meta>>
  BY <1>1, <1>2 DEF FileInv, FileOfMeta
<1>3. CASE TakePacket
  <2>1. Of # 0 /\ PacketSeq \in Seqs
    BY <1>3, PacketAtHasPlace DEF FileInv, TakePacket
  <2>2. meta \in {0, Of} /\ meta' = Of
    BY <1>3 DEF TakePacket, MetaMatches, FirstMeta
  <2>3. file' = file \/ file' = [file EXCEPT ![PacketSeq] = Of]
    BY <1>3 DEF TakePacket
  <2>4. ASSUME NEW s \in Seqs PROVE file'[s] \in {0, Of}
    BY <2>1, <2>2, <2>3 DEF FileInv, FileOfMeta, ReceiverTypeOK
  <2> QED
    BY <1>1, <2>2, <2>4 DEF FileInv, FileOfMeta
<1>4. CASE BadPayload \/ TakeFragment
  <2>1. file' = file /\ (meta = 0 \/ meta' = meta)
    BY <1>4 DEF BadPayload, TakeFragment, FirstMeta
  <2> QED
    BY <1>1, <2>1 DEF FileInv, FileOfMeta
<1>5. CASE Parse
  BY <1>2, <1>3, <1>4, <1>5
     DEF Parse, ParseEnds, Resync, BadHeader, PayloadMissing, WrongMeta, parseVars
<1>6. CASE Network
  BY <1>2, <1>6 DEF Network, Begin, RegistrationLost, Lose, BoardAnswers, parseVars
<1>7. CASE Socket
  BY <1>2, <1>7 DEF Socket, RegisterAck, Arrive, ArriveBad, WriteFails, parseVars
<1>8. CASE RegisterSend \/ RegisterGivesUp \/ Decide \/ LoopEnds \/ RegisterTimeout \/ CallFails \/ Idle
           \/ RequestStop \/ UNCHANGED vars
  BY <1>2, <1>8 DEF RegisterSend, RegisterGivesUp, Decide, LoopEnds, RegisterTimeout, CallFails, Idle,
                    RequestStop, vars, parseVars
<1> QED
  BY <1>5, <1>6, <1>7, <1>8 DEF Next, Worker

(* The checksum of the whole file is never what decides: the tests before it *)
(* only pass on a file all of whose chunks are of one transfer.              *)
THEOREM ChecksSuffice == Spec => []ChecksFindTheFile
<1>1. FileInv => ChecksFindTheFile
  <2> SUFFICES ASSUME FileInv, AirChecks PROVE FileCrcOk
    BY DEF ChecksFindTheFile
  <2>1. \A s \in 0 .. (FileSize - 1) : s \in Seqs /\ file[s] # 0
    BY DEF AirChecks, FileCovers
  <2>2. \A s \in 0 .. (FileSize - 1) : file[s] = meta /\ meta # 0
    BY <2>1 DEF FileInv, FileOfMeta
  <2>3. FileSize \in Int /\ FileSize > 0
    BY ReceiverAssumption DEF AirChecks, FileInv, ReceiverTypeOK, FileSize, Transfers
  <2> QED
    BY <2>2, <2>3 DEF FileCrcOk
<1> QED
  BY <1>1, FileInit, FileNext, PTL DEF Spec

-----------------------------------------------------------------------------
(* The end of run(): what is saved is saved once, and with it everything     *)
(* ends; every other end discards both temporary files.                      *)

OneKept == {[Gone EXCEPT !["raw"] = "kept"], [Gone EXCEPT !["file"] = "kept"]}

RunsOpen  == phase \notin Over => temps = Open /\ saved = Nothing
EndsClean == phase \in Over => IF saved = Nothing THEN temps = Gone ELSE temps \in OneKept
EndInv    == RunsOpen /\ EndsClean

LEMMA EndInit == Init => EndInv
BY DEF Init, EndInv, RunsOpen, EndsClean, Over

(* What is saved is not empty. *)
LEMMA ContentIsSomething ==
  ASSUME ReceiverTypeOK, Ready
  PROVE  Content # Nothing
<1>1. CASE mode = "air0"
  <2>1. FileSize \in Int /\ FileSize > 0
    BY <1>1, ReceiverAssumption DEF Ready, AirChecks, ReceiverTypeOK, FileSize, Transfers
  <2>2. 0 \in DOMAIN Content
    BY <1>1, <2>1 DEF Content
  <2> QED
    BY <2>2 DEF Nothing
<1>2. CASE mode # "air0"
  <2>1. Covered(1)
    BY <1>2, ReceiverAssumption DEF Ready, Covered
  <2>2. 0 \in Offsets
    BY <2>1 DEF Covered, Written
  <2>3. 0 \in DOMAIN Content
    BY <1>2, <2>1, <2>2, ReceiverAssumption DEF Content
  <2> QED
    BY <2>3 DEF Nothing
<1> QED
  BY <1>1, <1>2

(* After the end nothing of it changes. *)
LEMMA EndIsFinal ==
  ASSUME phase \in Over, [Next]_vars
  PROVE  UNCHANGED <<phase, raw, mode, temps, saved>>
<1>1. phase \in {"ended", "failed"}
  BY DEF Over
<1>2. CASE Network
  BY <1>2 DEF Network, Begin, RegistrationLost, Lose, BoardAnswers, endVars
<1>3. ~Socket
  BY <1>1 DEF Socket, RegisterAck, Arrive, ArriveBad, WriteFails
<1>4. ~Worker
  <2>1. ~Parse
    BY <1>1 DEF Parse, ParseEnds, Resync, BadHeader, PayloadMissing, PacketAt, WrongMeta, BadPayload,
                TakePacket, TakeFragment
  <2>2. ~Decide
    BY <1>1 DEF Decide, Deciding, Save, FinalizeFails, GiveUp, NotYet, Leave, Explains, Forced
  <2> QED
    BY <1>1, <2>1, <2>2 DEF Worker, RegisterSend, RegisterGivesUp, LoopEnds
<1>5. ~CallFails /\ ~RegisterTimeout /\ ~Idle /\ ~RequestStop
  BY <1>1 DEF RegisterTimeout, CallFails, Idle, RequestStop, Over
<1>6. CASE UNCHANGED vars
  BY <1>6 DEF vars, endVars
<1> QED
  BY <1>2, <1>3, <1>4, <1>5, <1>6 DEF Next

(* While run() runs, only a save makes something saved.                      *)
LEMMA BeforeTheEnd ==
  ASSUME phase \notin Over, RunsOpen, [Next]_vars
  PROVE  \/ Decide /\ Save
         \/ phase' \notin Over /\ temps' = Open /\ saved' = Nothing
         \/ phase' \in Over /\ temps' = Gone /\ saved' = Nothing
<1>1. temps = Open /\ saved = Nothing /\ Discarded = Gone
  BY DEF RunsOpen, Discarded
<1>2. CASE UNCHANGED <<temps, saved>> /\ phase' \notin Over
  BY <1>1, <1>2
<1>3. CASE temps' = Discarded /\ saved' = saved /\ phase' \in Over
  BY <1>1, <1>3
<1>4. CASE Network
  BY <1>2, <1>4 DEF Network, Begin, RegistrationLost, Lose, BoardAnswers, endVars
<1>5. CASE Socket
  BY <1>2, <1>3, <1>5 DEF Socket, RegisterAck, Arrive, ArriveBad, WriteFails, Fail, Over, endVars
<1>6. CASE Parse
  BY <1>2, <1>6 DEF Parse, ParseEnds, Resync, BadHeader, PayloadMissing, WrongMeta, BadPayload,
                    TakePacket, TakeFragment, Consume, Parsed, MoreToParse, Over, endVars
<1>7. CASE Decide
  BY <1>2, <1>3, <1>7 DEF Decide, FinalizeFails, GiveUp, NotYet, Leave, Fail, Over, endVars
<1>8. CASE RegisterSend \/ RegisterGivesUp \/ LoopEnds \/ RegisterTimeout \/ CallFails \/ Idle
  BY <1>2, <1>3, <1>8 DEF RegisterSend, RegisterGivesUp, LoopEnds, RegisterTimeout, CallFails, Idle, Fail,
                          Over, endVars
<1>9. CASE RequestStop \/ UNCHANGED vars
  BY <1>2, <1>9 DEF RequestStop, vars, endVars
<1> QED
  BY <1>4, <1>5, <1>6, <1>7, <1>8, <1>9 DEF Next, Worker

LEMMA EndNext == ReceiverTypeOK /\ EndInv /\ [Next]_vars => EndInv'
<1> SUFFICES ASSUME ReceiverTypeOK, EndInv, [Next]_vars PROVE EndInv'
  OBVIOUS
<1>1. CASE phase \in Over
  <2>1. UNCHANGED <<phase, temps, saved>>
    BY <1>1, EndIsFinal
  <2> QED
    BY <2>1 DEF EndInv, RunsOpen, EndsClean
<1>2. CASE phase \notin Over
  <2>1. CASE Decide /\ Save
    <3>1. saved' # Nothing
      BY <2>1, ContentIsSomething DEF Save
    <3>2. temps' \in OneKept /\ phase' \in Over
      BY <2>1 DEF Save, Kept, OneKept, Over
    <3> QED
      BY <3>1, <3>2 DEF EndInv, RunsOpen, EndsClean
  <2>2. CASE phase' \notin Over /\ temps' = Open /\ saved' = Nothing
    BY <2>2 DEF EndInv, RunsOpen, EndsClean
  <2>3. CASE phase' \in Over /\ temps' = Gone /\ saved' = Nothing
    BY <2>3 DEF EndInv, RunsOpen, EndsClean
  <2> QED
    BY <1>2, <2>1, <2>2, <2>3, BeforeTheEnd DEF EndInv
<1> QED
  BY <1>1, <1>2

LEMMA CleanEnd == EndInv => TempFilesGone
<1> SUFFICES ASSUME EndInv, phase \in Over
             PROVE  /\ \A f \in DOMAIN temps : temps[f] # "open"
                    /\ Cardinality({f \in DOMAIN temps : temps[f] = "kept"})
                         = IF saved = Nothing THEN 0 ELSE 1
  BY DEF TempFilesGone
<1>1. CASE saved = Nothing
  <2>1. temps = Gone
    BY <1>1 DEF EndInv, EndsClean
  <2>2. {f \in DOMAIN temps : temps[f] = "kept"} = {}
    BY <2>1 DEF Gone
  <2> QED
    BY <1>1, <2>1, <2>2, FS_EmptySet DEF Gone
<1>2. CASE saved # Nothing
  <2>1. PICK x \in {"raw", "file"} : temps = [Gone EXCEPT ![x] = "kept"]
    BY <1>2 DEF EndInv, EndsClean, OneKept
  <2>2. {f \in DOMAIN temps : temps[f] = "kept"} = {x}
    BY <2>1 DEF Gone
  <2>3. Cardinality({x}) = 1
    BY FS_Singleton
  <2>4. \A f \in DOMAIN temps : temps[f] # "open"
    BY <2>1 DEF Gone
  <2> QED
    BY <1>2, <2>2, <2>3, <2>4
<1> QED
  BY <1>1, <1>2

(* Whatever ends run(), an exception included, both temporary files are gone *)
(* but the one that became the output.                                       *)
THEOREM NoTempFileStays == Spec => []TempFilesGone
<1>1. Init => ReceiverTypeOK /\ EndInv
  BY TypesInit, EndInit
<1>2. ReceiverTypeOK /\ EndInv /\ [Next]_vars => (ReceiverTypeOK /\ EndInv)'
  BY TypesNext, EndNext
<1> QED
  BY <1>1, <1>2, CleanEnd, PTL DEF Spec

RawInv == ReceiverTypeOK /\ EndInv /\ RawSaveIsWhole

LEMMA RawNext == RawInv /\ [Next]_vars => RawInv'
<1> SUFFICES ASSUME RawInv, [Next]_vars PROVE RawSaveIsWhole'
  BY TypesNext, EndNext DEF RawInv
<1>1. CASE phase \in Over
  <2>1. UNCHANGED <<raw, mode, saved>>
    BY <1>1, EndIsFinal
  <2> QED
    BY <2>1 DEF RawInv, RawSaveIsWhole, Written
<1>2. CASE Decide /\ Save
  <2>1. raw' = raw /\ mode' = mode /\ saved' = Content /\ Ready
    BY <1>2 DEF Decide, Save
  <2> SUFFICES ASSUME mode \in {"none", "raw"}, Expected = 0,
                      NEW o \in Offsets, Written(o), NEW p \in 0 .. o
               PROVE  p \in DOMAIN Content /\ Content[p] # 0
    BY <2>1 DEF RawSaveIsWhole, Written
  <2>2. Covered(o)
    BY <2>1 DEF Ready, RawIncomplete, RawGap
  <2>3. o \in Nat /\ p \in Nat /\ p <= o
    BY ReceiverAssumption DEF Offsets
  <2>4. p \in Offsets /\ raw[p] # 0
    BY <2>2, <2>3 DEF Covered, Written
  <2>5. Covered(p + 1)
    BY <2>2, <2>3, <2>4 DEF Covered, Written
  <2>6. Content = [q \in {r \in Offsets : Covered(r + 1)} |-> raw[q]]
    BY ReceiverAssumption DEF Content
  <2> QED
    BY <2>4, <2>5, <2>6
<1>3. CASE saved' = Nothing
  BY <1>3 DEF RawSaveIsWhole
<1> QED
  BY <1>1, <1>2, <1>3, BeforeTheEnd DEF RawInv, EndInv

(* A raw stream saved without a length is everything that was received, and  *)
(* stays so: nothing is written once it is saved.                            *)
THEOREM RawSavedWhole == Spec => []RawSaveIsWhole
<1>1. Init => RawInv
  BY TypesInit, EndInit DEF Init, RawInv, RawSaveIsWhole
<1>2. RawInv => RawSaveIsWhole
  BY DEF RawInv
<1> QED
  BY <1>1, <1>2, RawNext, PTL DEF Spec

-----------------------------------------------------------------------------
(* What the parser passed.  While the data of one transfer is about, the     *)
(* file holds cells of that transfer only; a packet of it that is clean is   *)
(* still ahead of the parser, which is never inside one, or was taken.       *)
Air == {"air0", "airv"}
Alone == begun = 1 /\ mode \in Air
Clean(s) == {3 * s, 3 * s + 1, 3 * s + 2} \cap damaged[1] = {}

OneOrigin ==
  /\ \A o \in Offsets : raw[o] \in 0 .. begun
  /\ meta \in 0 .. begun
  /\ phase = "parse" => mode \in Air
  /\ mode \in Air => begun >= 1 /\ (begun = 1 => mode = Format[1])
  /\ mode \notin Air => pos = 0

AheadOrTaken ==
  Alone /\ SearchReaches =>
    \A s \in 0 .. (Packets[1] - 1) : Clean(s) => pos <= 3 * s \/ (3 * s + 3 <= pos /\ s \in seen)

PassInv == OneOrigin /\ AheadOrTaken

(* A set of numbers that is not empty has a least one. *)
LEMMA LeastOf ==
  ASSUME NEW T, T \subseteq Nat, T # {}
  PROVE  \E x \in T : \A y \in T : x <= y
<1> DEFINE R == {p \in Nat \X Nat : p[1] < p[2]}
<1>1. IsWellFoundedOn(R, Nat)
  BY NatLessThanWellFounded, Zenon DEF OpToRel
<1>2. \A x, y \in Nat : y < x => <<y, x>> \in R
  OBVIOUS
<1> HIDE DEF R
<1>3. \E x \in T : \A y \in T : ~(<<y, x>> \in R)
  BY <1>1, WFMin, Zenon
<1>4. PICK x \in T : \A y \in T : ~(<<y, x>> \in R)
  BY <1>3
<1>5. ASSUME NEW y \in T
      PROVE  x <= y
  <2>1. x \in Nat /\ y \in Nat /\ ~(<<y, x>> \in R)
    BY <1>4
  <2>2. ~(y < x)
    BY <1>2, <2>1
  <2> QED
    BY <2>1, <2>2
<1> QED
  BY <1>5

(* Where a clean packet is covered, the parser's tests on it succeed. *)
LEMMA CleanPacket ==
  ASSUME ReceiverTypeOK, OneOrigin, Alone,
         NEW s \in 0 .. (Packets[1] - 1), Clean(s)
  PROVE  /\ s \in Nat /\ 3 * s + 2 < Cells(1) /\ {3 * s, 3 * s + 1, 3 * s + 2} \subseteq Offsets
         /\ Covered(3 * s + 1) => Magic(3 * s)
         /\ Covered(3 * s + 2) => Header(3 * s)
         /\ Covered(3 * s + 3) => raw[3 * s + 1] = 1 /\ raw[3 * s + 2] = 1 /\ Payload(3 * s + 2)
<1>1. /\ NumTransfers \in Nat /\ 1 \in Transfers /\ MaxPackets \in Nat
      /\ Packets[1] \in Nat /\ Packets[1] <= MaxPackets /\ Format[1] = mode
  BY ReceiverAssumption DEF ReceiverTypeOK, OneOrigin, Transfers, Alone
<1>2. s \in Nat /\ 3 * s + 2 < Cells(1) /\ {3 * s, 3 * s + 1, 3 * s + 2} \subseteq Offsets
  BY <1>1 DEF Cells, Offsets
<1>3. \A o \in Offsets : raw[o] # 0 => raw[o] = 1
  BY DEF OneOrigin, Alone
<1>4. 3 * s \notin damaged[1] /\ 3 * s + 1 \notin damaged[1] /\ 3 * s + 2 \notin damaged[1]
  BY DEF Clean
<1> DEFINE o == 3 * s
<1>5. o \in Nat /\ o % 3 = 0
  BY <1>2
<1>6. Covered(o + 1) => raw[o] = 1
  BY <1>2, <1>3, <1>5 DEF Covered, Written
<1>7. Covered(o + 2) => raw[o + 1] = 1
  BY <1>2, <1>3, <1>5 DEF Covered, Written
<1>8. Covered(o + 3) => raw[o + 1] = 1 /\ raw[o + 2] = 1
  BY <1>2, <1>3, <1>5 DEF Covered, Written
<1> HIDE DEF o
<1> QED
  BY <1>1, <1>2, <1>4, <1>5, <1>6, <1>7, <1>8 DEF Magic, Header, Payload, Written, o

(* The search for the next magic word passes no clean packet. *)
LEMMA SearchPassesNone ==
  ASSUME ReceiverTypeOK, OneOrigin, Alone, SearchReaches, Resync,
         NEW s \in 0 .. (Packets[1] - 1), Clean(s), pos <= 3 * s
  PROVE  pos' <= 3 * s
<1> DEFINE o == 3 * s
<1>1. /\ s \in Nat /\ o \in Nat /\ o % 3 = 0 /\ o < Cells(1) /\ o \in Offsets /\ o \notin damaged[1]
      /\ Covered(o + 1) => Magic(o)
  <2>1. /\ s \in Nat /\ o + 2 < Cells(1) /\ {o, o + 1, o + 2} \subseteq Offsets
        /\ Covered(o + 1) => Magic(o)
    BY CleanPacket
  <2>2. o \notin damaged[1]
    BY DEF Clean
  <2>3. Cells(1) \in Int
    BY ReceiverAssumption DEF ReceiverTypeOK, Cells, Transfers, Alone
  <2>4. o \in Nat /\ o % 3 = 0
    BY <2>1
  <2>5. {o, o + 1, o + 2} \subseteq Offsets => o \in Offsets
    OBVIOUS
  <2> HIDE DEF o
  <2> QED
    BY <2>1, <2>2, <2>3, <2>4, <2>5
<1>2. pos \in Nat /\ Covered(pos + 2) /\ ~Magic(pos) /\ pos' \in Nat
  <2>1. pos \in Nat /\ Covered(pos + 2) /\ ~Magic(pos)
    BY DEF ReceiverTypeOK, Resync
  <2>2. pos' \in NextMagic \/ pos' \in pos .. (3 * MaxPackets)
    BY DEF Resync
  <2>3. NextMagic \subseteq Nat
    BY DEF NextMagic, Offsets
  <2>4. 3 * MaxPackets \in Nat
    BY ReceiverAssumption
  <2>5. pos' \in pos .. (3 * MaxPackets) => pos' \in Nat
    BY <2>1, <2>4
  <2> QED
    BY <2>1, <2>2, <2>3, <2>5
<1>3. pos < o
  <2>1. pos # o
    <3>1. Covered(pos + 1)
      BY <1>2 DEF Covered
    <3> QED
      BY <1>1, <1>2, <3>1
  <2> HIDE DEF o
  <2> QED
    BY <1>1, <1>2, <2>1 DEF o
<1>4. ASSUME NEW m \in Offsets, m > pos, m < pos + ScanCells, m % 3 = 0, m \notin damaged[1], Covered(m + 1)
      PROVE  Found(m)
  <2>1. Written(m) /\ raw[m] = 1 /\ Format[1] = mode
    BY <1>4 DEF Covered, Written, OneOrigin, Offsets, Alone
  <2> QED
    BY <1>4, <2>1 DEF Found, Magic
<1>5. \A n \in Nat : \A m \in Nat : Covered(n) /\ m < n => Covered(m + 1)
  BY DEF Covered
<1>6. CASE pos' \in NextMagic
  <2>1. Covered(pos' + 1) /\ pos' < pos + ScanCells /\ \A q \in Offsets : Found(q) => pos' <= q
    BY <1>6 DEF NextMagic, Found
  <2>2. o < pos' => Found(o)
    <3> HIDE DEF o
    <3>1. o < pos' => Covered(o + 1)
      BY <1>1, <1>2, <1>5, <2>1
    <3>2. o < pos' => o < pos + ScanCells
      BY <1>1, <1>2, <2>1, ReceiverAssumption
    <3> QED
      BY <1>1, <1>3, <1>4, <3>1, <3>2
  <2> HIDE DEF o
  <2> QED
    BY <1>1, <1>2, <2>1, <2>2 DEF o
<1>7. CASE NextMagic = {} /\ Covered(pos')
  <2>1. \A m \in Offsets : ~Found(m)
    <3> DEFINE T == {m \in Offsets : Found(m)}
    <3>1. T \subseteq Nat
      BY DEF Offsets
    <3>2. T # {} => \E x \in T : \A y \in T : x <= y
      BY <3>1, LeastOf
    <3>3. T = {}
      BY <1>7, <3>2 DEF NextMagic
    <3> QED
      BY <3>3
  <2>2. SUFFICES ASSUME o < pos' PROVE FALSE
    BY <1>1, <1>2
  <2> HIDE DEF o
  <2>3. ~(o < pos + ScanCells)
    BY <1>1, <1>2, <1>3, <1>4, <1>5, <1>7, <2>1, <2>2
  <2>4. pos + ScanCells <= Cells(1) /\ pos \in Offsets /\ Cells(1) \in Nat
    <3>1. Cells(1) \in Nat /\ 3 * MaxPackets \in Nat
      BY ReceiverAssumption DEF ReceiverTypeOK, Cells, Transfers, Alone
    <3>2. o \in 0 .. 3 * MaxPackets - 1
      BY <1>1 DEF Offsets
    <3> QED
      BY <1>1, <1>2, <1>3, <2>3, <3>1, <3>2, ReceiverAssumption DEF Offsets
  <2>5. PICK m \in (pos + 1) .. (pos + ScanCells - 1) : m % 3 = 0 /\ m \notin damaged[1]
    BY <2>4 DEF SearchReaches
  <2>6. m \in Nat /\ m > pos /\ m < pos + ScanCells /\ m < o
    BY <1>1, <1>2, <2>3, ReceiverAssumption
  <2>7. m \in Offsets
    BY <1>1, <2>6, ReceiverAssumption DEF Offsets
  <2>8. Covered(m + 1)
    BY <1>1, <1>2, <1>5, <1>7, <2>2, <2>6
  <2> QED
    BY <1>4, <2>1, <2>5, <2>6, <2>7, <2>8
<1> QED
  BY <1>6, <1>7 DEF Resync

LEMMA PassInit == Init => PassInv
BY ReceiverAssumption DEF Init, PassInv, OneOrigin, AheadOrTaken, Alone, Air

(* What a turn of the parser does to a clean packet it had not passed. *)
LEMMA ParseTakesClean ==
  ASSUME ReceiverTypeOK, OneOrigin, Alone, SearchReaches, Parse,
         NEW s \in 0 .. (Packets[1] - 1), Clean(s), pos <= 3 * s
  PROVE  pos' <= 3 * s \/ (3 * s + 3 <= pos' /\ s \in seen')
<1> DEFINE o == 3 * s
<1>1. /\ s \in Nat /\ pos \in Nat
      /\ Covered(o + 2) => Header(o)
      /\ Covered(o + 3) => raw[o + 1] = 1 /\ raw[o + 2] = 1 /\ Payload(o + 2)
  BY CleanPacket DEF ReceiverTypeOK
<1>2. o \in Nat /\ o % 3 = 0 /\ o \div 3 = s /\ pos <= o
  BY <1>1
<1> HIDE DEF o
<1>3. SUFFICES pos' <= o \/ (o + 3 <= pos' /\ s \in seen')
  BY DEF o
<1>4. CASE ParseEnds \/ PayloadMissing
  BY <1>2, <1>4 DEF ParseEnds, PayloadMissing, parseVars
<1>5. CASE Resync
  BY <1>5, SearchPassesNone DEF o
<1>6. CASE BadHeader
  <2>1. pos # o
    BY <1>1, <1>6 DEF BadHeader
  <2> QED
    BY <1>1, <1>2, <1>6, <2>1 DEF BadHeader
<1>7. ASSUME PacketAt, pos' = pos + 3, pos = o => s \in seen' PROVE pos' <= o \/ (o + 3 <= pos' /\ s \in seen')
  <2>1. pos % 3 = 0
    BY <1>7 DEF PacketAt, Magic
  <2>2. pos # o => pos + 3 <= o
    BY <1>1, <1>2, <2>1
  <2> QED
    BY <1>1, <1>2, <1>7, <2>2
<1>8. CASE WrongMeta \/ BadPayload \/ TakePacket \/ TakeFragment
  <2>1. PacketAt /\ pos' = pos + 3
    BY <1>8 DEF WrongMeta, BadPayload, TakePacket, TakeFragment, Consume
  <2>2. pos = o => Of = 1 /\ PacketSeq = s /\ Intact /\ MetaMatches
    <3> SUFFICES ASSUME pos = o PROVE Of = 1 /\ PacketSeq = s /\ Intact /\ MetaMatches
      OBVIOUS
    <3>1. Covered(o + 3)
      BY <2>1 DEF PacketAt
    <3>2. Of = 1 /\ Intact /\ PacketSeq = s
      BY <1>1, <1>2, <3>1 DEF Of, Intact, PacketSeq
    <3>3. meta \in {0, 1}
      BY DEF OneOrigin, Alone
    <3> QED
      BY <3>2, <3>3 DEF MetaMatches
  <2>3. pos = o => s \in seen'
    BY <1>8, <2>2 DEF WrongMeta, BadPayload, TakePacket, TakeFragment
  <2> QED
    BY <1>7, <2>1, <2>3
<1> QED
  BY <1>4, <1>5, <1>6, <1>8 DEF Parse

(* The parser never goes back, and what it took stays taken. *)
LEMMA ParseGoesOn ==
  ASSUME ReceiverTypeOK, Parse
  PROVE  /\ pos \in Nat /\ pos' \in Nat /\ pos <= pos' /\ seen \subseteq seen'
         /\ UNCHANGED <<begun, damaged, raw, mode>>
         /\ phase = "parse" /\ meta' \in {meta, Of}
         /\ meta' # meta => PacketAt
<1>1. pos \in Nat /\ pos' \in Nat
  BY TypesParse, ReceiverAssumption DEF ReceiverTypeOK
<1>2. pos <= pos'
  <2>1. CASE ParseEnds \/ PayloadMissing
    BY <1>1, <2>1 DEF ParseEnds, PayloadMissing, parseVars
  <2>2. CASE Resync
    <3>1. CASE pos' \in NextMagic
      BY <1>1, <3>1 DEF NextMagic, Found
    <3>2. CASE pos' \in pos .. (3 * MaxPackets)
      BY <1>1, <3>2, ReceiverAssumption
    <3> QED
      BY <2>2, <3>1, <3>2 DEF Resync
  <2>3. CASE BadHeader \/ WrongMeta \/ BadPayload \/ TakePacket \/ TakeFragment
    BY <1>1, <2>3 DEF BadHeader, WrongMeta, BadPayload, TakePacket, TakeFragment, Consume
  <2> QED
    BY <2>1, <2>2, <2>3 DEF Parse
<1>3. seen \subseteq seen'
  BY DEF Parse, ParseEnds, Resync, BadHeader, PayloadMissing, WrongMeta, BadPayload, TakePacket,
         TakeFragment, parseVars
<1>4. UNCHANGED <<begun, damaged, raw, mode>>
  BY DEF Parse, netVars
<1>5. phase = "parse"
  BY DEF Parse, ParseEnds, Resync, BadHeader, PayloadMissing, WrongMeta, BadPayload, TakePacket,
         TakeFragment, PacketAt
<1>6. meta' \in {meta, Of} /\ (meta' # meta => PacketAt)
  BY DEF Parse, ParseEnds, Resync, BadHeader, PayloadMissing, WrongMeta, BadPayload, TakePacket,
         TakeFragment, FirstMeta, parseVars
<1> QED
  BY <1>1, <1>2, <1>3, <1>4, <1>5, <1>6

LEMMA PassParse == ReceiverTypeOK /\ PassInv /\ Parse => PassInv'
<1> SUFFICES ASSUME ReceiverTypeOK, PassInv, Parse PROVE PassInv'
  OBVIOUS
<1>1. OneOrigin /\ AheadOrTaken
  BY DEF PassInv
<1>2. OneOrigin'
  <2>1. meta' \in 0 .. begun
    <3>1. CASE meta' = meta
      BY <1>1, <3>1 DEF OneOrigin
    <3>2. CASE meta' = Of /\ PacketAt
      <4>1. pos \in Nat /\ pos + 3 \in 0 .. 3 * MaxPackets
        BY <3>2, PacketAtHasPlace
      <4>2. pos + 1 \in Offsets
        BY <4>1, ReceiverAssumption DEF Offsets
      <4> QED
        BY <1>1, <3>2, <4>2 DEF OneOrigin, Of
    <3> QED
      BY <3>1, <3>2, ParseGoesOn
  <2>2. mode \in Air
    BY <1>1, ParseGoesOn DEF OneOrigin
  <2> QED
    BY <1>1, <2>1, <2>2, ParseGoesOn DEF OneOrigin
<1>3. AheadOrTaken'
  <2> SUFFICES ASSUME Alone', SearchReaches', NEW s \in 0 .. (Packets[1] - 1), Clean(s)'
               PROVE  pos' <= 3 * s \/ (3 * s + 3 <= pos' /\ s \in seen')
    BY DEF AheadOrTaken
  <2>1. Alone /\ SearchReaches /\ Clean(s)
    BY ParseGoesOn DEF Alone, SearchReaches, Clean
  <2>2. pos <= 3 * s \/ (3 * s + 3 <= pos /\ s \in seen)
    BY <1>1, <2>1 DEF AheadOrTaken
  <2>3. CASE pos <= 3 * s
    BY <1>1, <2>1, <2>3, ParseTakesClean
  <2>4. CASE 3 * s + 3 <= pos /\ s \in seen
    <3>1. 3 * s + 3 \in Int
      OBVIOUS
    <3> QED
      BY <2>4, <3>1, ParseGoesOn
  <2> QED
    BY <2>2, <2>3, <2>4
<1> QED
  BY <1>2, <1>3 DEF PassInv

(* Steps that leave the file and the parser alone. *)
LEMMA PassKeeps ==
  ASSUME PassInv, UNCHANGED <<begun, damaged, raw, mode, pos, meta, seen>>,
         phase' = "parse" => phase = "parse"
  PROVE  PassInv'
BY DEF PassInv, OneOrigin, AheadOrTaken, Alone, SearchReaches, Clean

LEMMA PassBegin == ReceiverTypeOK /\ PassInv /\ Begin => PassInv'
<1> SUFFICES ASSUME ReceiverTypeOK, PassInv, Begin PROVE PassInv'
  OBVIOUS
<1>1. begun \in Nat /\ begun' = begun + 1
  BY ReceiverAssumption DEF ReceiverTypeOK, Begin
<1>2. UNCHANGED <<phase, damaged, raw, mode, pos, meta, seen>>
  BY DEF Begin, parseVars
<1>3. ~Alone'
  BY <1>1, <1>2 DEF PassInv, OneOrigin, Alone
<1>4. mode \in Air => begun' # 1
  BY <1>1 DEF PassInv, OneOrigin
<1>5. OneOrigin'
  BY <1>1, <1>2, <1>4 DEF PassInv, OneOrigin
<1> QED
  BY <1>3, <1>5 DEF PassInv, AheadOrTaken

LEMMA PassArrive ==
  ASSUME ReceiverTypeOK, PassInv, NEW d \in wire, Arrive(d)
  PROVE  PassInv'
<1>1. UNCHANGED <<begun, damaged, pos, meta, seen>>
  BY DEF Arrive, parseVars
<1>2. PICK t \in 1 .. begun : d \in Datagrams(t)
  BY DEF ReceiverTypeOK
<1>3. d.of = t /\ begun \in Nat /\ begun >= 1 /\ t \in Transfers
  BY <1>2, DatagramsHaveOrigin, ReceiverAssumption DEF ReceiverTypeOK, Transfers
<1>4. \A o \in Offsets : raw'[o] \in 0 .. begun
  BY <1>2, <1>3 DEF PassInv, OneOrigin, Arrive, WithExtent
<1>5. phase' = "parse" => mode' \in Air
  BY DEF Arrive, Air
<1>6. CASE mode # "none"
  <2>1. mode' = mode
    BY <1>6 DEF Arrive, Detected
  <2>2. OneOrigin'
    BY <1>1, <1>4, <1>5, <2>1 DEF PassInv, OneOrigin
  <2> QED
    BY <1>1, <2>1, <2>2 DEF PassInv, AheadOrTaken, Alone, SearchReaches, Clean
<1>7. CASE mode = "none"
  <2>1. pos = 0
    BY <1>7 DEF PassInv, OneOrigin, Air
  <2>2. mode' \in Air /\ begun = 1 => mode' = Format[1]
    <3>1. 0 \in Offsets
      BY <1>3, ReceiverAssumption DEF Offsets
    <3>2. begun = 1 => raw'[0] \in {0, 1}
      BY <1>3, <1>4, <3>1
    <3> QED
      BY <1>7, <3>2 DEF Arrive, Detected, FirstWord, Air
  <2>3. OneOrigin'
    BY <1>1, <1>3, <1>4, <1>5, <2>1, <2>2 DEF PassInv, OneOrigin
  <2>4. AheadOrTaken'
    BY <1>1, <2>1 DEF AheadOrTaken
  <2> QED
    BY <2>3, <2>4 DEF PassInv
<1> QED
  BY <1>6, <1>7

LEMMA PassNext == ReceiverTypeOK /\ PassInv /\ [Next]_vars => PassInv'
<1> SUFFICES ASSUME ReceiverTypeOK, PassInv, [Next]_vars PROVE PassInv'
  OBVIOUS
<1>1. CASE Network
  <2>1. CASE Begin
    BY <2>1, PassBegin
  <2>2. CASE ~Begin
    <3>1. /\ UNCHANGED <<phase, begun, damaged, raw, mode, pos, meta, seen>>
      BY <1>1, <2>2 DEF Network, RegistrationLost, Lose, BoardAnswers, netVars, parseVars
    <3> QED
      BY <3>1, PassKeeps
  <2> QED
    BY <2>1, <2>2
<1>2. CASE Socket
  <2>1. CASE \E d \in wire : Arrive(d)
    BY <2>1, PassArrive
  <2>2. CASE ~\E d \in wire : Arrive(d)
    <3>1. UNCHANGED <<begun, damaged, raw, mode, pos, meta, seen>> /\ (phase' = "parse" => phase = "parse")
      BY <1>2, <2>2 DEF Socket, RegisterAck, ArriveBad, WriteFails, Fail, netVars, parseVars
    <3> QED
      BY <3>1, PassKeeps
  <2> QED
    BY <2>1, <2>2
<1>3. CASE Parse
  BY <1>3, PassParse
<1>4. CASE Decide
  <2>1. UNCHANGED <<begun, damaged, raw, mode, pos, meta, seen>>
    BY <1>4 DEF Decide, netVars, parseVars
  <2>2. phase' # "parse"
    BY <1>4 DEF Decide, Save, FinalizeFails, Fail, GiveUp, NotYet, Leave
  <2> QED
    BY <2>1, <2>2, PassKeeps
<1>5. CASE RegisterSend \/ RegisterGivesUp \/ LoopEnds \/ RegisterTimeout \/ CallFails \/ Idle \/ RequestStop
  <2>1. UNCHANGED <<begun, damaged, raw, mode, pos, meta, seen>> /\ (phase' = "parse" => phase = "parse")
    BY <1>5 DEF RegisterSend, RegisterGivesUp, LoopEnds, RegisterTimeout, CallFails, Idle, RequestStop, Fail,
                netVars, parseVars
  <2> QED
    BY <2>1, PassKeeps
<1>6. CASE UNCHANGED vars
  BY <1>6, PassKeeps DEF vars, netVars, parseVars
<1> QED
  BY <1>1, <1>2, <1>3, <1>4, <1>5, <1>6 DEF Next, Worker

(* Of the only transfer, every packet that arrived undamaged and that the    *)
(* parser has passed was taken, for any damage the search can see across.    *)
THEOREM PassedIsTaken == Spec => []PassedMeansTaken
<1>1. ReceiverTypeOK /\ PassInv => PassedMeansTaken
  <2> SUFFICES ASSUME ReceiverTypeOK, AheadOrTaken, Alone, SearchReaches,
                      NEW s \in 0 .. (Packets[1] - 1), 3 * s + 3 <= pos, Clean(s)
               PROVE  s \in seen
    BY DEF PassedMeansTaken, PassInv, Alone, Air, Clean
  <2>1. pos <= 3 * s \/ s \in seen
    BY DEF AheadOrTaken
  <2>2. pos \in Nat /\ s \in Int
    BY DEF ReceiverTypeOK
  <2> QED
    BY <2>1, <2>2
<1>2. Init => ReceiverTypeOK /\ PassInv
  BY TypesInit, PassInit
<1>3. ReceiverTypeOK /\ PassInv /\ [Next]_vars => (ReceiverTypeOK /\ PassInv)'
  BY TypesNext, PassNext
<1> QED
  BY <1>1, <1>2, <1>3, PTL DEF Spec
=============================================================================
