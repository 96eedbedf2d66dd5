------------------------------ MODULE Receiver ------------------------------
(* The receiving side on the PC (tools/pc_sender/receiver_core.py): it      *)
(* registers with the board, writes what the board returns into a sparse    *)
(* file at the offset each packet names, parses the gapless front of that   *)
(* file as AIR0 or AIRV packets, and decides when a file is complete.       *)
(*                                                                         *)
(* An offset counts cells.  A packet of a transfer is three cells: the      *)
(* magic word, the rest of its header, its payload; the board returns the   *)
(* stream in datagrams of UdpCells cells, which respect no packet boundary. *)
(* A cell is identified by the transfer it came from, its content by that   *)
(* and its offset; a damaged cell is one the radio got wrong.  A checksum   *)
(* is right when what it covers comes undamaged from one transfer.          *)
(*                                                                         *)
(* run() is one thread; phase is its place, so that stop(), called by the   *)
(* user interface, falls between any two steps.                             *)
(*                                                                         *)
(* An operator whose name ends in _Word, before the one it resembles, is a  *)
(* seeded fault that no specification uses.                                 *)
EXTENDS Integers, FiniteSets

CONSTANTS
  NumTransfers,   \* transfers whose data may reach this receiver
  Packets,        \* Packets[t]: packets of transfer t
  Format,         \* Format[t]: "air0", "airv" or "raw"
  MaxPackets,     \* bound: the longest transfer
  MaxDamage,      \* bound: cells the radio damages
  UdpCells,       \* NET_LOOPBACK_UDP_PAYLOAD_BYTES
  ScanCells,      \* the 4096 bytes a search for the next magic word covers
  Expected,       \* config.expected_bytes
  MaxAttempts,    \* attempts of _register_with_board
  Registers,      \* config.register_with_board
  Duplicates      \* the network may deliver a datagram twice

Transfers == 1 .. NumTransfers
Cells(t)  == 3 * Packets[t]
Offsets   == 0 .. (3 * MaxPackets - 1)
Seqs      == 0 .. (MaxPackets - 1)

ASSUME ReceiverAssumption ==
  /\ NumTransfers \in Nat /\ MaxPackets \in Nat /\ MaxDamage \in Nat
  /\ Packets \in [Transfers -> 1 .. MaxPackets]
  /\ Format \in [Transfers -> {"air0", "airv", "raw"}]
  /\ UdpCells \in Nat \ {0} /\ ScanCells \in Nat \ {0}
  /\ Expected \in 0 .. 3 * MaxPackets
  /\ MaxAttempts \in Nat
  /\ Registers \in BOOLEAN /\ Duplicates \in BOOLEAN

VARIABLES
  phase,       \* where run() is
  attempts,    \* register_attempts
  registered,  \* register_ok
  cfg, acks,   \* external: RXCFG and its answers on the wire
  peer,        \* external: the board returns to this receiver
  begun,       \* external: transfers whose data is or was on its way
  wire,        \* external: datagrams under way
  damaged,     \* external: what the radio damaged
  raw,         \* _raw_assembler: the transfer each cell came from, 0 none
  file,        \* _file_assembler: the transfer each chunk came from
  mode,        \* _air_checked, _air_mode, _airv_mode
  pos,         \* _air_parse_offset, _airv_parse_offset
  meta,        \* _air_meta, the assembler's stream_meta: a transfer, 0 none
  seen,        \* _air_received_seqs, fragments handed to the assembler
  flaws,       \* which of air_bad_meta, air_bad_payload_crc is not zero
  gotLast,     \* air_got_last
  heard,       \* last_payload_time > 0
  stop,        \* _stop_requested
  incomplete,  \* incomplete_reason is set
  temps,       \* the two temporary files
  saved        \* what the saved file holds, by cell or chunk

regVars   == <<attempts, registered, cfg, acks, peer>>
netVars   == <<begun, wire, damaged>>
parseVars == <<pos, meta, seen, flaws, gotLast, file>>
endVars   == <<incomplete, temps, saved>>
vars      == <<phase, regVars, netVars, raw, mode, parseVars, heard, stop, endVars>>

Over     == {"ended", "failed"}
Phases   == Over \cup {"send", "await", "recv", "parse", "decide", "idle", "tail"}
Open     == [f \in {"raw", "file"} |-> "open"]
Gone     == [f \in {"raw", "file"} |-> "gone"]
Nothing  == <<>>

(* Datagram k of transfer t. *)
Datagrams(t) == {[of |-> t, first |-> k * UdpCells] :
                   k \in {j \in 0 .. Cells(t) : j * UdpCells < Cells(t)}}
Extent(d) == {o \in d.first .. (d.first + UdpCells - 1) : o < Cells(d.of)}

Init ==
  /\ phase = IF Registers THEN "send" ELSE "recv"
  /\ attempts = 0 /\ registered = FALSE /\ peer = FALSE /\ cfg = FALSE
  /\ acks \in {{}, {[mine |-> FALSE, ok |-> TRUE]}}   \* of an earlier receiver
  /\ begun = 0 /\ wire = {}
  /\ damaged \in [Transfers -> {b \in SUBSET Offsets : Cardinality(b) <= MaxDamage}]
  /\ Cardinality(UNION {{<<t, o>> : o \in damaged[t]} : t \in Transfers}) <= MaxDamage
  /\ raw = [o \in Offsets |-> 0] /\ file = [s \in Seqs |-> 0]
  /\ mode = "none" /\ pos = 0 /\ meta = 0 /\ seen = {} /\ flaws = {}
  /\ gotLast = FALSE /\ heard = FALSE /\ stop = FALSE /\ incomplete = FALSE
  /\ temps = Open /\ saved = Nothing

-----------------------------------------------------------------------------
(* The network, the board and the user *)

Begin ==
  /\ begun < NumTransfers /\ begun' = begun + 1
  /\ wire' = wire \cup Datagrams(begun + 1)
  /\ UNCHANGED <<phase, regVars, damaged, raw, mode, parseVars, heard, stop, endVars>>

(* Lost; also what arrives while the receiver registers, which drops it. *)
Lose(d) ==
  /\ d \in wire /\ wire' = wire \ {d}
  /\ UNCHANGED <<phase, regVars, begun, damaged, raw, mode, parseVars, heard, stop, endVars>>

(* The board answers an RXCFG; it takes the address when it says OK. *)
BoardAnswers(ok) ==
  /\ cfg /\ cfg' \in {FALSE, Duplicates}
  /\ peer' = (peer \/ ok)
  /\ acks' = acks \cup {[mine |-> TRUE, ok |-> ok]}
  /\ UNCHANGED <<phase, attempts, registered, netVars, raw, mode, parseVars, heard, stop,
                 endVars>>

RegistrationLost ==
  /\ \/ cfg /\ cfg' = FALSE /\ UNCHANGED acks
     \/ \E a \in acks : acks' = acks \ {a} /\ UNCHANGED cfg
  /\ UNCHANGED <<phase, attempts, registered, peer, netVars, raw, mode, parseVars, heard, stop,
                 endVars>>

(* stop(), from the thread of the user interface *)
RequestStop ==
  /\ phase \notin Over /\ ~stop /\ stop' = TRUE
  /\ UNCHANGED <<phase, regVars, netVars, raw, mode, parseVars, heard, endVars>>

-----------------------------------------------------------------------------
(* Leaving run() *)

Discarded == IF saved = Nothing THEN Gone ELSE temps

(* An exception: discard what was not saved, raise. *)
Fail ==
  /\ phase' = "failed" /\ temps' = Discarded
  /\ UNCHANGED <<saved, incomplete>>

-----------------------------------------------------------------------------
(* _register_with_board *)

RegisterSend ==
  /\ phase = "send" /\ attempts < MaxAttempts
  /\ phase' = "await" /\ attempts' = attempts + 1 /\ cfg' = TRUE
  /\ UNCHANGED <<registered, acks, peer, netVars, raw, mode, parseVars, heard, stop, endVars>>

RegisterGivesUp ==
  /\ phase = "send" /\ attempts = MaxAttempts
  /\ Fail
  /\ UNCHANGED <<regVars, netVars, raw, mode, parseVars, heard, stop>>

RegisterTimeout ==
  /\ phase = "await" /\ phase' = "send"
  /\ UNCHANGED <<regVars, netVars, raw, mode, parseVars, heard, stop, endVars>>

Concerns_AnySeq(a) == TRUE
Concerns(a) == a.mine

Received(a) == acks' \in {acks \ {a}} \cup (IF Duplicates THEN {acks} ELSE {})

(* With the answer that concerns it the receiver is done with the exchange:  *)
(* what is left of it on the wire is not followed further.                   *)
RegisterAck(a) ==
  /\ phase = "await" /\ a \in acks
  /\ \/ /\ ~Concerns(a) /\ Received(a)
        /\ UNCHANGED <<phase, registered, cfg, endVars>>
     \/ /\ Concerns(a) /\ a.ok
        /\ phase' = "recv" /\ registered' = TRUE
        /\ cfg' = FALSE /\ acks' = {} /\ UNCHANGED endVars
     \/ /\ Concerns(a) /\ ~a.ok /\ Received(a)
        /\ Fail /\ UNCHANGED <<registered, cfg>>
  /\ UNCHANGED <<attempts, peer, netVars, raw, mode, parseVars, heard, stop>>

-----------------------------------------------------------------------------
(* The sparse file and what stands in it *)

Written(o) == o \in Offsets /\ raw[o] # 0
Covered(n) == \A o \in 0 .. (n - 1) : Written(o)     \* n <= contiguous
RawGap     == \E o \in Offsets : Written(o) /\ ~Covered(o)

Magic(o) ==
  /\ Written(o) /\ o % 3 = 0
  /\ o \notin damaged[raw[o]] /\ Format[raw[o]] = mode

(* The header whose magic word is at o passes its checksum. *)
Header(o) == raw[o + 1] # 0 /\ o + 1 \notin damaged[raw[o + 1]] /\ Format[raw[o + 1]] = mode

Payload(o) == raw[o] # 0 /\ o \notin damaged[raw[o]]

-----------------------------------------------------------------------------
(* A datagram: _process_loopback *)

WithExtent(d) == [o \in Offsets |-> IF o \in Extent(d) THEN d.of ELSE raw[o]]

FirstWord(w) ==
  IF 0 \in damaged[w] \/ Format[w] = "raw" THEN "raw" ELSE Format[w]

(* _try_enable_air_mode: once, when the first word is there *)
Detected_TooEarly(r) ==
  IF mode # "none" THEN mode ELSE IF r[0] = 0 THEN "raw" ELSE FirstWord(r[0])
Detected(r) ==
  IF mode # "none" THEN mode ELSE IF r[0] = 0 THEN "none" ELSE FirstWord(r[0])

Taken(d) == d \in wire /\ wire' \in {wire \ {d}} \cup (IF Duplicates THEN {wire} ELSE {})

Arrive(d) ==
  /\ phase = "recv" /\ ~stop /\ Taken(d)
  /\ raw' = WithExtent(d)
  /\ mode' = Detected(raw')
  /\ phase' = IF mode' \in {"air0", "airv"} THEN "parse" ELSE "decide"
  /\ heard' = TRUE
  /\ UNCHANGED <<regVars, begun, damaged, parseVars, stop, endVars>>

(* Its length or checksum is wrong: counted and dropped. *)
ArriveBad(d) ==
  /\ phase = "recv" /\ ~stop /\ Taken(d)
  /\ phase' = "decide" /\ heard' = TRUE
  /\ UNCHANGED <<regVars, begun, damaged, raw, mode, parseVars, stop, endVars>>

(* The temporary file cannot be written when a datagram arrives. *)
WriteFails(d) ==
  /\ phase = "recv" /\ ~stop /\ Taken(d)
  /\ Fail
  /\ UNCHANGED <<regVars, begun, damaged, raw, mode, parseVars, heard, stop>>

(* bind, sendto or recvfrom raises, or the parser cannot read or write one   *)
(* of the temporary files.                                                   *)
CallFails ==
  /\ phase \in {"send", "await", "recv", "parse"}
  /\ Fail
  /\ UNCHANGED <<regVars, netVars, raw, mode, parseVars, heard, stop>>

-----------------------------------------------------------------------------
(* _parse_air_stream and _parse_airv_stream: one turn of the loop each *)

Parsed == phase' = "decide"
MoreToParse == phase' = "parse"

ParseEnds ==
  /\ phase = "parse" /\ ~Covered(pos + 2)
  /\ Parsed /\ UNCHANGED parseVars

Found(o) == o > pos /\ o < pos + ScanCells /\ Covered(o + 1) /\ Magic(o)
NextMagic_PastIt == {o + 1 : o \in {p \in Offsets : Found(p) /\ \A q \in Offsets : Found(q) => p <= q}}
NextMagic == {o \in Offsets : Found(o) /\ \A q \in Offsets : Found(q) => o <= q}

Resync ==
  /\ phase = "parse" /\ Covered(pos + 2) /\ ~Magic(pos)
  /\ \/ /\ pos' \in NextMagic /\ MoreToParse
     \/ /\ NextMagic = {} /\ Parsed
        /\ pos' \in pos .. (3 * MaxPackets) /\ Covered(pos') /\ ~Written(pos')
  /\ UNCHANGED <<meta, seen, flaws, gotLast, file>>

BadHeader ==
  /\ phase = "parse" /\ Covered(pos + 2) /\ Magic(pos) /\ ~Header(pos)
  /\ pos' = pos + 1 /\ MoreToParse
  /\ UNCHANGED <<meta, seen, flaws, gotLast, file>>

PayloadMissing ==
  /\ phase = "parse" /\ Covered(pos + 2) /\ Magic(pos) /\ Header(pos) /\ ~Covered(pos + 3)
  /\ Parsed /\ UNCHANGED parseVars

PacketAt == phase = "parse" /\ Covered(pos + 3) /\ Magic(pos) /\ Header(pos)
Of       == raw[pos + 1]
PacketSeq      == pos \div 3

MetaMatches_Any == TRUE
MetaMatches == meta \in {0, Of}

Consume == pos' = pos + 3 /\ MoreToParse

WrongMeta ==
  /\ PacketAt /\ ~MetaMatches
  /\ flaws' = flaws \cup {"meta"}
  /\ Consume /\ UNCHANGED <<meta, seen, gotLast, file>>

LastSeen == gotLast \/ PacketSeq = Packets[Of] - 1
FirstMeta == IF meta = 0 THEN Of ELSE meta
Intact == raw[pos + 2] = Of /\ Payload(pos + 2)

BadPayload ==
  /\ PacketAt /\ MetaMatches /\ mode = "air0" /\ ~Intact
  /\ meta' = FirstMeta /\ gotLast' = LastSeen
  /\ flaws' = flaws \cup {"payload"}
  /\ Consume /\ UNCHANGED <<seen, file>>

TakePacket ==
  /\ PacketAt /\ MetaMatches /\ mode = "air0" /\ Intact
  /\ meta' = FirstMeta /\ gotLast' = LastSeen
  /\ seen' = seen \cup {PacketSeq}
  /\ file' = IF PacketSeq \in seen THEN file ELSE [file EXCEPT ![PacketSeq] = Of]
  /\ Consume /\ UNCHANGED flaws

(* process_fragment takes a fragment whether its payload is intact or not. *)
TakeFragment ==
  /\ PacketAt /\ MetaMatches /\ mode = "airv"
  /\ meta' = FirstMeta
  /\ seen' = seen \cup {PacketSeq}
  /\ Consume /\ UNCHANGED <<gotLast, flaws, file>>

Parse ==
  /\ \/ ParseEnds \/ Resync \/ BadHeader \/ PayloadMissing
     \/ WrongMeta \/ BadPayload \/ TakePacket \/ TakeFragment
  /\ UNCHANGED <<regVars, netVars, raw, mode, heard, stop, endVars>>

-----------------------------------------------------------------------------
(* _save_if_ready *)

Forced_AtEnd == phase = "tail"
Forced == phase \in {"idle", "tail"}

FileSize   == IF meta = 0 THEN Expected ELSE Packets[meta]
FileCovers(n) == \A s \in 0 .. (n - 1) : s \in Seqs /\ file[s] # 0
FileGap    == \E s \in Seqs : file[s] # 0 /\ ~FileCovers(s)
Missing    == meta # 0 /\ Cardinality(seen) < Packets[meta]

AirChecks ==
  /\ FileSize > 0 /\ FileCovers(FileSize) /\ ~FileGap /\ ~Missing /\ gotLast /\ flaws = {}
FileCrcOk == meta # 0 /\ \A s \in 0 .. (FileSize - 1) : file[s] = meta

RawIncomplete_Unchecked == FALSE
RawIncomplete == RawGap

Ready ==
  \/ mode = "air0" /\ AirChecks /\ FileCrcOk
  \/ mode \in {"none", "raw"} /\ Expected > 0 /\ Covered(Expected)
  \/ mode \in {"none", "raw"} /\ Expected = 0 /\ Forced /\ Covered(1) /\ ~RawIncomplete

(* The forced call says why there is no file. *)
Explains ==
  /\ Forced
  /\ \/ mode = "air0" /\ FileSize > 0
     \/ mode = "airv"
     \/ mode \in {"none", "raw"} /\ (Expected > 0 \/ Covered(1))

Content ==
  IF mode = "air0" THEN [s \in 0 .. (FileSize - 1) |-> file[s]]
  ELSE [o \in {p \in Offsets : Covered(p + 1) /\ (Expected > 0 => p < Expected)} |-> raw[o]]

Kept_LeavesOther == [temps EXCEPT ![IF mode = "air0" THEN "file" ELSE "raw"] = "kept"]
Kept == [Gone EXCEPT ![IF mode = "air0" THEN "file" ELSE "raw"] = "kept"]

Deciding == phase \in {"decide", "idle", "tail"}

Save ==
  /\ Deciding /\ Ready
  /\ saved' = Content /\ temps' = Kept /\ phase' = "ended"
  /\ UNCHANGED incomplete

(* The file cannot be truncated or renamed. *)
FinalizeFails == Deciding /\ Ready /\ Fail

GiveUp ==
  /\ Deciding /\ ~Ready /\ Explains
  /\ incomplete' = TRUE /\ temps' = Discarded /\ phase' = "ended"
  /\ UNCHANGED saved

NotYet ==
  /\ phase \in {"decide", "idle"} /\ ~Ready /\ ~Explains
  /\ phase' = "recv"
  /\ UNCHANGED endVars

Leave ==
  /\ phase = "tail" /\ ~Ready /\ ~Explains
  /\ phase' = "ended" /\ temps' = Discarded
  /\ UNCHANGED <<saved, incomplete>>

Decide ==
  /\ Save \/ FinalizeFails \/ GiveUp \/ NotYet \/ Leave
  /\ UNCHANGED <<regVars, netVars, raw, mode, parseVars, heard, stop>>

(* No payload for idle_finish_s. *)
Idle ==
  /\ phase = "recv" /\ ~stop /\ heard
  /\ phase' = "idle"
  /\ UNCHANGED <<regVars, netVars, raw, mode, parseVars, heard, stop, endVars>>

LoopEnds ==
  /\ phase = "recv" /\ stop
  /\ phase' = "tail"
  /\ UNCHANGED <<regVars, netVars, raw, mode, parseVars, heard, stop, endVars>>

-----------------------------------------------------------------------------
Worker ==
  \/ RegisterSend \/ RegisterGivesUp \/ Parse \/ Decide \/ LoopEnds

Network ==
  \/ Begin \/ RegistrationLost
  \/ \E d \in wire : Lose(d)
  \/ \E ok \in BOOLEAN : BoardAnswers(ok)

Socket ==
  \/ \E a \in acks : RegisterAck(a)
  \/ \E d \in wire : Arrive(d) \/ ArriveBad(d) \/ WriteFails(d)

Next == Worker \/ Network \/ Socket \/ CallFails \/ RegisterTimeout \/ Idle \/ RequestStop

Spec == Init /\ [][Next]_vars

(* The thread runs, and a socket that stays silent times out; silence comes, *)
(* for a datagram is not repeated for ever.                                  *)
Fairness == WF_vars(Worker) /\ WF_vars(RegisterTimeout) /\ SF_vars(Idle)
FairSpec == Spec /\ Fairness

-----------------------------------------------------------------------------
ReceiverTypeOK ==
  /\ phase \in Phases /\ attempts \in 0 .. MaxAttempts
  /\ registered \in BOOLEAN /\ cfg \in BOOLEAN /\ peer \in BOOLEAN
  /\ acks \subseteq [mine : BOOLEAN, ok : BOOLEAN]
  /\ begun \in 0 .. NumTransfers
  /\ wire \subseteq UNION {Datagrams(t) : t \in 1 .. begun}
  /\ damaged \in [Transfers -> SUBSET Offsets]
  /\ raw \in [Offsets -> 0 .. NumTransfers] /\ file \in [Seqs -> 0 .. NumTransfers]
  /\ mode \in {"none", "raw", "air0", "airv"}
  /\ pos \in 0 .. 3 * MaxPackets /\ Covered(pos)
  /\ meta \in 0 .. NumTransfers /\ seen \subseteq Seqs
  /\ flaws \subseteq {"meta", "payload"}
  /\ gotLast \in BOOLEAN /\ heard \in BOOLEAN /\ stop \in BOOLEAN
  /\ incomplete \in BOOLEAN
  /\ temps \in [{"raw", "file"} -> {"open", "gone", "kept"}]

(* Saving an AIR0 file does not rest on the checksum of the whole file: when *)
(* coverage, packet count, LAST and the absence of flaws let it through, the *)
(* chunks are those of one transfer already, however the datagrams of        *)
(* several were lost, repeated and mixed (_save_if_ready, _validate_air_meta).*)
ChecksFindTheFile == mode = "air0" /\ AirChecks => FileCrcOk

(* A raw stream that is saved without a length has no hole, and nothing that *)
(* was received is cut off its end.                                          *)
RawSaveIsWhole ==
  saved # Nothing /\ mode \in {"none", "raw"} /\ Expected = 0 =>
    \A o \in Offsets : Written(o) => \A p \in 0 .. o : p \in DOMAIN saved /\ saved[p] # 0

(* Whatever ends run(), no temporary file stays behind, and just one becomes *)
(* the output when there is one (finalize, discard, _discard_unsaved).       *)
TempFilesGone ==
  phase \in Over =>
    /\ \A f \in DOMAIN temps : temps[f] # "open"
    /\ Cardinality({f \in DOMAIN temps : temps[f] = "kept"}) = IF saved = Nothing THEN 0 ELSE 1

(* Wherever a search starts in the first transfer, a magic word that is      *)
(* intact lies within its reach, or the transfer ends there.                 *)
SearchReaches ==
  \A o \in Offsets :
    o + ScanCells <= Cells(1) =>
      \E p \in (o + 1) .. (o + ScanCells - 1) : p % 3 = 0 /\ p \notin damaged[1]

(* A packet of the only transfer that the parser has passed and that arrived *)
(* undamaged was taken, wherever the damage around it was: the search for    *)
(* the next magic word skips none (_parse_air_stream).  It would where a     *)
(* search finds nothing in its 4096 bytes, for it then goes to the end of    *)
(* what is there, however far that is.                                       *)
PassedMeansTaken ==
  begun = 1 /\ mode \in {"air0", "airv"} /\ SearchReaches =>
    \A s \in 0 .. (Packets[1] - 1) :
      3 * s + 3 <= pos /\ {3 * s, 3 * s + 1, 3 * s + 2} \cap damaged[1] = {} => s \in seen

(* The receiver believes itself registered only if the board returns to it:  *)
(* an answer to an RXCFG of an earlier receiver is none to this one.         *)
RegisteredIsPeer == registered => peer

WholeInRaw(t) == \A o \in 0 .. (Cells(t) - 1) : raw[o] = t
FileOf(t)     == [s \in 0 .. (Packets[t] - 1) |-> t]

(* The first transfer, arrived whole and undamaged before the data of        *)
(* another, is saved (README: without distortion and gap the file appears in *)
(* the output directory), unless the disk fails.                             *)
WholeIsSaved ==
  (begun = 1 /\ Format[1] = "air0" /\ damaged[1] = {} /\ WholeInRaw(1))
    ~> (saved = FileOf(1) \/ phase = "failed")

(* Once a header has said what is to come, silence ends the receiver,        *)
(* however much is missing; and stop() ends it always.  (Silence alone does  *)
(* not while the first cell is missing: _save_if_ready has no reason then.)  *)
RunEnds == (meta # 0 \/ stop) ~> phase \in Over

(* README, AIRV: a fragment whose header is valid and that has arrived is    *)
(* assembled.  (It is not when an earlier datagram was lost.)                *)
ArrivedIsTaken ==
  phase = "recv" /\ mode \in {"air0", "airv"} /\ meta # 0 =>
    \A s \in 0 .. (Packets[meta] - 1) :
      (\A o \in {3 * s, 3 * s + 1, 3 * s + 2} : raw[o] = meta /\ o \notin damaged[meta])
        => s \in seen
=============================================================================
