---------------------------- MODULE VideoPathProof ----------------------------
(***************************************************************************)
(* Proofs about VideoPath for any stream, any window and queues of any     *)
(* length, whatever the radio loses and however the threads interleave:    *)
(* the assembler shows just the whole frames and counts the others, what   *)
(* it hands over is what the preview supposes, and the preview's queue     *)
(* holds chains of frames.                                                 *)
(***************************************************************************)
EXTENDS VideoPath, FiniteSetTheorems, SequenceTheorems, TLAPS

(* The parser's place: a fragment of the stream, or its end. *)
AtPlace ==
  /\ at \in (1 .. NumFrames + 1) \X (Nat \ {0})
  /\ at[1] \in Frames => at[2] \in Rx!Frags(at[1])

(* The fragment c lies before it. *)
Past(c) == c[1] < at[1] \/ (c[1] = at[1] /\ c[2] < at[2])

ArrivedOf(f) == {i \in Rx!Frags(f) : <<f, i>> \in arrived}

(* What the assembler holds of a frame is what arrived of it, until the     *)
(* frame is given up or complete; only frames behind the parser are.        *)
Assembly ==
  /\ arrived \subseteq Rx!Stream /\ \A c \in arrived : Past(c)
  /\ got \in [Frames -> SUBSET Nat]
  /\ open \subseteq Rx!Begun
  /\ \A f \in open : got[f] = ArrivedOf(f)
  /\ \A f \in Frames \ open : got[f] = {}
  /\ \A f \in Rx!Begun : f >= at[1] /\ ~flushed => f \in open

(* No open frame is older than the window allows. *)
InWindow ==
  /\ latest \in Nat /\ latest <= at[1]
  /\ \A f \in Rx!Begun : f <= latest
  /\ \A f \in open : f >= latest - MaxIncomplete

Counters ==
  /\ frameDrop \in Nat /\ missing \in Nat
  /\ Rx!FramesAccounted /\ Rx!MissingExact

ShownSoFar ==
  /\ shown \in Seq(Frames) /\ \A f \in Rx!Shown : f < at[1] /\ f \notin open
  /\ Rx!ShownIffWhole

AssemblyInv == AtPlace /\ Assembly /\ InWindow /\ Counters /\ ShownSoFar

-----------------------------------------------------------------------------
(* The stream is finite, and so is every set the counters count. *)
LEMMA StreamFinite ==
  ASSUME PreviewAssumption, VideoPathAssumption
  PROVE  IsFiniteSet(Frames) /\ IsFiniteSet(Rx!Stream)
<1>1. IsFiniteSet(Frames)
  BY FS_Interval DEF Frames, PreviewAssumption
<1> DEFINE Of(f)  == {f} \X Rx!Frags(f)
           family == {Of(f) : f \in Frames}
           pick   == [f \in Frames |-> Of(f)]
<1>2. IsFiniteSet(family)
  <2>1. pick \in Surjection(Frames, family)
    <3>1. pick \in [Frames -> family] /\ \A s \in family : \E f \in Frames : pick[f] = s
      OBVIOUS
    <3> HIDE DEF pick, family
    <3> QED
      BY <3>1 DEF Surjection
  <2> HIDE DEF pick, family
  <2> QED
    BY <1>1, <2>1, FS_Surjection
<1>3. \A s \in family : IsFiniteSet(s)
  <2> SUFFICES ASSUME NEW f \in Frames PROVE IsFiniteSet(Of(f))
    OBVIOUS
  <2>1. IsFiniteSet(Rx!Frags(f))
    <3>1. FragCount[f] \in Int
      BY DEF VideoPathAssumption
    <3> QED
      BY <3>1, FS_Interval DEF Rx!Frags
  <2>2. IsFiniteSet({f})
    BY FS_Singleton
  <2> QED
    BY <2>1, <2>2, FS_Product
<1>4. IsFiniteSet(UNION family)
  <2> HIDE DEF family
  <2> QED
    BY <1>2, <1>3, FS_UNION
<1>5. Rx!Stream = UNION family
  BY DEF Rx!Stream, Rx!Frames, Frames
<1> QED
  BY <1>1, <1>4, <1>5

(* A fragment of the stream, as frame and number. *)
LEMMA Fragment ==
  ASSUME VideoPathAssumption, PreviewAssumption
  PROVE  /\ \A c \in Rx!Stream : c = <<c[1], c[2]>> /\ c[1] \in Frames /\ c[2] \in Rx!Frags(c[1])
         /\ \A f \in Frames : \A i \in Rx!Frags(f) : <<f, i>> \in Rx!Stream
         /\ \A f \in Frames : f \in Nat /\ FragCount[f] \in Nat \ {0} /\ Rx!Frags(f) \subseteq Nat
  BY DEF Rx!Stream, Rx!Frags, Rx!Frames, Frames, VideoPathAssumption, PreviewAssumption

(* The parser goes on to the next fragment: what was behind it stays there, *)
(* with the fragment it leaves.                                             *)
LEMMA AfterPlace ==
  ASSUME VideoPathAssumption, PreviewAssumption, AtPlace, at[1] \in Frames, at' = Rx!After
  PROVE  /\ AtPlace' /\ at[1] \in Nat /\ at'[1] \in Nat /\ at[1] <= at'[1]
         /\ at[2] = FragCount[at[1]] => at'[1] = at[1] + 1
         /\ at = <<at[1], at[2]>> /\ at[2] \in Rx!Frags(at[1])
         /\ \A c \in Rx!Stream : Past(c) \/ c = at => Past(c)'
         /\ ~Past(at)
<1> DEFINE f == at[1] i == at[2]
<1>1. /\ f \in Nat /\ i \in Nat /\ 1 <= i /\ i <= FragCount[f] /\ FragCount[f] \in Nat /\ at = <<f, i>>
      /\ f <= NumFrames /\ 1 <= f /\ NumFrames \in Nat
  BY DEF AtPlace, Frames, Rx!Frags, VideoPathAssumption, PreviewAssumption
<1>2. at' = IF i < FragCount[f] THEN <<f, i + 1>> ELSE <<f + 1, 1>>
  BY DEF Rx!After
<1> HIDE DEF f, i
<1>3. CASE i < FragCount[f]
  <2>1. at' = <<f, i + 1>>
    BY <1>2, <1>3
  <2>2. AtPlace'
    BY <1>1, <1>3, <2>1 DEF AtPlace, Frames, Rx!Frags
  <2>3. \A c \in Rx!Stream : Past(c) \/ c = at => Past(c)'
    BY <1>1, <2>1, Fragment DEF Past, f, i, Rx!Frags, Frames
  <2> QED
    BY <1>1, <1>3, <2>1, <2>2, <2>3 DEF f, i, AtPlace, Past
<1>4. CASE ~(i < FragCount[f])
  <2>1. at' = <<f + 1, 1>>
    BY <1>2, <1>4
  <2>2. AtPlace'
    <3>1. f + 1 \in Frames => 1 \in Rx!Frags(f + 1)
      BY Fragment DEF Rx!Frags
    <3> QED
      BY <1>1, <2>1, <3>1 DEF AtPlace
  <2>3. \A c \in Rx!Stream : Past(c) \/ c = at => Past(c)'
    BY <1>1, <2>1, Fragment DEF Past, f, i, Rx!Frags, Frames
  <2> QED
    BY <1>1, <1>4, <2>1, <2>2, <2>3 DEF f, i, AtPlace, Past
<1> QED
  BY <1>3, <1>4

-----------------------------------------------------------------------------
(* VideoRx counts as FiniteSets does. *)
LEMMA RxCounts == \A S : Rx!Cardinality(S) = Cardinality(S)
  BY Zenon DEF Rx!Cardinality, Cardinality

(* The fragments that are missing of a set of frames. *)
Lost(fs) == {c \in Rx!Stream : c[1] \in fs /\ c \notin arrived}

LEMMA LackingIsLost ==
  ASSUME PreviewAssumption, VideoPathAssumption, Assembly, NEW fs, fs \subseteq open
  PROVE  Rx!Lacking(fs) = Cardinality(Lost(fs)) /\ IsFiniteSet(Lost(fs))
<1>1. open \subseteq Frames
  BY DEF Assembly, Rx!Begun, Rx!Frames, Frames
<1> DEFINE U == UNION {{f} \X (Rx!Frags(f) \ got[f]) : f \in fs}
<1>2. U = Lost(fs)
  <2>1. ASSUME NEW c \in Lost(fs)
        PROVE  c \in {c[1]} \X (Rx!Frags(c[1]) \ got[c[1]]) /\ c[1] \in fs
    <3>1. c = <<c[1], c[2]>> /\ c[2] \in Rx!Frags(c[1]) /\ c[1] \in fs /\ c \notin arrived
      BY Fragment DEF Lost
    <3>2. got[c[1]] = ArrivedOf(c[1])
      BY <3>1 DEF Assembly
    <3> QED
      BY <3>1, <3>2 DEF ArrivedOf
  <2>2. ASSUME NEW f \in fs, NEW i \in Rx!Frags(f) \ got[f]
        PROVE  <<f, i>> \in Lost(fs)
    <3>1. <<f, i>> \in Rx!Stream
      BY <1>1, Fragment
    <3>2. got[f] = ArrivedOf(f)
      BY DEF Assembly
    <3> QED
      BY <3>1, <3>2 DEF Lost, ArrivedOf
  <2>3. \A c : c \in U =>
                 \E f \in fs : \E i \in Rx!Frags(f) \ got[f] : c = <<f, i>>
    OBVIOUS
  <2>4. Lost(fs) \subseteq U
    BY <2>1
  <2>5. U \subseteq Lost(fs)
    BY <2>2, <2>3
  <2> QED
    BY <2>4, <2>5
<1>3. IsFiniteSet(Lost(fs))
  BY StreamFinite, FS_Subset DEF Lost
<1>4. Rx!Lacking(fs) = Cardinality(U)
  BY Zenon, RxCounts DEF Rx!Lacking
<1> HIDE DEF U
<1> QED
  BY <1>2, <1>3, <1>4

(* Frames given up add what is missing of them, once. *)
LEMMA LostAdds ==
  ASSUME PreviewAssumption, VideoPathAssumption, NEW A, NEW B, A \cap B = {}
  PROVE  /\ Lost(A \cup B) = Lost(A) \cup Lost(B)
         /\ Cardinality(Lost(A \cup B)) = Cardinality(Lost(A)) + Cardinality(Lost(B))
         /\ Cardinality(Lost(A)) \in Nat /\ Cardinality(Lost(B)) \in Nat
<1>1. Lost(A \cup B) = Lost(A) \cup Lost(B) /\ Lost(A) \cap Lost(B) = {}
  BY DEF Lost
<1>2. IsFiniteSet(Lost(A)) /\ IsFiniteSet(Lost(B))
  BY StreamFinite, FS_Subset DEF Lost
<1>3. Cardinality(Lost(A)) \in Nat /\ Cardinality(Lost(B)) \in Nat
  BY <1>2, FS_CardinalityType
<1>4. Cardinality(Lost(A) \cap Lost(B)) = 0
  BY <1>1, FS_EmptySet
<1>5. Cardinality(Lost(A) \cup Lost(B))
        = Cardinality(Lost(A)) + Cardinality(Lost(B)) - Cardinality(Lost(A) \cap Lost(B))
  BY <1>2, FS_Union
<1>6. Cardinality(Lost(A) \cup Lost(B)) = Cardinality(Lost(A)) + Cardinality(Lost(B))
  BY <1>3, <1>4, <1>5
<1> QED
  BY <1>1, <1>3, <1>6

-----------------------------------------------------------------------------
(* A new assembler: nothing arrived, nothing is held. *)
LEMMA NewAssembler ==
  ASSUME PreviewAssumption, VideoPathAssumption
  PROVE  /\ Rx!VideoInit => AssemblyInv
         /\ Rx!VideoRenew => AssemblyInv'
<1>1. 1 \in Frames => 1 \in Rx!Frags(1)
  BY Fragment DEF Rx!Frags
<1>2. <<1, 1>> \in (1 .. NumFrames + 1) \X (Nat \ {0})
  BY DEF PreviewAssumption
<1>3. \A f \in Frames : ~({f} \X Rx!Frags(f) \subseteq {})
  <2> SUFFICES ASSUME NEW f \in Frames PROVE ~({f} \X Rx!Frags(f) \subseteq {})
    OBVIOUS
  <2>1. 1 \in Rx!Frags(f)
    BY Fragment DEF Rx!Frags
  <2>2. <<f, 1>> \in {f} \X Rx!Frags(f)
    BY <2>1
  <2> HIDE <2>1
  <2> QED
    BY <2>2
<1>4. Cardinality({}) = 0
  BY FS_EmptySet
<1>5. ASSUME Rx!VideoInit
      PROVE  AssemblyInv
  <2> USE <1>5 DEF Rx!VideoInit, Rx!Frames
  <2>1. Rx!Begun = {} /\ Rx!Shown = {}
    BY DEF Rx!Begun, Rx!Shown
  <2>2. AtPlace /\ Assembly /\ InWindow
    BY <1>1, <1>2, <2>1 DEF AtPlace, Assembly, InWindow, Frames
  <2>3. Rx!FramesAccounted
    BY <1>4, <2>1, RxCounts DEF Rx!FramesAccounted
  <2>4. Rx!MissingExact
    <3>1. {c \in Rx!Stream : c[1] \in Rx!Begun \ open /\ c \notin arrived} = {}
      BY <2>1
    <3> QED
      BY <1>4, <3>1, RxCounts DEF Rx!MissingExact
  <2>5. Rx!ShownIffWhole
    BY <1>3, <1>4, <2>1, RxCounts DEF Rx!ShownIffWhole, Frames
  <2>6. shown \in Seq(Frames)
    OBVIOUS
  <2> QED
    BY <2>1, <2>2, <2>3, <2>4, <2>5, <2>6 DEF AssemblyInv, Counters, ShownSoFar
<1>6. ASSUME Rx!VideoRenew
      PROVE  AssemblyInv'
  <2> USE <1>6 DEF Rx!VideoRenew, Rx!Frames
  <2>1. (Rx!Begun)' = {} /\ (Rx!Shown)' = {}
    BY DEF Rx!Begun, Rx!Shown
  <2>2. AtPlace' /\ Assembly' /\ InWindow'
    BY <1>1, <1>2, <2>1 DEF AtPlace, Assembly, InWindow, Frames, Rx!Frags
  <2>3. (Rx!FramesAccounted)'
    BY <1>4, <2>1, RxCounts DEF Rx!FramesAccounted
  <2>4. (Rx!MissingExact)'
    <3>1. {c \in Rx!Stream : c[1] \in (Rx!Begun)' \ open' /\ c \notin arrived'} = {}
      BY <2>1
    <3> QED
      BY <1>4, <3>1, RxCounts DEF Rx!MissingExact, Rx!Stream, Rx!Frags
  <2>5. (Rx!ShownIffWhole)'
    BY <1>3, <1>4, <2>1, RxCounts DEF Rx!ShownIffWhole, Frames, Rx!Frags
  <2>6. shown' \in Seq(Frames)
    OBVIOUS
  <2> QED
    BY <2>1, <2>2, <2>3, <2>4, <2>5, <2>6 DEF AssemblyInv, Counters, ShownSoFar
<1> QED
  BY <1>5, <1>6

(* A lost fragment moves the parser on and changes nothing else. *)
LEMMA LoseKeeps ==
  ASSUME PreviewAssumption, VideoPathAssumption, AssemblyInv, Rx!LoseFragment
  PROVE  AssemblyInv'
<1> USE DEF AssemblyInv
<1>1. at[1] \in Frames /\ at' = Rx!After /\ ~flushed
  BY DEF Rx!LoseFragment, Rx!AtFrame, Rx!Frames, Frames
<1>2. AtPlace' /\ at[1] \in Nat /\ at'[1] \in Nat /\ at[1] <= at'[1]
      /\ \A c \in Rx!Stream : Past(c) => Past(c)'
  BY <1>1, AfterPlace
<1>3. UNCHANGED <<arrived, got, open, latest, shown, frameDrop, missing, flushed>>
  BY DEF Rx!LoseFragment
<1>4. (Rx!Begun)' = Rx!Begun /\ (Rx!Shown)' = Rx!Shown
  BY <1>3 DEF Rx!Begun, Rx!Shown, Rx!Frags
<1>5. Rx!Begun \subseteq Nat
  BY Fragment DEF Rx!Begun, Rx!Frames, Frames
<1>6. Assembly'
  <2>1. \A f \in Rx!Begun : f >= at'[1] /\ ~flushed => f \in open
    BY <1>2, <1>5 DEF Assembly
  <2>2. \A f \in Frames : ArrivedOf(f)' = ArrivedOf(f)
    BY <1>3 DEF ArrivedOf, Rx!Frags
  <2> QED
    BY <1>2, <1>3, <1>4, <2>1, <2>2 DEF Assembly, Rx!Stream, Rx!Frags, Rx!Begun, Rx!Frames, Frames
<1>7. InWindow'
  BY <1>2, <1>3, <1>4 DEF InWindow
<1>8. Counters'
  BY <1>3, <1>4 DEF Counters, Rx!FramesAccounted, Rx!MissingExact, Rx!Stream, Rx!Frags
<1>9. ShownSoFar'
  <2>1. \A f \in Rx!Shown : f \in Nat
    BY Fragment DEF ShownSoFar, Rx!Shown
  <2> QED
    BY <1>2, <1>3, <1>4, <2>1 DEF ShownSoFar, Rx!ShownIffWhole, Rx!Frags
<1> QED
  BY <1>2, <1>6, <1>7, <1>8, <1>9

(* A fragment arrives: what that makes of its frame, which is open just     *)
(* when something of it arrived before, and complete just when all did;     *)
(* then the parser leaves it behind.                                        *)
LEMMA TakeArrives ==
  ASSUME PreviewAssumption, VideoPathAssumption, AssemblyInv, NEW ok, Rx!TakeFragment(ok)
  PROVE  /\ at[1] \in Frames /\ at[1] \in Nat /\ ~flushed /\ at' = Rx!After
         /\ at \in Rx!Stream /\ at \notin arrived /\ arrived' = arrived \cup {at}
         /\ (Rx!Begun)' = Rx!Begun \cup {at[1]}
         /\ at[1] \in open <=> at[1] \in Rx!Begun
         /\ \A f \in Frames : f = at[1] => got[f] \cup {at[2]} = ArrivedOf(f)'
         /\ \A f \in Frames : f # at[1] =>
              /\ ArrivedOf(f)' = ArrivedOf(f)
              /\ {f} \X Rx!Frags(f) \subseteq arrived' <=> {f} \X Rx!Frags(f) \subseteq arrived
         /\ Rx!Complete <=> {at[1]} \X Rx!Frags(at[1]) \subseteq arrived'
         /\ Rx!Complete => at'[1] = at[1] + 1
         /\ Rx!Stale \subseteq open /\ at[1] \notin Rx!Stale
<1> USE DEF AssemblyInv
<1> DEFINE F == at[1]
           I == at[2]
<1>1. F \in Frames /\ at' = Rx!After /\ ~flushed /\ arrived' = arrived \cup {at}
  BY DEF Rx!TakeFragment, Rx!AtFrame, Rx!Frames, Frames
<1>2. /\ at = <<F, I>> /\ I \in Rx!Frags(F) /\ F \in Nat /\ ~Past(at)
      /\ I = FragCount[F] => at'[1] = F + 1
      /\ \A c \in Rx!Stream : Past(c) \/ c = at => Past(c)'
  BY <1>1, AfterPlace
<1>3. at \in Rx!Stream
  BY <1>1, <1>2, Fragment
<1>4. at \notin arrived
  BY <1>2 DEF Assembly
<1>5. (Rx!Begun)' = Rx!Begun \cup {F}
  <2>1. \A f \in Frames : \A i \in Rx!Frags(f) :
          <<f, i>> \in arrived' <=> <<f, i>> \in arrived \/ (f = F /\ i = I)
    BY <1>1, <1>2
  <2> HIDE DEF F, I
  <2> QED
    BY <1>1, <1>2, <2>1 DEF Rx!Begun, Rx!Frags, Rx!Frames, Frames
<1>6. F \in open <=> F \in Rx!Begun
  BY <1>1, <1>2 DEF Assembly
<1>7. got[F] = ArrivedOf(F)
  <2>1. CASE F \in open
    BY <2>1 DEF Assembly
  <2>2. CASE F \notin open
    <3>1. F \notin Rx!Begun
      BY <1>6, <2>2
    <3>2. ArrivedOf(F) = {}
      BY <1>1, <3>1 DEF ArrivedOf, Rx!Begun, Rx!Frames, Frames
    <3> QED
      BY <1>1, <2>2, <3>2 DEF Assembly
  <2> QED
    BY <2>1, <2>2
<1>8. ASSUME NEW f \in Frames, f = F
      PROVE  ArrivedOf(f)' = ArrivedOf(f) \cup {I}
  <2>1. \A i : <<f, i>> \in arrived' <=> <<f, i>> \in arrived \/ i = I
    BY <1>1, <1>2, <1>8
  <2>2. I \in Rx!Frags(f)
    BY <1>2, <1>8
  <2> QED
    BY <2>1, <2>2 DEF ArrivedOf, Rx!Frags
<1>9. ASSUME NEW f \in Frames, f # F
      PROVE  /\ ArrivedOf(f)' = ArrivedOf(f)
             /\ {f} \X Rx!Frags(f) \subseteq arrived' <=> {f} \X Rx!Frags(f) \subseteq arrived
  <2>1. \A i : <<f, i>> \in arrived' <=> <<f, i>> \in arrived
    BY <1>1, <1>2, <1>9
  <2> QED
    BY <2>1 DEF ArrivedOf, Rx!Frags
<1>10. Rx!Complete <=> {F} \X Rx!Frags(F) \subseteq arrived'
  <2>1. Rx!Complete <=> ArrivedOf(F) \cup {I} = Rx!Frags(F)
    BY <1>7 DEF Rx!Complete, Rx!AtFrame
  <2>2. \A i \in Rx!Frags(F) : i \in ArrivedOf(F) \cup {I} <=> <<F, i>> \in arrived'
    BY <1>1, <1>2 DEF ArrivedOf
  <2>3. ArrivedOf(F) \cup {I} \subseteq Rx!Frags(F)
    BY <1>2 DEF ArrivedOf
  <2>4. {F} \X Rx!Frags(F) \subseteq arrived' <=> \A i \in Rx!Frags(F) : <<F, i>> \in arrived'
    OBVIOUS
  <2> DEFINE A == ArrivedOf(F) \cup {I}
             B == Rx!Frags(F)
  <2> HIDE DEF F, I, A, B
  <2>5. A = B <=> \A i \in B : i \in A
    BY <2>3 DEF A, B
  <2> QED
    BY <2>1, <2>2, <2>4, <2>5 DEF A, B
<1>11. Rx!Complete => I = FragCount[F]
  <2> SUFFICES ASSUME Rx!Complete PROVE I = FragCount[F]
    OBVIOUS
  <2> DEFINE c == <<F, FragCount[F]>>
  <2>1. FragCount[F] \in Rx!Frags(F) /\ FragCount[F] \in Nat
    BY <1>1, Fragment DEF Rx!Frags
  <2>2. c \in arrived'
    BY <1>10, <2>1
  <2>3. c \in arrived => Past(c)
    BY DEF Assembly
  <2>4. CASE c = at
    BY <1>2, <2>4
  <2>5. CASE c # at
    <3>1. F < F \/ FragCount[F] < I
      BY <1>1, <2>2, <2>3, <2>5 DEF Past
    <3>2. I <= FragCount[F] /\ I \in Nat
      BY <1>1, <1>2, <2>1 DEF Rx!Frags
    <3> HIDE DEF F, I, c
    <3> QED
      BY <1>2, <2>1, <3>1, <3>2
  <2> QED
    BY <2>4, <2>5
<1>12. Rx!Stale \subseteq open /\ F \notin Rx!Stale
  <2>1. F \notin Rx!Stale
    BY <1>2 DEF Rx!Stale, Rx!AtFrame, VideoPathAssumption
  <2> QED
    BY <2>1 DEF Rx!Stale
<1> QED
  BY <1>1, <1>2, <1>3, <1>4, <1>5, <1>6, <1>7, <1>8, <1>9, <1>10, <1>11, <1>12

(* What a fragment that arrives leaves of the assembly and of its window. *)
LEMMA TakeAssembles ==
  ASSUME PreviewAssumption, VideoPathAssumption, AssemblyInv, NEW ok, Rx!TakeFragment(ok)
  PROVE  AtPlace' /\ Assembly' /\ InWindow'
<1> DEFINE F == at[1]
           I == at[2]
<1>1. /\ F \in Frames /\ F \in Nat /\ ~flushed /\ flushed' = flushed
      /\ arrived' = arrived \cup {at} /\ at \in Rx!Stream
      /\ (Rx!Begun)' = Rx!Begun \cup {F}
      /\ F \in open <=> F \in Rx!Begun
      /\ Rx!Stale \subseteq open /\ F \notin Rx!Stale
      /\ Rx!Complete => at'[1] = F + 1
  BY TakeArrives DEF Rx!TakeFragment
<1>2. /\ \A f \in Frames : f = F => got[f] \cup {I} = ArrivedOf(f)'
      /\ \A f \in Frames : f # F => ArrivedOf(f)' = ArrivedOf(f)
  BY TakeArrives
<1>3. AtPlace' /\ at'[1] \in Nat /\ F <= at'[1] /\ \A c \in Rx!Stream : Past(c) \/ c = at => Past(c)'
      /\ I \in Rx!Frags(F)
  BY TakeArrives, AfterPlace DEF AssemblyInv
<1>4. /\ open' = IF Rx!Complete THEN open \ (Rx!Stale \cup {F}) ELSE (open \ Rx!Stale) \cup {F}
      /\ got' = [f \in Frames |->
                   IF f \in Rx!Stale \/ (f = F /\ Rx!Complete) THEN {}
                   ELSE IF f = F THEN got[f] \cup {I} ELSE got[f]]
      /\ latest' = IF F > latest THEN F ELSE latest
  BY DEF Rx!TakeFragment, Rx!AtFrame, Rx!Held, Rx!Frames, Frames
<1>5. open \subseteq Rx!Begun /\ Rx!Begun \subseteq Frames /\ got \in [Frames -> SUBSET Nat]
  BY DEF AssemblyInv, Assembly, Rx!Begun, Rx!Frames, Frames
<1>6. I \in Nat
  BY <1>1, <1>3, Fragment
<1>7. open' \subseteq (Rx!Begun)' /\ open' \subseteq Frames
  BY <1>1, <1>4, <1>5
<1>8. Assembly'
  <2>1. arrived' \subseteq Rx!Stream /\ \A c \in arrived' : Past(c)'
    <3>1. arrived \subseteq Rx!Stream /\ \A c \in arrived : Past(c)
      BY DEF AssemblyInv, Assembly
    <3> QED
      BY <1>1, <1>3, <3>1
  <2>2. got' \in [Frames -> SUBSET Nat]
    BY <1>4, <1>5, <1>6
  <2>3. \A f \in open' : got'[f] = ArrivedOf(f)'
    <3> SUFFICES ASSUME NEW f \in open' PROVE got'[f] = ArrivedOf(f)'
      OBVIOUS
    <3>1. f \in Frames /\ f \notin Rx!Stale /\ (f = F => ~Rx!Complete)
      BY <1>1, <1>4, <1>7
    <3>2. CASE f = F
      BY <1>2, <1>4, <3>1, <3>2
    <3>3. CASE f # F
      <4>1. f \in open /\ got'[f] = got[f]
        BY <1>4, <3>1, <3>3
      <4> QED
        BY <1>2, <3>1, <3>3, <4>1 DEF AssemblyInv, Assembly
    <3> QED
      BY <3>2, <3>3
  <2>4. \A f \in Frames \ open' : got'[f] = {}
    <3> SUFFICES ASSUME NEW f \in Frames, f \notin open' PROVE got'[f] = {}
      OBVIOUS
    <3>1. f \in Rx!Stale \/ (f = F /\ Rx!Complete) \/ (f # F /\ f \notin open)
      BY <1>4
    <3>2. f \notin open => got[f] = {}
      BY DEF AssemblyInv, Assembly
    <3> QED
      BY <1>4, <3>1, <3>2
  <2>5. \A f \in (Rx!Begun)' : f >= at'[1] /\ ~flushed' => f \in open'
    <3> SUFFICES ASSUME NEW f \in (Rx!Begun)', f >= at'[1] PROVE f \in open'
      OBVIOUS
    <3>1. f \in Frames /\ f \in Nat
      BY <1>1, <1>5, Fragment
    <3>2. f >= F
      BY <1>1, <1>3, <3>1
    <3>3. \A g \in Rx!Begun : g <= F
      <4> SUFFICES ASSUME NEW g \in Frames, NEW i, <<g, i>> \in arrived PROVE g <= F
        BY DEF Rx!Begun, Rx!Frames, Frames
      <4>1. g < F \/ g = F
        BY DEF AssemblyInv, Assembly, Past
      <4> QED
        BY <1>1, <4>1, Fragment
    <3>4. f = F
      BY <1>1, <3>1, <3>2, <3>3
    <3>5. ~Rx!Complete
      BY <1>1, <1>3, <3>4
    <3> QED
      BY <1>4, <3>4, <3>5
  <2> QED
    BY <1>7, <2>1, <2>2, <2>3, <2>4, <2>5 DEF Assembly, Rx!Stream, Rx!Frags, Rx!Begun, Rx!Frames, Frames
<1>9. InWindow'
  <2>1. /\ latest \in Nat /\ latest <= F /\ \A f \in Rx!Begun : f <= latest
        /\ \A f \in open : f >= latest - MaxIncomplete
        /\ MaxIncomplete \in Nat /\ Rx!Begun \subseteq Nat
    <3>1. Rx!Begun \subseteq Nat
      BY <1>5, Fragment
    <3> QED
      BY <3>1 DEF AssemblyInv, InWindow, VideoPathAssumption
  <2>2. latest' = F
    BY <1>1, <1>4, <2>1
  <2>3. \A f \in (Rx!Begun)' : f <= F
    BY <1>1, <2>1
  <2>4. \A f \in open' : f >= F - MaxIncomplete
    <3> SUFFICES ASSUME NEW f \in open', f # F PROVE f >= F - MaxIncomplete
      BY <1>1, <2>1
    <3>1. f \in open /\ f \notin Rx!Stale /\ f \in Nat
      BY <1>4, <1>5, <2>1
    <3>2. F > latest => ~(f < F - MaxIncomplete)
      BY <3>1 DEF Rx!Stale, Rx!AtFrame
    <3> HIDE DEF F
    <3> QED
      BY <1>1, <2>1, <3>1, <3>2
  <2> HIDE DEF F
  <2> QED
    BY <1>1, <1>3, <2>2, <2>3, <2>4 DEF InWindow
<1> QED
  BY <1>3, <1>8, <1>9

(* What is open, begun or stale is finite, and a part goes out of a whole. *)
LEMMA FrameSets ==
  ASSUME PreviewAssumption, VideoPathAssumption, Assembly
  PROVE  /\ IsFiniteSet(open) /\ IsFiniteSet(Rx!Begun)
         /\ Cardinality(open) \in Nat /\ Cardinality(Rx!Begun) \in Nat
         /\ open \subseteq Frames /\ Rx!Begun \subseteq Frames
<1>1. open \subseteq Frames /\ Rx!Begun \subseteq Frames
  BY DEF Assembly, Rx!Begun, Rx!Frames, Frames
<1>2. IsFiniteSet(open) /\ IsFiniteSet(Rx!Begun)
  BY <1>1, StreamFinite, FS_Subset
<1> QED
  BY <1>1, <1>2, FS_CardinalityType

LEMMA PartGoes ==
  ASSUME NEW S, NEW T \in SUBSET S, IsFiniteSet(S)
  PROVE  /\ IsFiniteSet(S \ T) /\ IsFiniteSet(T)
         /\ Cardinality(S \ T) \in Nat /\ Cardinality(T) \in Nat
         /\ Cardinality(S \ T) + Cardinality(T) = Cardinality(S)
<1>1. IsFiniteSet(S \ T) /\ IsFiniteSet(T)
  BY FS_Subset
<1>2. Cardinality(S \ T) \in Nat /\ Cardinality(T) \in Nat
  BY <1>1, FS_CardinalityType
<1>3. (S \ T) \cup T = S /\ (S \ T) \cap T = {}
  OBVIOUS
<1>4. Cardinality((S \ T) \cup T)
        = Cardinality(S \ T) + Cardinality(T) - Cardinality((S \ T) \cap T)
  BY <1>1, FS_Union
<1>5. Cardinality((S \ T) \cap T) = 0
  BY <1>3, FS_EmptySet
<1>6. Cardinality(S) = Cardinality(S \ T) + Cardinality(T) - 0
  BY <1>3, <1>4, <1>5
<1> QED
  BY <1>1, <1>2, <1>6

(* A fragment that arrives is accounted for: a frame it begins or completes, *)
(* and those that age out of the window, are each counted once.              *)
LEMMA TakeAccounts ==
  ASSUME PreviewAssumption, VideoPathAssumption, AssemblyInv, NEW ok, Rx!TakeFragment(ok)
  PROVE  (Rx!FramesAccounted)' /\ frameDrop' \in Nat
<1> DEFINE F == at[1]
           S == Rx!Stale
           left == open \ S
           nShown == Len(shown)
           nOpen == Cardinality(open)
           nLeft == Cardinality(left)
           nStale == Cardinality(S)
           nBegun == Cardinality(Rx!Begun)
<1>1. /\ (Rx!Begun)' = Rx!Begun \cup {F} /\ (F \in open <=> F \in Rx!Begun)
      /\ S \subseteq open /\ F \notin S
  BY TakeArrives
<1>2. /\ frameDrop' = frameDrop + nStale
      /\ open' = IF Rx!Complete THEN open \ (S \cup {F}) ELSE left \cup {F}
      /\ shown' = IF Rx!Complete THEN Append(shown, F) ELSE shown
  BY RxCounts DEF Rx!TakeFragment, Rx!AtFrame, Rx!Held
<1>3. IsFiniteSet(open) /\ IsFiniteSet(Rx!Begun) /\ nOpen \in Nat /\ nBegun \in Nat
  BY FrameSets DEF AssemblyInv
<1>4. IsFiniteSet(left) /\ nLeft \in Nat /\ nStale \in Nat /\ nLeft + nStale = nOpen
  BY <1>1, <1>3, PartGoes
<1>5. nShown \in Nat /\ Len(shown') = IF Rx!Complete THEN nShown + 1 ELSE nShown
  <2>1. shown \in Seq(Frames) /\ F \in Frames
    BY TakeArrives DEF AssemblyInv, ShownSoFar
  <2> HIDE DEF F
  <2> QED
    BY <1>2, <2>1
<1>6. nShown + frameDrop + nOpen = nBegun /\ frameDrop \in Nat
  BY RxCounts DEF AssemblyInv, Counters, Rx!FramesAccounted
<1>7. Cardinality((Rx!Begun)') = IF F \in open THEN nBegun ELSE nBegun + 1
  BY <1>1, <1>3, FS_AddElement
<1>8. F \in left <=> F \in open
  BY <1>1
<1>9. CASE Rx!Complete
  <2>1. open' = left \ {F}
    BY <1>2, <1>9
  <2>2. Cardinality(open') = IF F \in open THEN nLeft - 1 ELSE nLeft
    BY <1>4, <1>8, <2>1, FS_RemoveElement
  <2>3. Len(shown') = nShown + 1
    BY <1>5, <1>9
  <2> DEFINE mShown == Len(shown')
             mOpen == Cardinality(open')
             mBegun == Cardinality((Rx!Begun)')
  <2>4. frameDrop' = frameDrop + nStale
    BY <1>2
  <2> HIDE DEF F, nShown, nOpen, nLeft, nStale, nBegun, mShown, mOpen, mBegun
  <2>5. mShown = nShown + 1
        /\ mOpen = (IF F \in open THEN nLeft - 1 ELSE nLeft)
        /\ mBegun = (IF F \in open THEN nBegun ELSE nBegun + 1)
    BY <1>7, <2>2, <2>3 DEF mShown, mOpen, mBegun
  <2>6. mShown + frameDrop' + mOpen = mBegun /\ frameDrop' \in Nat
    BY <1>3, <1>4, <1>5, <1>6, <2>4, <2>5
  <2> QED
    BY <2>6, RxCounts DEF Rx!FramesAccounted, mShown, mOpen, mBegun
<1>10. CASE ~Rx!Complete
  <2>1. open' = left \cup {F}
    BY <1>2, <1>10
  <2>2. Cardinality(open') = IF F \in open THEN nLeft ELSE nLeft + 1
    BY <1>4, <1>8, <2>1, FS_AddElement
  <2>3. Len(shown') = nShown
    BY <1>5, <1>10
  <2> DEFINE mShown == Len(shown')
             mOpen == Cardinality(open')
             mBegun == Cardinality((Rx!Begun)')
  <2>4. frameDrop' = frameDrop + nStale
    BY <1>2
  <2> HIDE DEF F, nShown, nOpen, nLeft, nStale, nBegun, mShown, mOpen, mBegun
  <2>5. mShown = nShown
        /\ mOpen = (IF F \in open THEN nLeft ELSE nLeft + 1)
        /\ mBegun = (IF F \in open THEN nBegun ELSE nBegun + 1)
    BY <1>7, <2>2, <2>3 DEF mShown, mOpen, mBegun
  <2>6. mShown + frameDrop' + mOpen = mBegun /\ frameDrop' \in Nat
    BY <1>3, <1>4, <1>5, <1>6, <2>4, <2>5
  <2> QED
    BY <2>6, RxCounts DEF Rx!FramesAccounted, mShown, mOpen, mBegun
<1> QED
  BY <1>9, <1>10

(* The missing fragments counted are those of the frames given up. *)
LEMMA TakeCountsMissing ==
  ASSUME PreviewAssumption, VideoPathAssumption, AssemblyInv, NEW ok, Rx!TakeFragment(ok)
  PROVE  (Rx!MissingExact)' /\ missing' \in Nat
<1> DEFINE F == at[1]
           S == Rx!Stale
           gone == Rx!Begun \ open
<1>1. /\ (Rx!Begun)' = Rx!Begun \cup {F} /\ (F \in open <=> F \in Rx!Begun)
      /\ S \subseteq open /\ F \notin S /\ open \subseteq Rx!Begun
      /\ arrived' = arrived \cup {at}
      /\ Rx!Complete <=> {F} \X Rx!Frags(F) \subseteq arrived'
  BY TakeArrives DEF AssemblyInv, Assembly
<1>2. /\ missing' = missing + Rx!Lacking(S)
      /\ open' = IF Rx!Complete THEN open \ (S \cup {F}) ELSE (open \ S) \cup {F}
  BY DEF Rx!TakeFragment, Rx!AtFrame, Rx!Held
<1>3. Rx!Lacking(S) = Cardinality(Lost(S))
  BY <1>1, LackingIsLost DEF AssemblyInv
<1>4. /\ Cardinality(Lost(gone \cup S)) = Cardinality(Lost(gone)) + Cardinality(Lost(S))
      /\ Cardinality(Lost(gone)) \in Nat /\ Cardinality(Lost(S)) \in Nat
  <2>1. gone \cap S = {}
    BY <1>1
  <2> QED
    BY <2>1, LostAdds
<1>5. missing = Cardinality(Lost(gone))
  BY RxCounts DEF AssemblyInv, Counters, Rx!MissingExact, Lost
<1>6. missing' = Cardinality(Lost(gone \cup S)) /\ missing' \in Nat
  BY <1>2, <1>3, <1>4, <1>5
<1>7. ASSUME NEW c \in Rx!Stream
      PROVE  c[1] \in (Rx!Begun)' \ open' /\ c \notin arrived'
               <=> c[1] \in gone \cup S /\ c \notin arrived
  <2>1. c[1] \in (Rx!Begun)' \ open' <=> c[1] \in gone \cup S \/ (c[1] = F /\ Rx!Complete)
    BY <1>1, <1>2
  <2>2. c[1] = F /\ Rx!Complete => c \in arrived'
    <3>1. c = <<c[1], c[2]>> /\ c[2] \in Rx!Frags(c[1])
      BY Fragment
    <3> QED
      BY <1>1, <3>1
  <2>3. c[1] \in gone \cup S => c # at
    BY <1>1
  <2> HIDE DEF F, S, gone
  <2> QED
    BY <1>1, <2>1, <2>2, <2>3
<1>8. {c \in Rx!Stream : c[1] \in (Rx!Begun)' \ open' /\ c \notin arrived'} = Lost(gone \cup S)
  BY <1>7 DEF Lost
<1>9. (Rx!Stream)' = Rx!Stream
  BY DEF Rx!Stream, Rx!Frags
<1> QED
  BY <1>6, <1>8, <1>9, RxCounts DEF Rx!MissingExact

(* A frame is handed on when the last of its fragments arrives, and only    *)
(* then.                                                                    *)
LEMMA TakeShows ==
  ASSUME PreviewAssumption, VideoPathAssumption, AssemblyInv, NEW ok, Rx!TakeFragment(ok)
  PROVE  /\ ShownSoFar'
         /\ shown' # shown <=> Rx!Complete
         /\ (Rx!Shown)' = IF Rx!Complete THEN Rx!Shown \cup {at[1]} ELSE Rx!Shown
<1> DEFINE F == at[1]
<1>1. /\ F \in Frames /\ F \in Nat /\ (Rx!Complete => at'[1] = F + 1)
      /\ at \notin arrived /\ at \in Rx!Stream
      /\ Rx!Complete <=> {F} \X Rx!Frags(F) \subseteq arrived'
  BY TakeArrives
<1>2. \A f \in Frames : f # F =>
        ({f} \X Rx!Frags(f) \subseteq arrived' <=> {f} \X Rx!Frags(f) \subseteq arrived)
  BY TakeArrives
<1>3. /\ shown' = IF Rx!Complete THEN Append(shown, F) ELSE shown
      /\ open' = IF Rx!Complete THEN open \ (Rx!Stale \cup {F}) ELSE (open \ Rx!Stale) \cup {F}
  BY DEF Rx!TakeFragment, Rx!AtFrame, Rx!Held
<1>4. /\ shown \in Seq(Frames) /\ \A f \in Rx!Shown : f < F /\ f \notin open
      /\ \A f \in Frames : f \in Rx!Shown <=> {f} \X Rx!Frags(f) \subseteq arrived
      /\ Len(shown) = Cardinality(Rx!Shown)
  BY RxCounts DEF AssemblyInv, ShownSoFar, Rx!ShownIffWhole, Rx!Frames, Frames
<1>5. F \in Nat /\ at'[1] \in Nat /\ F <= at'[1] /\ F \notin Rx!Shown /\ Rx!Shown \subseteq Frames
  <2>1. at'[1] \in Nat /\ F <= at'[1]
    <3>1. AtPlace /\ at[1] \in Frames /\ at' = Rx!After
      BY TakeArrives DEF AssemblyInv
    <3> QED
      BY <3>1, AfterPlace
  <2>2. Rx!Shown \subseteq Frames
    <3>1. shown \in Seq(Frames)
      BY <1>4
    <3>2. \A i \in 1 .. Len(shown) : shown[i] \in Frames
      BY <3>1
    <3> QED
      BY <3>2 DEF Rx!Shown
  <2> QED
    BY <1>1, <1>4, <2>1, <2>2
<1>6. ~({F} \X Rx!Frags(F) \subseteq arrived)
  BY <1>1, <1>4, <1>5
<1>7. IsFiniteSet(Rx!Shown)
  BY <1>5, StreamFinite, FS_Subset
<1>8. CASE Rx!Complete
  <2>1. shown' = Append(shown, F) /\ F \notin open'
    BY <1>3, <1>8
  <2> HIDE DEF F
  <2>2. shown' \in Seq(Frames) /\ Len(shown') = Len(shown) + 1 /\ shown' # shown
    BY <1>1, <1>4, <2>1
  <2>3. (Rx!Shown)' = Rx!Shown \cup {F}
    <3>1. Len(shown) \in Nat
      BY <1>4
    <3>2. \A i \in 1 .. Len(shown) : shown'[i] = shown[i]
      BY <1>1, <1>4, <2>1
    <3>3. shown'[Len(shown) + 1] = F
      BY <1>1, <1>4, <2>1
    <3>4. \A x : (\E i \in 1 .. Len(shown') : shown'[i] = x)
                   <=> (\E i \in 1 .. Len(shown) : shown[i] = x) \/ x = F
      BY <2>2, <3>1, <3>2, <3>3
    <3> QED
      BY <3>4 DEF Rx!Shown
  <2>4. Len(shown') = Cardinality((Rx!Shown)')
    BY <1>4, <1>5, <1>7, <2>2, <2>3, FS_AddElement
  <2>5. \A f \in (Rx!Shown)' : f < at'[1] /\ f \notin open'
    <3>1. at'[1] = F + 1
      BY <1>1, <1>8
    <3>2. open' \subseteq open
      BY <1>3, <1>8
    <3> QED
      BY <1>1, <1>4, <1>5, <2>1, <2>3, <3>1, <3>2, Fragment
  <2>6. \A f \in Frames : f \in (Rx!Shown)' <=> {f} \X Rx!Frags(f) \subseteq arrived'
    BY <1>1, <1>2, <1>4, <1>8, <2>3
  <2> QED
    BY <1>8, <2>2, <2>3, <2>4, <2>5, <2>6, RxCounts
       DEF ShownSoFar, Rx!ShownIffWhole, Rx!Frags, Rx!Frames, Frames, F
<1>9. CASE ~Rx!Complete
  <2>1. shown' = shown /\ open' \subseteq open \cup {F}
    BY <1>3, <1>9
  <2> HIDE DEF F
  <2>2. (Rx!Shown)' = Rx!Shown
    BY <2>1 DEF Rx!Shown
  <2>3. \A f \in (Rx!Shown)' : f < at'[1] /\ f \notin open'
    BY <1>1, <1>4, <1>5, <2>1, <2>2, Fragment
  <2>4. \A f \in Frames : f \in (Rx!Shown)' <=> {f} \X Rx!Frags(f) \subseteq arrived'
    BY <1>1, <1>2, <1>4, <1>5, <1>9, <2>2
  <2> QED
    BY <1>4, <1>9, <2>1, <2>2, <2>3, <2>4, RxCounts
       DEF ShownSoFar, Rx!ShownIffWhole, Rx!Frags, Rx!Frames, Frames, F
<1> QED
  BY <1>8, <1>9

(* The end of the receiver gives up what is open, and counts it. *)
LEMMA FlushKeeps ==
  ASSUME PreviewAssumption, VideoPathAssumption, AssemblyInv, Rx!Flush
  PROVE  AssemblyInv'
<1> DEFINE gone == Rx!Begun \ open
           nShown == Len(shown)
           nOpen == Cardinality(open)
           nBegun == Cardinality(Rx!Begun)
<1>1. /\ flushed' /\ open' = {} /\ got' = [f \in Frames |-> {}]
      /\ UNCHANGED <<at, arrived, latest, shown>>
      /\ frameDrop' = frameDrop + nOpen
      /\ missing' = missing + Rx!Lacking(open)
  BY RxCounts DEF Rx!Flush, Rx!Held, Rx!Frames, Frames
<1>2. (Rx!Begun)' = Rx!Begun /\ (Rx!Shown)' = Rx!Shown /\ (Rx!Stream)' = Rx!Stream
  BY <1>1 DEF Rx!Begun, Rx!Shown, Rx!Stream, Rx!Frags
<1>3. nOpen \in Nat /\ nBegun \in Nat
  BY FrameSets DEF AssemblyInv
<1>4. AtPlace'
  BY <1>1 DEF AssemblyInv, AtPlace, Rx!Frags
<1>5. Assembly'
  <2>1. arrived' \subseteq Rx!Stream /\ \A c \in arrived' : Past(c)'
    BY <1>1 DEF AssemblyInv, Assembly, Past
  <2>2. got' \in [Frames -> SUBSET Nat] /\ \A f \in Frames : got'[f] = {}
    BY <1>1
  <2> QED
    BY <1>1, <1>2, <2>1, <2>2 DEF Assembly
<1>6. InWindow'
  BY <1>1, <1>2 DEF AssemblyInv, InWindow
<1>7. ShownSoFar'
  BY <1>1, <1>2 DEF AssemblyInv, ShownSoFar, Rx!ShownIffWhole, Rx!Frags
<1>8. nShown \in Nat /\ nShown + frameDrop + nOpen = nBegun /\ frameDrop \in Nat /\ missing \in Nat
      /\ missing = Cardinality(Lost(gone))
  <2>1. nShown \in Nat
    BY DEF AssemblyInv, ShownSoFar
  <2>2. frameDrop \in Nat /\ missing \in Nat /\ Rx!FramesAccounted /\ Rx!MissingExact
    BY DEF AssemblyInv, Counters
  <2> QED
    BY <2>1, <2>2, RxCounts DEF Rx!FramesAccounted, Rx!MissingExact, Lost
<1>9. (Rx!FramesAccounted)' /\ frameDrop' \in Nat
  <2>1. Cardinality(open') = 0 /\ Cardinality((Rx!Begun)') = nBegun /\ Len(shown') = nShown
    BY <1>1, <1>2, FS_EmptySet
  <2>2. frameDrop' = frameDrop + nOpen
    BY <1>1
  <2> HIDE DEF nShown, nOpen, nBegun
  <2>3. nShown + frameDrop' + 0 = nBegun /\ frameDrop' \in Nat
    BY <1>3, <1>8, <2>2
  <2> QED
    BY <2>1, <2>3, RxCounts DEF Rx!FramesAccounted
<1>10. (Rx!MissingExact)' /\ missing' \in Nat
  <2>1. Rx!Lacking(open) = Cardinality(Lost(open))
    BY LackingIsLost DEF AssemblyInv
  <2>2. /\ Cardinality(Lost(gone \cup open)) = Cardinality(Lost(gone)) + Cardinality(Lost(open))
        /\ Cardinality(Lost(gone)) \in Nat /\ Cardinality(Lost(open)) \in Nat
    <3>1. gone \cap open = {}
      OBVIOUS
    <3> HIDE DEF gone
    <3> QED
      BY <3>1, LostAdds
  <2>3. missing' = Cardinality(Lost(gone \cup open)) /\ missing' \in Nat
    BY <1>1, <1>8, <2>1, <2>2
  <2>4. gone \cup open = Rx!Begun
    BY DEF AssemblyInv, Assembly
  <2>5. {c \in Rx!Stream : c[1] \in (Rx!Begun)' \ open' /\ c \notin arrived'} = Lost(Rx!Begun)
    BY <1>1, <1>2 DEF Lost
  <2> HIDE DEF gone
  <2> QED
    BY <1>2, <2>3, <2>4, <2>5, RxCounts DEF Rx!MissingExact
<1> QED
  BY <1>4, <1>5, <1>6, <1>7, <1>9, <1>10 DEF AssemblyInv, Counters

(* What the preview does leaves the assembler alone. *)
LEMMA ShowKeeps ==
  ASSUME PreviewAssumption, VideoPathAssumption, AssemblyInv, UNCHANGED rxVars
  PROVE  AssemblyInv'
<1> USE DEF rxVars
<1>1. UNCHANGED <<at, arrived, got, open, latest, shown, frameDrop, missing, flushed>>
  OBVIOUS
<1>2. (Rx!Begun)' = Rx!Begun /\ (Rx!Shown)' = Rx!Shown /\ (Rx!Stream)' = Rx!Stream
  BY <1>1 DEF Rx!Begun, Rx!Shown, Rx!Stream, Rx!Frags
<1>3. AtPlace' /\ InWindow'
  BY <1>1, <1>2 DEF AssemblyInv, AtPlace, InWindow, Rx!Frags
<1>4. Assembly'
  BY <1>1, <1>2 DEF AssemblyInv, Assembly, Past, ArrivedOf, Rx!Frags
<1>5. Counters'
  BY <1>1, <1>2 DEF AssemblyInv, Counters, Rx!FramesAccounted, Rx!MissingExact
<1>6. ShownSoFar'
  BY <1>1, <1>2 DEF AssemblyInv, ShownSoFar, Rx!ShownIffWhole, Rx!Frags
<1> QED
  BY <1>3, <1>4, <1>5, <1>6 DEF AssemblyInv

LEMMA AssemblyKept ==
  ASSUME PreviewAssumption, VideoPathAssumption, AssemblyInv, [PathNext]_pathVars
  PROVE  AssemblyInv'
<1>1. CASE StartReceiver
  BY <1>1, NewAssembler DEF StartReceiver
<1>2. CASE Assemble
  <2>1. CASE Rx!LoseFragment
    BY <2>1, LoseKeeps
  <2>2. ASSUME NEW ok \in BOOLEAN, Rx!TakeFragment(ok)
        PROVE  AssemblyInv'
    BY <2>2, TakeAssembles, TakeAccounts, TakeCountsMissing, TakeShows DEF AssemblyInv, Counters
  <2> QED
    BY <1>2, <2>1, <2>2 DEF Assemble
<1>3. CASE EndReceiver
  BY <1>3, FlushKeeps DEF EndReceiver
<1>4. CASE Show \/ UNCHANGED pathVars
  BY <1>4, ShowKeeps DEF Show, pathVars
<1> QED
  BY <1>1, <1>2, <1>3, <1>4 DEF PathNext

(* The assembler keeps its account in every run of the receiver. *)
THEOREM AssemblyHolds == PathSpec => []AssemblyInv
<1>1. PathInit => AssemblyInv
  BY PreviewAssumption, VideoPathAssumption, NewAssembler DEF PathInit
<1>2. AssemblyInv /\ [PathNext]_pathVars => AssemblyInv'
  BY PreviewAssumption, VideoPathAssumption, AssemblyKept
<1> QED
  BY <1>1, <1>2, PTL DEF PathSpec

(* The window is an interval of the frames' numbers. *)
LEMMA WindowIsSmall ==
  ASSUME PreviewAssumption, VideoPathAssumption, AssemblyInv
  PROVE  Rx!WindowBounded
<1> DEFINE low == latest - MaxIncomplete
<1>1. latest \in Int /\ MaxIncomplete \in Nat /\ low \in Int
  BY DEF AssemblyInv, InWindow, VideoPathAssumption
<1>2. open \subseteq low .. latest
  <2>1. open \subseteq Rx!Begun /\ Rx!Begun \subseteq Frames
    BY DEF AssemblyInv, Assembly, Rx!Begun, Rx!Frames, Frames
  <2>2. \A f \in open : f \in Int /\ f <= latest /\ f >= latest - MaxIncomplete
    BY <2>1, Fragment DEF AssemblyInv, InWindow
  <2> QED
    BY <1>1, <2>2
<1>3. IsFiniteSet(low .. latest) /\ Cardinality(low .. latest) = latest - low + 1
  <2>1. IsFiniteSet(low .. latest)
        /\ Cardinality(low .. latest) = IF low > latest THEN 0 ELSE latest - low + 1
    <3> HIDE DEF low
    <3> QED
      BY <1>1, FS_Interval
  <2> QED
    BY <1>1, <2>1
<1>4. Cardinality(open) <= Cardinality(low .. latest)
  BY <1>2, <1>3, FS_Subset
<1> QED
  BY <1>1, <1>3, <1>4, RxCounts DEF Rx!WindowBounded

(* The assembler's counters are exact for every stream and window: each      *)
(* frame begun is shown, dropped or open, each missing fragment of a frame   *)
(* given up is counted, once, and what is open stays within the window       *)
(* (_drop_stale_frames, _complete_frame, flush_missing).                     *)
THEOREM CountsHold == PathSpec => []CountsExact
<1>1. AssemblyInv => CountsExact
  BY PreviewAssumption, VideoPathAssumption, WindowIsSmall DEF AssemblyInv, Counters, CountsExact
<1> QED
  BY <1>1, AssemblyHolds, PTL

(* A frame is handed on, once, just when all its fragments came              *)
(* (process_fragment), whatever became of the frames around it.              *)
THEOREM WholeIsShown == PathSpec => []ShownIffWhole
<1>1. AssemblyInv => ShownIffWhole
  BY DEF AssemblyInv, ShownSoFar, ShownIffWhole
<1> QED
  BY <1>1, AssemblyHolds, PTL

-----------------------------------------------------------------------------
(* What was handed over lies behind the parser. *)
HandedSoFar == \A f \in handed : f \in Frames /\ f < at[1]

(* A step of the assembler is one that the preview supposes. *)
LEMMA AssembleIsEmit ==
  ASSUME PreviewAssumption, VideoPathAssumption, AssemblyInv, HandedSoFar, Assemble
  PROVE  /\ HandedSoFar'
         /\ (\E f \in Frames : Emit(f)) \/ UNCHANGED previewVars
<1>1. CASE Rx!LoseFragment
  <2>1. shown' = shown
    BY <1>1 DEF Rx!LoseFragment
  <2>2. UNCHANGED previewVars
    BY <2>1 DEF Assemble
  <2>3. at[1] \in Frames /\ at' = Rx!After /\ AtPlace
    BY <1>1 DEF Rx!LoseFragment, Rx!AtFrame, Rx!Frames, Frames, AssemblyInv
  <2>4. at[1] \in Nat /\ at'[1] \in Nat /\ at[1] <= at'[1]
    BY <2>3, AfterPlace
  <2>5. handed' = handed
    BY <2>2 DEF previewVars
  <2> QED
    BY <2>2, <2>4, <2>5, Fragment DEF HandedSoFar
<1>2. ASSUME NEW ok \in BOOLEAN, Rx!TakeFragment(ok)
      PROVE  /\ HandedSoFar'
             /\ (\E f \in Frames : Emit(f)) \/ UNCHANGED previewVars
  <2>1. /\ at[1] \in Frames /\ at[1] \in Nat /\ at' = Rx!After
        /\ Rx!Complete => at'[1] = at[1] + 1
        /\ shown' # shown <=> Rx!Complete
    BY <1>2, TakeArrives, TakeShows
  <2>2. at'[1] \in Nat /\ at[1] <= at'[1]
    BY <2>1, AfterPlace DEF AssemblyInv
  <2>3. CASE shown' = shown
    <3>1. UNCHANGED previewVars
      BY <2>3 DEF Assemble
    <3>2. handed' = handed
      BY <3>1 DEF previewVars
    <3> QED
      BY <2>1, <2>2, <3>1, <3>2, Fragment DEF HandedSoFar
  <2>4. CASE shown' # shown
    <3>1. /\ rx = "on" /\ UNCHANGED rx /\ handed' = handed \cup {at[1]}
          /\ events' = Append(events, at[1])
          /\ UNCHANGED <<session, guiVars, queue, stopEvent, workerVars, results>>
      BY <2>4 DEF Assemble, Put, Rx!AtFrame
    <3>2. \A g \in handed : g < at[1]
      BY DEF HandedSoFar
    <3>3. Emit(at[1])
      BY <3>1, <3>2 DEF Emit
    <3>4. HandedSoFar'
      BY <2>1, <2>4, <3>1, Fragment DEF HandedSoFar
    <3> QED
      BY <2>1, <3>3, <3>4
  <2> QED
    BY <2>3, <2>4
<1> QED
  BY <1>1, <1>2 DEF Assemble

LEMMA PathStep ==
  ASSUME PreviewAssumption, VideoPathAssumption, AssemblyInv, HandedSoFar, [PathNext]_pathVars
  PROVE  HandedSoFar' /\ [PreviewNext]_previewVars
<1>1. CASE StartReceiver
  <2>1. Start /\ handed' = {}
    BY <1>1 DEF StartReceiver, Start
  <2> QED
    BY <2>1 DEF HandedSoFar, PreviewNext, PreviewOwn
<1>2. CASE Assemble
  BY <1>2, AssembleIsEmit DEF PreviewNext
<1>3. CASE EndReceiver
  <2>1. EmitDone
    BY <1>3 DEF EndReceiver, Put, EmitDone
  <2>2. handed' = handed /\ at' = at
    BY <1>3 DEF EndReceiver, Rx!Flush
  <2> QED
    BY <2>1, <2>2 DEF HandedSoFar, PreviewNext, PreviewOwn
<1>4. CASE Show
  <2>1. handed' = handed
    BY <1>4 DEF Show, Gui, Worker, DropInput, PutInput, FindFull, ClearOne, ClearEnds,
                StopWorker, Joined, Drain, Handle
  <2>2. at' = at
    BY <1>4 DEF Show, rxVars
  <2>3. Gui \/ \E s \in Sessions : Worker(s)
    BY <1>4 DEF Show
  <2> QED
    BY <2>1, <2>2, <2>3 DEF HandedSoFar, PreviewNext, PreviewOwn
<1>5. CASE UNCHANGED pathVars
  BY <1>5 DEF pathVars, rxVars, previewVars, HandedSoFar
<1> QED
  BY <1>1, <1>2, <1>3, <1>4, <1>5 DEF PathNext

(* The assembler behind any loss of fragments is the receiver thread that    *)
(* the preview supposes: it hands over frames in increasing order, each      *)
(* once, and nothing after the end.                                          *)
THEOREM PathIsPreview == PathSpec => PreviewHolds
<1>1. PathInit => HandedSoFar /\ PreviewInit
  BY DEF PathInit, PreviewInit, HandedSoFar
<1>2. AssemblyInv /\ HandedSoFar /\ [PathNext]_pathVars
        => HandedSoFar' /\ [PreviewNext]_previewVars
  BY PreviewAssumption, VideoPathAssumption, PathStep
<1> QED
  BY <1>1, <1>2, AssemblyHolds, PTL DEF PathSpec, PreviewHolds, PreviewSpec

-----------------------------------------------------------------------------
(* Frames handed over that the GUI thread has not taken from the event       *)
(* queue, those it has, and the newest of these.                             *)
Elements(s) == {s[i] : i \in DOMAIN s}
Pending     == Elements(events) \ {0}
Taken       == handed \ Pending
Newest(g)   == g \in Taken /\ \A h \in Taken : h <= g

(* The event queue holds frames in the order they were handed over, then     *)
(* the "done" event; it is empty once the GUI thread took that one.          *)
EventsInOrder ==
  /\ events \in Seq(Nat) /\ handed \subseteq Frames /\ Pending \subseteq handed
  /\ \A i, j \in DOMAIN events :
       i < j => events[i] # 0 /\ (events[j] # 0 => events[i] < events[j])
  /\ \A g \in Taken, f \in Pending : g < f
  /\ Taken = {} \/ \E g \in Taken : Newest(g)
  /\ 0 \in Elements(events) => rx = "done"
  /\ rx = "off" \/ gui = "join" => events = <<>>
  /\ gui = "join" => rx = "done"

(* What the preview's queue holds was taken from the event queue; None comes *)
(* last, when the receiver stops.                                            *)
Items == [frame : 0 .. NumFrames, reset : BOOLEAN]

QueueTyped ==
  /\ queue \in Seq(Items) /\ item \in [Sessions -> [frame : 0 .. NumFrames, of : Nat]]
  /\ session \in Nat /\ inputWait \in BOOLEAN
  /\ \A i \in DOMAIN queue :
       IF queue[i].frame = 0
       THEN queue[i] = None /\ i = Len(queue) /\ (rx = "off" \/ gui = "join")
       ELSE queue[i].frame \in Taken

(* The queue's last frame is the newest the GUI thread took, unless that     *)
(* waits for a key frame; when the queue is empty a worker has it.           *)
TipHeld ==
  /\ gui = "clear" => Newest(full) /\ rx # "off"
  /\ gui = "free" /\ rx # "off" /\ ~inputWait =>
       \A g \in Taken : Newest(g) =>
         IF queue = <<>> THEN \E s \in Sessions : item[s].of = session /\ item[s].frame = g
         ELSE queue[Len(queue)].frame = g

ChainInv == EventsInOrder /\ QueueTyped /\ TipHeld /\ QueueIsChain

(* What the order of frames says depends on the frames handed over only. *)
LEMMA SameHanded ==
  ASSUME handed' = handed
  PROVE  \A f, g : (First(f)' <=> First(f)) /\ (Precedes(g, f)' <=> Precedes(g, f))
BY DEF First, Precedes

LEMMA SameTaken ==
  ASSUME handed' = handed, events' = events
  PROVE  /\ Elements(events)' = Elements(events) /\ Pending' = Pending /\ Taken' = Taken
         /\ \A g : Newest(g)' <=> Newest(g)
BY DEF Elements, Pending, Taken, Newest

LEMMA FramesAreNat ==
  ASSUME PreviewAssumption
  PROVE  /\ Frames \subseteq Nat /\ 0 \notin Frames /\ Frames \subseteq 0 .. NumFrames
         /\ None \in Items /\ None.frame = 0
         /\ \A f \in Frames : \A r \in BOOLEAN :
              Item(f, r) \in Items /\ Item(f, r).frame = f /\ Item(f, r) # None
<1>1. NumFrames \in Nat
  BY DEF PreviewAssumption
<1>2. \A f \in 0 .. NumFrames : \A r \in BOOLEAN : Item(f, r) \in Items /\ Item(f, r).frame = f
  BY DEF Item, Items
<1>3. None \in Items /\ None.frame = 0
  <2>1. 0 \in 0 .. NumFrames /\ FALSE \in BOOLEAN
    BY <1>1
  <2> QED
    BY <2>1 DEF None, Item, Items
<1>4. Frames \subseteq Nat /\ 0 \notin Frames /\ Frames \subseteq 0 .. NumFrames
  BY <1>1 DEF Frames
<1>5. \A f \in Frames : \A r \in BOOLEAN : Item(f, r) # None
  BY <1>2, <1>3, <1>4
<1> QED
  BY <1>2, <1>3, <1>4, <1>5

(* The GUI thread takes the oldest frame that is pending: it becomes the     *)
(* newest taken, and the one taken before is its predecessor.                *)
LEMMA TakesNext ==
  ASSUME PreviewAssumption, ChainInv, NEW f, f # 0, Handle(f), rx' = rx, gui' \in {"free", "clear"}
  PROVE  /\ EventsInOrder' /\ rx # "off" /\ f \in Frames /\ f \in handed
         /\ Taken' = Taken \cup {f} /\ \A g \in Taken : g < f
         /\ \A g : Newest(g)' <=> g = f
         /\ Taken = {} => First(f)
         /\ \A g \in Taken : Newest(g) => Precedes(g, f)
<1>1. /\ gui = "free" /\ events # <<>> /\ f = events[1] /\ events' = Tail(events)
      /\ handed' = handed
  BY DEF Handle
<1> DEFINE n == Len(events)
<1>2. events \in Seq(Nat) /\ n \in Nat /\ n >= 1 /\ DOMAIN events = 1 .. n
  BY <1>1 DEF ChainInv, EventsInOrder
<1>3. /\ events' \in Seq(Nat) /\ DOMAIN events' = 1 .. n - 1
      /\ \A i \in 1 .. n - 1 : events'[i] = events[i + 1]
  BY <1>1, <1>2
<1>4. /\ \A i, j \in 1 .. n :
           i < j => events[i] # 0 /\ (events[j] # 0 => events[i] < events[j])
      /\ handed \subseteq Nat /\ handed \subseteq Frames /\ Pending \subseteq handed
      /\ \A g \in Taken, h \in Pending : g < h
      /\ 0 \in Elements(events) => rx = "done"
      /\ rx # "off"
  BY <1>1, <1>2, FramesAreNat DEF ChainInv, EventsInOrder
<1> HIDE DEF n
<1>5. f \in Pending /\ f \in handed /\ f \in Frames /\ f \in Nat
  <2>1. f \in Elements(events)
    BY <1>1, <1>2 DEF Elements
  <2> QED
    BY <1>4, <2>1 DEF Pending
<1>6. \A h \in Elements(events') : h \in Elements(events) /\ (h # 0 => f < h)
  <2> SUFFICES ASSUME NEW i \in 1 .. n - 1
               PROVE  events[i + 1] \in Elements(events) /\ (events[i + 1] # 0 => f < events[i + 1])
    BY <1>3 DEF Elements
  <2>1. i + 1 \in 1 .. n /\ 1 \in 1 .. n /\ 1 < i + 1
    BY <1>2
  <2> QED
    BY <1>1, <1>2, <1>4, <2>1 DEF Elements
<1>7. Elements(events) \subseteq Elements(events') \cup {f}
  <2> SUFFICES ASSUME NEW i \in 1 .. n PROVE events[i] \in Elements(events') \cup {f}
    BY <1>2 DEF Elements
  <2>1. CASE i = 1
    BY <1>1, <2>1
  <2>2. CASE i # 1
    <3>1. i - 1 \in 1 .. n - 1 /\ i - 1 + 1 = i
      BY <1>2, <2>2
    <3>2. events'[i - 1] = events[i]
      BY <1>3, <3>1
    <3> QED
      BY <1>3, <3>1, <3>2 DEF Elements
  <2> QED
    BY <2>1, <2>2
<1>8. Pending' = Elements(events') \ {0} /\ Pending' = Pending \ {f}
  <2>1. Pending' = Elements(events') \ {0}
    BY DEF Pending, Elements
  <2>2. f \notin Elements(events')
    BY <1>5, <1>6
  <2> QED
    BY <1>6, <1>7, <2>1, <2>2 DEF Pending
<1>9. Taken' = Taken \cup {f} /\ \A g \in Taken : g < f
  <2>1. Taken' = handed \ Pending'
    BY <1>1 DEF Taken
  <2> QED
    BY <1>4, <1>5, <1>8, <2>1 DEF Taken
<1>10. Taken \subseteq Nat
  BY <1>4 DEF Taken
<1>11. \A g : Newest(g)' <=> g = f
  <2>1. \A g : Newest(g)' <=> g \in Taken' /\ \A h \in Taken' : h <= g
    BY DEF Newest
  <2>2. f \in Taken' /\ \A h \in Taken' : h <= f
    BY <1>5, <1>9, <1>10
  <2>3. ASSUME NEW g \in Taken', f <= g
        PROVE  g = f
    BY <1>5, <1>9, <1>10, <2>3
  <2> QED
    BY <2>1, <2>2, <2>3
<1>12. \A h \in Pending : h >= f
  <2> SUFFICES ASSUME NEW h \in Pending PROVE h >= f
    OBVIOUS
  <2>1. h = f \/ (h \in Elements(events') /\ h # 0)
    BY <1>7 DEF Pending
  <2>2. h \in Nat
    BY <1>4
  <2> QED
    BY <1>5, <1>6, <2>1, <2>2
<1>13. EventsInOrder'
  <2>1. \A i, j \in DOMAIN events' :
          i < j => events'[i] # 0 /\ (events'[j] # 0 => events'[i] < events'[j])
    <3> SUFFICES ASSUME NEW i \in 1 .. n - 1, NEW j \in 1 .. n - 1, i < j
                 PROVE  events[i + 1] # 0 /\ (events[j + 1] # 0 => events[i + 1] < events[j + 1])
      BY <1>3
    <3>1. i + 1 \in 1 .. n /\ j + 1 \in 1 .. n /\ i + 1 < j + 1
      BY <1>2
    <3> QED
      BY <1>4, <3>1
  <2>2. \A g \in Taken', h \in Pending' : g < h
    BY <1>4, <1>5, <1>6, <1>8, <1>9
  <2>3. Pending' \subseteq handed' /\ handed' \subseteq Frames
    BY <1>1, <1>4, <1>8
  <2>4. \E g \in Taken' : Newest(g)'
    BY <1>9, <1>11
  <2>5. 0 \in Elements(events') => rx' = "done"
    BY <1>4, <1>6
  <2>6. ~(rx' = "off" \/ gui' = "join")
    BY <1>4
  <2> QED
    BY <1>3, <2>1, <2>2, <2>3, <2>4, <2>5, <2>6 DEF EventsInOrder, Elements
<1>14. Taken = {} => First(f)
  BY <1>4, <1>12 DEF First, Taken
<1>15. \A g \in Taken : Newest(g) => Precedes(g, f)
  BY <1>4, <1>9, <1>12 DEF Precedes, Newest, Taken
<1> QED
  BY <1>4, <1>5, <1>9, <1>11, <1>13, <1>14, <1>15

(* The condition on the entry at i. *)
Linked(i) ==
  queue[i] # None /\ ~IsKey(queue[i].frame) /\ ~First(queue[i].frame) =>
    IF i = 1 THEN \E s \in Sessions : item[s].of = session /\ Precedes(item[s].frame, queue[1].frame)
    ELSE Precedes(queue[i - 1].frame, queue[i].frame)

LEMMA ChainIsLinked ==
  /\ QueueIsChain <=> (gui # "clear" => \A i \in 1 .. Len(queue) : Linked(i))
  /\ QueueIsChain' <=> (gui' # "clear" => \A i \in 1 .. Len(queue') : Linked(i)')
BY DEF QueueIsChain, Linked

(* What the queue holds stays in order while other things change. *)
LEMMA StillTyped ==
  ASSUME QueueTyped, UNCHANGED <<queue, item, session>>, inputWait' \in BOOLEAN, Taken \subseteq Taken',
         rx' = rx, gui' = gui \/ gui = "free"
  PROVE  QueueTyped'
BY DEF QueueTyped

LEMMA StillLinked ==
  ASSUME ChainInv, UNCHANGED <<queue, item, session, handed>>, gui # "clear" \/ gui' = "clear"
  PROVE  QueueIsChain'
<1>1. CASE gui' = "clear"
  BY <1>1 DEF QueueIsChain
<1>2. CASE gui' # "clear"
  <2>1. \A i \in 1 .. Len(queue) : Linked(i)
    BY <1>2, ChainIsLinked DEF ChainInv
  <2>2. \A i \in 1 .. Len(queue') : Linked(i)'
    BY <2>1, SameHanded DEF Linked
  <2> QED
    BY <2>2, ChainIsLinked
<1> QED
  BY <1>1, <1>2

(* A frame put on the queue follows the frame before it, which is in the     *)
(* queue or with a worker.                                                   *)
LEMMA PutChains ==
  ASSUME PreviewAssumption, ChainInv, NEW f \in Frames, PutInput(f)
  PROVE  ChainInv'
<1>1. /\ Handle(f) /\ f # 0 /\ rx' = rx /\ gui' = gui /\ gui = "free" /\ (inputWait => IsKey(f))
      /\ queue' = Append(queue, Item(f, inputWait)) /\ inputWait' = FALSE
      /\ UNCHANGED <<item, session, handed>>
  BY FramesAreNat DEF PutInput, Handle, workerVars
<1>2. /\ EventsInOrder' /\ rx # "off" /\ f \in handed
      /\ Taken' = Taken \cup {f} /\ \A g \in Taken : g < f
      /\ \A g : Newest(g)' <=> g = f
      /\ Taken = {} => First(f)
      /\ \A g \in Taken : Newest(g) => Precedes(g, f)
  BY <1>1, TakesNext
<1> DEFINE n == Len(queue)
           e == Item(f, inputWait)
<1>3. queue \in Seq(Items) /\ n \in Nat /\ DOMAIN queue = 1 .. n
  BY DEF ChainInv, QueueTyped
<1>4. e \in Items /\ e.frame = f /\ e # None
  <2>1. inputWait \in BOOLEAN
    BY DEF ChainInv, QueueTyped
  <2> QED
    BY <2>1, FramesAreNat
<1> HIDE DEF e
<1>5. /\ queue' \in Seq(Items) /\ Len(queue') = n + 1 /\ DOMAIN queue' = 1 .. n + 1
      /\ queue'[n + 1] = e /\ \A i \in 1 .. n : queue'[i] = queue[i]
  BY <1>1, <1>3, <1>4 DEF e
<1>6. n = 0 <=> queue = <<>>
  BY <1>3
<1> HIDE DEF n
<1>7. QueueTyped'
  <2>1. ASSUME NEW i \in 1 .. n + 1
        PROVE  queue'[i].frame # 0 /\ queue'[i].frame \in Taken'
    <3>1. CASE i = n + 1
      BY <1>2, <1>4, <1>5, <3>1, FramesAreNat
    <3>2. CASE i # n + 1
      <4>1. i \in 1 .. n
        BY <1>3, <3>2
      <4>2. queue[i].frame # 0 /\ queue[i].frame \in Taken
        BY <1>1, <1>2, <1>3, <4>1 DEF ChainInv, QueueTyped
      <4> QED
        BY <1>2, <1>5, <4>1, <4>2
    <3> QED
      BY <3>1, <3>2
  <2>2. item' \in [Sessions -> [frame : 0 .. NumFrames, of : Nat]] /\ session' \in Nat
        /\ inputWait' \in BOOLEAN
    BY <1>1 DEF ChainInv, QueueTyped
  <2> QED
    BY <1>5, <2>1, <2>2 DEF QueueTyped
<1>8. TipHeld'
  <2>1. queue' # <<>> /\ queue'[Len(queue')].frame = f
    BY <1>3, <1>4, <1>5
  <2> QED
    BY <1>1, <1>2, <2>1 DEF TipHeld
<1>9. QueueIsChain'
  <2> SUFFICES ASSUME NEW i \in 1 .. n + 1 PROVE Linked(i)'
    BY <1>5, ChainIsLinked
  <2>1. CASE i # n + 1
    <3>1. i \in 1 .. n /\ 1 \in 1 .. n /\ (i # 1 => i - 1 \in 1 .. n)
      BY <1>3, <2>1
    <3>2. Linked(i)
      BY <1>1, <3>1, ChainIsLinked DEF ChainInv, n
    <3>3. queue'[i] = queue[i] /\ queue'[1] = queue[1] /\ (i # 1 => queue'[i - 1] = queue[i - 1])
      BY <1>5, <3>1
    <3> QED
      BY <1>1, <3>2, <3>3, SameHanded DEF Linked
  <2>2. CASE i = n + 1
    <3>1. queue'[i].frame = f
      BY <1>4, <1>5, <2>2
    <3>2. ASSUME ~First(f), ~IsKey(f)
          PROVE  IF queue = <<>> THEN \E s \in Sessions : item[s].of = session /\ Precedes(item[s].frame, f)
                 ELSE Precedes(queue[n].frame, f)
      <4>1. PICK g \in Taken : Newest(g)
        BY <1>2, <3>2 DEF ChainInv, EventsInOrder
      <4>2. Precedes(g, f)
        BY <1>2, <4>1
      <4>3. IF queue = <<>> THEN \E s \in Sessions : item[s].of = session /\ item[s].frame = g
            ELSE queue[n].frame = g
        BY <1>1, <1>2, <3>2, <4>1 DEF ChainInv, TipHeld, n
      <4> QED
        BY <4>2, <4>3
    <3>3. CASE queue = <<>>
      <4>1. i = 1
        BY <1>6, <2>2, <3>3
      <4>2. ~First(f) /\ ~IsKey(f) => \E s \in Sessions : item'[s].of = session' /\ Precedes(item'[s].frame, f)
        BY <1>1, <3>2, <3>3
      <4> QED
        BY <1>1, <3>1, <4>1, <4>2, SameHanded DEF Linked
    <3>4. CASE queue # <<>>
      <4>1. i # 1 /\ i - 1 = n /\ n \in 1 .. n
        BY <1>3, <1>6, <2>2, <3>4
      <4>2. queue'[i - 1] = queue[n]
        BY <1>5, <4>1
      <4>3. ~First(f) /\ ~IsKey(f) => Precedes(queue'[i - 1].frame, f)
        BY <3>2, <3>4, <4>2
      <4> QED
        BY <1>1, <3>1, <4>1, <4>3, SameHanded DEF Linked
    <3> QED
      BY <3>3, <3>4
  <2> QED
    BY <2>1, <2>2
<1> QED
  BY <1>2, <1>7, <1>8, <1>9 DEF ChainInv

(* A delta frame that is let go, while a key frame is waited for, and a frame *)
(* that finds the queue full.                                                *)
LEMMA DropChains ==
  ASSUME PreviewAssumption, ChainInv, NEW f \in Frames, DropInput(f)
  PROVE  ChainInv'
<1>1. /\ Handle(f) /\ f # 0 /\ rx' = rx /\ gui' = gui /\ gui = "free" /\ inputWait /\ inputWait' = inputWait
      /\ UNCHANGED <<queue, item, session, handed>>
  BY FramesAreNat DEF DropInput, Handle, workerVars, guiVars
<1>2. EventsInOrder' /\ Taken \subseteq Taken'
  BY <1>1, TakesNext
<1>3. inputWait' \in BOOLEAN
  BY <1>1 DEF ChainInv, QueueTyped
<1>4. QueueTyped'
  BY <1>1, <1>2, <1>3, StillTyped DEF ChainInv
<1>5. QueueIsChain'
  BY <1>1, StillLinked
<1>6. TipHeld'
  BY <1>1 DEF TipHeld
<1> QED
  BY <1>2, <1>4, <1>5, <1>6 DEF ChainInv

LEMMA FullChains ==
  ASSUME PreviewAssumption, ChainInv, NEW f \in Frames, FindFull(f)
  PROVE  ChainInv'
<1>1. /\ Handle(f) /\ f # 0 /\ rx' = rx /\ gui' = "clear" /\ gui = "free" /\ full' = f
      /\ inputWait' = inputWait /\ UNCHANGED <<queue, item, session, handed>>
  BY FramesAreNat DEF FindFull, Handle, workerVars
<1>2. EventsInOrder' /\ Taken \subseteq Taken' /\ rx # "off" /\ \A g : Newest(g)' <=> g = f
  BY <1>1, TakesNext
<1>3. inputWait' \in BOOLEAN
  BY <1>1 DEF ChainInv, QueueTyped
<1>4. QueueTyped'
  BY <1>1, <1>2, <1>3, StillTyped DEF ChainInv
<1>5. QueueIsChain'
  BY <1>1, StillLinked
<1>6. TipHeld'
  BY <1>1, <1>2 DEF TipHeld
<1> QED
  BY <1>2, <1>4, <1>5, <1>6 DEF ChainInv

(* The head leaves the queue, which stays typed. *)
LEMMA HeadLeaves ==
  ASSUME QueueTyped, queue # <<>>, queue' = Tail(queue),
         item' \in [Sessions -> [frame : 0 .. NumFrames, of : Nat]],
         UNCHANGED <<session, inputWait, rx, gui>>, Taken' = Taken
  PROVE  /\ QueueTyped' /\ Len(queue) \in Nat \ {0} /\ Len(queue') = Len(queue) - 1
         /\ queue' = <<>> <=> Len(queue) = 1
         /\ \A i \in 1 .. Len(queue) - 1 : queue'[i] = queue[i + 1]
         /\ Head(queue) = queue[1] /\ queue[1] \in Items
<1> DEFINE n == Len(queue)
<1>1. queue \in Seq(Items) /\ n \in Nat \ {0} /\ DOMAIN queue = 1 .. n
  BY DEF QueueTyped
<1>2. /\ queue' \in Seq(Items) /\ Len(queue') = n - 1 /\ DOMAIN queue' = 1 .. n - 1
      /\ \A i \in 1 .. n - 1 : queue'[i] = queue[i + 1]
      /\ Head(queue) = queue[1] /\ queue[1] \in Items
  BY <1>1
<1>3. queue' = <<>> <=> n = 1
  <2>1. queue' = <<>> <=> Len(queue') = 0
    <3>1. queue' \in Seq(Items)
      BY <1>2
    <3> HIDE <1>2
    <3> DEFINE q == queue'
    <3>2. q \in Seq(Items)
      BY <3>1
    <3> HIDE DEF q
    <3>3. q = <<>> <=> Len(q) = 0
      BY <3>2
    <3> QED
      BY <3>3 DEF q
  <2> HIDE DEF n
  <2> QED
    BY <1>1, <1>2, <2>1
<1>4. \A i \in 1 .. n :
        IF queue[i].frame = 0
        THEN queue[i] = None /\ i = n /\ (rx = "off" \/ gui = "join")
        ELSE queue[i].frame \in Taken
  BY <1>1 DEF QueueTyped
<1> HIDE DEF n
<1>5. ASSUME NEW i \in 1 .. n - 1
      PROVE  IF queue'[i].frame = 0
             THEN queue'[i] = None /\ i = n - 1 /\ (rx' = "off" \/ gui' = "join")
             ELSE queue'[i].frame \in Taken'
  <2>1. i + 1 \in 1 .. n /\ (i + 1 = n => i = n - 1)
    BY <1>1
  <2>2. queue'[i] = queue[i + 1]
    BY <1>2
  <2> QED
    BY <1>4, <2>1, <2>2
<1>6. session' \in Nat /\ inputWait' \in BOOLEAN
  BY DEF QueueTyped
<1>7. QueueTyped'
  BY <1>2, <1>5, <1>6 DEF QueueTyped
<1> QED
  BY <1>1, <1>2, <1>3, <1>7 DEF n

(* The queue is cleared, and filled again from the frame that was full. *)
LEMMA ClearChains ==
  ASSUME PreviewAssumption, ChainInv, ClearOne \/ ClearEnds
  PROVE  ChainInv'
<1>1. /\ gui = "clear" /\ UNCHANGED <<session, rx, handed, events, full, item>>
      /\ Newest(full) /\ rx # "off"
  BY DEF ClearOne, ClearEnds, guiVars, workerVars, ChainInv, TipHeld
<1>2. /\ Elements(events)' = Elements(events) /\ Pending' = Pending /\ Taken' = Taken
      /\ \A g : Newest(g)' <=> Newest(g)
  BY <1>1, SameTaken
<1>3. gui' # "join"
  BY <1>1 DEF ClearOne, ClearEnds, guiVars
<1>4. EventsInOrder'
  BY <1>1, <1>2, <1>3 DEF ChainInv, EventsInOrder
<1>5. item' \in [Sessions -> [frame : 0 .. NumFrames, of : Nat]]
  BY <1>1 DEF ChainInv, QueueTyped
<1>6. CASE ClearOne
  <2>1. queue # <<>> /\ queue' = Tail(queue) /\ gui' = gui /\ inputWait' = inputWait
    BY <1>6 DEF ClearOne, WithoutHead, guiVars
  <2>2. QueueTyped'
    BY <1>1, <1>2, <1>5, <2>1, HeadLeaves DEF ChainInv
  <2>3. TipHeld' /\ QueueIsChain'
    BY <1>1, <1>2, <2>1 DEF TipHeld, QueueIsChain
  <2> QED
    BY <1>4, <2>2, <2>3 DEF ChainInv
<1>7. CASE ClearEnds
  <2> DEFINE e == Item(full, TRUE)
  <2>1. /\ gui' = "free" /\ inputWait' = ~IsKey(full)
        /\ queue' = IF IsKey(full) THEN <<e>> ELSE <<>>
    BY <1>7 DEF ClearEnds, WaitsAfterClear
  <2>2. full \in Taken /\ full \in Frames /\ Taken \subseteq Nat
    BY <1>1, FramesAreNat DEF Newest, Taken, ChainInv, EventsInOrder
  <2>3. e \in Items /\ e.frame = full /\ e.frame # 0
    BY <2>2, FramesAreNat
  <2> HIDE DEF e
  <2>4. QueueTyped'
    <3>1. queue' \in Seq(Items) /\ \A i \in DOMAIN queue' : queue'[i] = e
      BY <2>1, <2>3
    <3>2. inputWait' \in BOOLEAN
      BY <2>1 DEF IsKey
    <3> QED
      BY <1>1, <1>2, <1>5, <2>2, <2>3, <3>1, <3>2 DEF QueueTyped, ChainInv
  <2>5. TipHeld'
    <3>1. \A g : Newest(g) => g = full
      BY <1>1, <2>2 DEF Newest
    <3>2. ~inputWait' => queue' # <<>> /\ queue'[Len(queue')].frame = full
      BY <2>1, <2>3
    <3> QED
      BY <1>2, <2>1, <3>1, <3>2 DEF TipHeld
  <2>6. QueueIsChain'
    BY <1>1, <2>1, <2>3 DEF QueueIsChain
  <2> QED
    BY <1>4, <2>4, <2>5, <2>6 DEF ChainInv
<1> QED
  BY <1>6, <1>7

(* The GUI thread takes "done": the receiver is over, None may be put. *)
LEMMA StopChains ==
  ASSUME PreviewAssumption, ChainInv, StopWorker
  PROVE  ChainInv'
<1>1. /\ gui = "free" /\ gui' = "join" /\ events # <<>> /\ events[1] = 0 /\ events' = Tail(events)
      /\ queue' = (IF Room THEN Append(queue, None) ELSE queue)
      /\ UNCHANGED <<session, handed, item, rx, full, inputWait>>
  BY DEF StopWorker, Handle, workerVars
<1> DEFINE n == Len(events)
<1>2. events \in Seq(Nat) /\ n \in Nat \ {0} /\ DOMAIN events = 1 .. n
      /\ \A i, j \in 1 .. n : i < j => events[i] # 0
  BY <1>1 DEF ChainInv, EventsInOrder
<1>3. n = 1
  <2> HIDE DEF n
  <2>1. 1 \in 1 .. n /\ n \in 1 .. n
    BY <1>2
  <2>2. ~(1 < n)
    BY <1>1, <1>2, <2>1
  <2> QED
    BY <1>2, <2>2
<1>4. events' = <<>>
  BY <1>1, <1>2, <1>3
<1>5. 0 \in Elements(events) /\ Pending = {}
  BY <1>1, <1>2, <1>3 DEF Elements, Pending
<1>6. Elements(events') = {} /\ Pending' = {} /\ Taken' = Taken
  BY <1>1, <1>4, <1>5 DEF Elements, Pending, Taken
<1>7. \A g : Newest(g)' <=> Newest(g)
  BY <1>6 DEF Newest
<1>8. rx = "done"
  BY <1>5 DEF ChainInv, EventsInOrder
<1>9. EventsInOrder'
  <2>1. handed \subseteq Frames /\ (Taken = {} \/ \E g \in Taken : Newest(g))
    BY DEF ChainInv, EventsInOrder
  <2>2. Elements(events)' = {}
    BY <1>4 DEF Elements
  <2>3. events' \in Seq(Nat) /\ DOMAIN events' = {}
    BY <1>4
  <2>4. /\ handed' \subseteq Frames /\ Pending' \subseteq handed' /\ Pending' = {}
        /\ Taken' = {} \/ \E g \in Taken' : Newest(g)'
    BY <1>1, <1>6, <1>7, <2>1
  <2>5. rx' = "done" /\ gui' = "join"
    BY <1>1, <1>8
  <2> QED
    BY <1>4, <2>2, <2>3, <2>4, <2>5 DEF EventsInOrder
<1> DEFINE m == Len(queue)
<1>10. queue \in Seq(Items) /\ m \in Nat /\ DOMAIN queue = 1 .. m
       /\ \A i \in 1 .. m : queue[i].frame # 0 /\ queue[i].frame \in Taken
  BY <1>1, <1>8 DEF ChainInv, QueueTyped
<1>11. CASE ~Room
  <2>1. queue' = queue
    BY <1>1, <1>11
  <2>2. QueueTyped'
    BY <1>1, <1>6, <2>1, StillTyped DEF ChainInv, QueueTyped
  <2>3. QueueIsChain'
    BY <1>1, <2>1, StillLinked
  <2>4. TipHeld'
    BY <1>1 DEF TipHeld
  <2> QED
    BY <1>9, <2>2, <2>3, <2>4 DEF ChainInv
<1>12. CASE Room
  <2>1. /\ queue' \in Seq(Items) /\ Len(queue') = m + 1 /\ DOMAIN queue' = 1 .. m + 1
        /\ queue'[m + 1] = None /\ \A i \in 1 .. m : queue'[i] = queue[i]
    <3>1. queue' = Append(queue, None) /\ None \in Items
      BY <1>1, <1>12, FramesAreNat
    <3> QED
      BY <1>10, <3>1
  <2> HIDE DEF m
  <2>2. QueueTyped'
    <3>1. ASSUME NEW i \in 1 .. m + 1
          PROVE  IF queue'[i].frame = 0
                 THEN queue'[i] = None /\ i = m + 1 /\ (rx' = "off" \/ gui' = "join")
                 ELSE queue'[i].frame \in Taken'
      <4>1. i = m + 1 \/ i \in 1 .. m
        BY <1>10
      <4> QED
        BY <1>1, <1>6, <1>10, <2>1, <4>1, FramesAreNat
    <3>2. item' \in [Sessions -> [frame : 0 .. NumFrames, of : Nat]] /\ session' \in Nat
          /\ inputWait' \in BOOLEAN
      BY <1>1 DEF ChainInv, QueueTyped
    <3> QED
      BY <2>1, <3>1, <3>2 DEF QueueTyped
  <2>3. QueueIsChain'
    <3> SUFFICES ASSUME NEW i \in 1 .. m + 1 PROVE Linked(i)'
      BY <2>1, ChainIsLinked
    <3>1. CASE i = m + 1
      BY <2>1, <3>1 DEF Linked
    <3>2. CASE i # m + 1
      <4>1. i \in 1 .. m /\ 1 \in 1 .. m /\ (i # 1 => i - 1 \in 1 .. m)
        BY <1>10, <3>2
      <4>2. Linked(i)
        BY <1>1, <4>1, ChainIsLinked DEF ChainInv, m
      <4>3. queue'[i] = queue[i] /\ queue'[1] = queue[1] /\ (i # 1 => queue'[i - 1] = queue[i - 1])
        BY <2>1, <4>1
      <4> QED
        BY <1>1, <4>2, <4>3, SameHanded DEF Linked
    <3> QED
      BY <3>1, <3>2
  <2>4. TipHeld'
    BY <1>1 DEF TipHeld
  <2> QED
    BY <1>9, <2>2, <2>3, <2>4 DEF ChainInv
<1> QED
  BY <1>11, <1>12

(* The join ends, or results are displayed. *)
LEMMA JoinDrainChains ==
  ASSUME PreviewAssumption, ChainInv, Joined \/ Drain
  PROVE  ChainInv'
<1>1. UNCHANGED <<session, handed, events, full, inputWait, queue, item>>
  BY DEF Joined, Drain, guiVars, workerVars
<1>2. /\ Elements(events)' = Elements(events) /\ Pending' = Pending /\ Taken' = Taken
      /\ \A g : Newest(g)' <=> Newest(g)
  BY <1>1, SameTaken
<1>3. CASE Joined
  <2>1. gui = "join" /\ gui' = "free" /\ rx' = "off" /\ events = <<>>
    BY <1>3 DEF Joined, ChainInv, EventsInOrder
  <2>2. EventsInOrder'
    <3>1. Elements(events) = {}
      BY <2>1 DEF Elements
    <3> QED
      BY <1>1, <1>2, <2>1, <3>1 DEF ChainInv, EventsInOrder
  <2>3. QueueTyped'
    BY <1>1, <1>2, <2>1 DEF ChainInv, QueueTyped
  <2>4. TipHeld'
    BY <2>1 DEF TipHeld
  <2>5. QueueIsChain'
    BY <1>1, <2>1, StillLinked
  <2> QED
    BY <2>2, <2>3, <2>4, <2>5 DEF ChainInv
<1>4. CASE Drain
  <2>1. gui' = gui /\ gui = "free" /\ rx' = rx
    BY <1>4 DEF Drain, guiVars
  <2>2. EventsInOrder'
    BY <1>1, <1>2, <2>1 DEF ChainInv, EventsInOrder
  <2>3. QueueTyped' /\ TipHeld'
    BY <1>1, <1>2, <2>1 DEF ChainInv, QueueTyped, TipHeld
  <2>4. QueueIsChain'
    BY <1>1, <2>1, StillLinked
  <2> QED
    BY <2>2, <2>3, <2>4 DEF ChainInv
<1> QED
  BY <1>3, <1>4

(* A new session: every queue begins anew, nothing was handed over. *)
LEMMA StartChains ==
  ASSUME PreviewAssumption, ChainInv, Start
  PROVE  ChainInv'
<1>1. /\ gui' = gui /\ gui = "free" /\ rx = "off" /\ rx' = "on" /\ handed' = {} /\ queue' = <<>>
      /\ session' = session + 1 /\ inputWait' = FALSE /\ UNCHANGED <<events, item>>
  BY DEF Start
<1>2. events = <<>>
  BY <1>1 DEF ChainInv, EventsInOrder
<1>3. Elements(events)' = {} /\ Pending' = {} /\ Taken' = {}
  BY <1>1, <1>2 DEF Elements, Pending, Taken
<1>4. EventsInOrder'
  <2>1. events' \in Seq(Nat) /\ DOMAIN events' = {}
    BY <1>1, <1>2
  <2> QED
    BY <1>1, <1>2, <1>3, <2>1 DEF EventsInOrder
<1>5. QueueTyped'
  <2>1. item' \in [Sessions -> [frame : 0 .. NumFrames, of : Nat]] /\ session' \in Nat
    BY <1>1 DEF ChainInv, QueueTyped
  <2>2. queue' \in Seq(Items) /\ DOMAIN queue' = {}
    BY <1>1
  <2> QED
    BY <1>1, <2>1, <2>2 DEF QueueTyped
<1>6. TipHeld'
  BY <1>1, <1>3 DEF TipHeld
<1>7. QueueIsChain'
  <2>1. Len(queue') = 0
    BY <1>1
  <2> QED
    BY <2>1 DEF QueueIsChain
<1> QED
  BY <1>4, <1>5, <1>6, <1>7 DEF ChainInv

(* The receiver hands over a frame, after all others, or "done". *)
LEMMA EmitChains ==
  ASSUME PreviewAssumption, ChainInv, NEW f \in Frames \cup {0},
         \/ f # 0 /\ Emit(f)
         \/ f = 0 /\ EmitDone
  PROVE  ChainInv'
<1>1. /\ rx = "on" /\ events' = Append(events, f)
      /\ UNCHANGED <<session, gui, full, inputWait, queue, item>>
      /\ handed' = handed \cup ({f} \ {0})
      /\ f # 0 => rx' = "on" /\ \A g \in handed : g < f
      /\ f = 0 => rx' = "done"
  <2>1. CASE f # 0 /\ Emit(f)
    BY <2>1 DEF Emit, guiVars, workerVars
  <2>2. CASE f = 0 /\ EmitDone
    BY <2>2 DEF EmitDone, guiVars, workerVars
  <2> QED
    BY <2>1, <2>2
<1> DEFINE n == Len(events)
<1>2. /\ events \in Seq(Nat) /\ n \in Nat /\ DOMAIN events = 1 .. n
      /\ handed \subseteq Frames /\ Pending \subseteq handed
      /\ \A i, j \in 1 .. n :
           i < j => events[i] # 0 /\ (events[j] # 0 => events[i] < events[j])
      /\ \A g \in Taken, h \in Pending : g < h
      /\ Taken = {} \/ \E g \in Taken : Newest(g)
      /\ 0 \notin Elements(events) /\ gui # "join"
  BY <1>1 DEF ChainInv, EventsInOrder
<1>3. f \in Nat /\ (f # 0 => f \in Frames) /\ Frames \subseteq Nat /\ 0 \notin Frames
  BY FramesAreNat
<1>4. /\ events' \in Seq(Nat) /\ DOMAIN events' = 1 .. n + 1
      /\ events'[n + 1] = f /\ \A i \in 1 .. n : events'[i] = events[i]
  BY <1>1, <1>2, <1>3
<1> HIDE DEF n
<1>5. Elements(events') = Elements(events) \cup {f}
  <2>1. \A x : (\E i \in 1 .. n + 1 : events'[i] = x) <=> (\E i \in 1 .. n : events[i] = x) \/ x = f
    BY <1>2, <1>4
  <2> QED
    BY <1>2, <1>4, <2>1 DEF Elements
<1>6. /\ Elements(events)' = Elements(events) \cup {f}
      /\ Pending' = Pending \cup ({f} \ {0}) /\ Taken' = Taken
  <2>1. Elements(events)' = Elements(events')
    BY DEF Elements
  <2>2. Pending' = Pending \cup ({f} \ {0})
    BY <1>5, <2>1 DEF Pending
  <2>3. f # 0 => f \notin handed
    BY <1>1, <1>3
  <2> QED
    BY <1>1, <1>5, <2>1, <2>2, <2>3 DEF Taken
<1>7. \A g : Newest(g)' <=> Newest(g)
  BY <1>6 DEF Newest
<1>8. \A i \in 1 .. n : events[i] \in handed /\ events[i] # 0
  BY <1>2 DEF Elements, Pending
<1>9. EventsInOrder'
  <2>1. ASSUME NEW i \in 1 .. n + 1, NEW j \in 1 .. n + 1, i < j
        PROVE  events'[i] # 0 /\ (events'[j] # 0 => events'[i] < events'[j])
    <3>1. i \in 1 .. n /\ (j \in 1 .. n \/ j = n + 1)
      BY <1>2, <2>1
    <3>2. CASE j \in 1 .. n
      BY <1>2, <1>4, <2>1, <3>1, <3>2
    <3>3. CASE j = n + 1
      BY <1>1, <1>4, <1>8, <3>1, <3>3
    <3> QED
      BY <3>1, <3>2, <3>3
  <2>2. \A g \in Taken', h \in Pending' : g < h
    BY <1>1, <1>2, <1>6 DEF Taken
  <2>3. handed' \subseteq Frames /\ Pending' \subseteq handed'
    BY <1>1, <1>2, <1>3, <1>6
  <2>4. Taken' = {} \/ \E g \in Taken' : Newest(g)'
    BY <1>2, <1>6, <1>7
  <2>5. 0 \in Elements(events)' => rx' = "done"
    BY <1>1, <1>2, <1>6
  <2>6. rx' # "off" /\ gui' # "join"
    BY <1>1, <1>2
  <2> QED
    BY <1>4, <2>1, <2>2, <2>3, <2>4, <2>5, <2>6 DEF EventsInOrder
<1>10. QueueTyped' /\ TipHeld'
  <2>1. rx # "off" /\ rx' # "off" /\ gui # "join"
    BY <1>1, <1>2
  <2>2. QueueTyped'
    BY <1>1, <1>6, <2>1 DEF ChainInv, QueueTyped
  <2>3. TipHeld'
    BY <1>1, <1>6, <1>7, <2>1 DEF ChainInv, TipHeld
  <2> QED
    BY <2>2, <2>3
<1>11. ASSUME NEW g \in handed
       PROVE  First(g)' <=> First(g)
  <2>1. \A h : h \in handed' <=> h \in handed \/ (h = f /\ f # 0)
    BY <1>1
  <2>2. f # 0 => f >= g
    BY <1>1, <1>2, <1>3
  <2>3. First(g)' <=> \A h \in handed' : h >= g
    BY DEF First
  <2> QED
    BY <2>1, <2>2, <2>3 DEF First
<1>12. ASSUME NEW g, NEW h \in handed, Precedes(g, h)
       PROVE  Precedes(g, h)'
  <2>1. \A k \in handed' : k \in handed \/ (k = f /\ f # 0)
    BY <1>1
  <2>2. f # 0 => f >= h
    BY <1>1, <1>2, <1>3
  <2> QED
    BY <1>1, <1>12, <2>1, <2>2 DEF Precedes
<1>13. QueueIsChain'
  <2> SUFFICES ASSUME gui # "clear", NEW i \in 1 .. Len(queue) PROVE Linked(i)'
    BY <1>1, ChainIsLinked
  <2>1. Linked(i) /\ 1 \in 1 .. Len(queue)
    BY ChainIsLinked DEF ChainInv, QueueTyped
  <2>2. \A j \in 1 .. Len(queue) : queue[j].frame \in handed
    BY <1>1, <1>2 DEF ChainInv, QueueTyped, Taken
  <2> QED
    BY <1>1, <1>11, <1>12, <2>1, <2>2 DEF Linked
<1> QED
  BY <1>9, <1>10, <1>13 DEF ChainInv

(* A worker takes the head: the frame behind it then follows what the worker *)
(* has.  Everything else a worker does leaves the chain alone.               *)
LEMMA WorkerChains ==
  ASSUME PreviewAssumption, ChainInv, NEW s \in Sessions, Worker(s)
  PROVE  ChainInv'
<1>1. UNCHANGED <<session, rx, handed, events, gui, full, inputWait>>
  BY DEF Worker, guiVars
<1>2. /\ Elements(events)' = Elements(events) /\ Pending' = Pending /\ Taken' = Taken
      /\ \A g : Newest(g)' <=> Newest(g)
  BY <1>1, SameTaken
<1>3. EventsInOrder'
  BY <1>1, <1>2 DEF ChainInv, EventsInOrder
<1>4. /\ item \in [Sessions -> [frame : 0 .. NumFrames, of : Nat]] /\ session \in Nat
      /\ queue \in Seq(Items)
  BY DEF ChainInv, QueueTyped
<1>5. CASE GetItem(s)
  <2> DEFINE e == queue[1]
             n == Len(queue)
  <2>1. /\ queue # <<>> /\ queue' = Tail(queue) /\ Head(queue) # None
        /\ item' = [item EXCEPT ![s] = [frame |-> Head(queue).frame, of |-> session]]
    BY <1>5 DEF GetItem, WithoutHead
  <2>2. e \in Items /\ Head(queue) = e /\ n \in Nat \ {0}
    BY <1>4, <2>1
  <2>3. e.frame \in 0 .. NumFrames
    BY <2>2 DEF Items
  <2> HIDE DEF e
  <2>4. /\ item' \in [Sessions -> [frame : 0 .. NumFrames, of : Nat]]
        /\ item'[s].frame = e.frame /\ item'[s].of = session'
    BY <1>1, <1>4, <2>1, <2>2, <2>3
  <2>5. /\ QueueTyped' /\ Len(queue') = n - 1
        /\ queue' = <<>> <=> n = 1
        /\ \A i \in 1 .. n - 1 : queue'[i] = queue[i + 1]
    BY <1>1, <1>2, <2>1, <2>4, HeadLeaves DEF ChainInv
  <2> HIDE DEF n
  <2>6. TipHeld'
    <3> SUFFICES ASSUME gui = "free", rx # "off", ~inputWait, NEW g \in Taken, Newest(g)
                 PROVE  IF queue' = <<>> THEN \E t \in Sessions : item'[t].of = session' /\ item'[t].frame = g
                        ELSE queue'[Len(queue')].frame = g
      BY <1>1, <1>2 DEF TipHeld, ChainInv
    <3>1. queue[n].frame = g
      BY <2>1 DEF ChainInv, TipHeld, n
    <3>2. CASE n = 1
      BY <2>4, <2>5, <3>1, <3>2 DEF e
    <3>3. CASE n # 1
      <4>1. n - 1 \in 1 .. n - 1 /\ n - 1 + 1 = n
        BY <2>2, <3>3
      <4>2. queue'[n - 1] = queue[n]
        BY <2>5, <4>1
      <4> QED
        BY <2>5, <3>1, <3>3, <4>2
    <3> QED
      BY <3>2, <3>3
  <2>7. QueueIsChain'
    <3> SUFFICES ASSUME gui # "clear", NEW i \in 1 .. n - 1 PROVE Linked(i)'
      BY <1>1, <2>5, ChainIsLinked
    <3>1. n \in Nat \ {0} /\ i + 1 \in 1 .. n /\ i + 1 # 1 /\ i + 1 - 1 = i /\ i \in 1 .. n
      BY <2>2 DEF n
    <3>2. Linked(i + 1)
      BY <3>1, ChainIsLinked DEF ChainInv, n
    <3>3. queue'[i] = queue[i + 1]
      BY <2>5
    <3>4. queue[i + 1] # None /\ ~IsKey(queue[i + 1].frame) /\ ~First(queue[i + 1].frame)
            => Precedes(queue[i].frame, queue[i + 1].frame)
      BY <3>1, <3>2 DEF Linked
    <3>5. CASE i = 1
      <4>1. item'[s].frame = queue[i].frame /\ item'[s].of = session'
        BY <2>4, <3>5 DEF e
      <4> QED
        BY <1>1, <3>3, <3>4, <3>5, <4>1, SameHanded DEF Linked
    <3>6. CASE i # 1
      <4>1. i - 1 \in 1 .. n - 1 /\ i - 1 + 1 = i
        BY <3>1, <3>6
      <4>2. queue'[i - 1] = queue[i]
        BY <2>5, <4>1
      <4> QED
        BY <1>1, <3>3, <3>4, <3>6, <4>2, SameHanded DEF Linked
    <3> QED
      BY <3>5, <3>6
  <2> QED
    BY <1>3, <2>5, <2>6, <2>7 DEF ChainInv
<1>6. CASE GetNone(s)
  <2>1. queue # <<>> /\ queue' = Tail(queue) /\ Head(queue) = None /\ item' = item
    BY <1>6 DEF GetNone, WithoutHead
  <2>2. /\ QueueTyped' /\ Len(queue) \in Nat \ {0} /\ Len(queue') = Len(queue) - 1
        /\ Head(queue) = queue[1]
    BY <1>1, <1>2, <1>4, <2>1, HeadLeaves DEF ChainInv
  <2>3. Len(queue) = 1 /\ (rx = "off" \/ gui = "join")
    <3>1. queue[1].frame = 0 /\ 1 \in DOMAIN queue
      BY <1>4, <2>1, <2>2, FramesAreNat
    <3> QED
      BY <3>1 DEF ChainInv, QueueTyped
  <2>4. Len(queue') = 0
    BY <2>2, <2>3
  <2>5. QueueIsChain'
    BY <2>4 DEF QueueIsChain
  <2>6. TipHeld'
    BY <1>1, <1>2, <2>3 DEF ChainInv, TipHeld
  <2> QED
    BY <1>3, <2>2, <2>5, <2>6 DEF ChainInv
<1>7. CASE queue' = queue /\ item' = item
  <2>1. QueueTyped' /\ TipHeld'
    BY <1>1, <1>2, <1>7 DEF ChainInv, QueueTyped, TipHeld
  <2>2. QueueIsChain'
    <3>1. CASE gui = "clear"
      BY <1>1, <3>1 DEF QueueIsChain
    <3>2. CASE gui # "clear"
      BY <1>1, <1>7, <3>2, StillLinked
    <3> QED
      BY <3>1, <3>2
  <2> QED
    BY <1>3, <2>1, <2>2 DEF ChainInv
<1>8. GetItem(s) \/ GetNone(s) \/ (queue' = queue /\ item' = item)
  BY DEF Worker, CheckStop, GetTimesOut, Decode, DecodeLate, PutResult, Evict, PutAgain
<1> QED
  BY <1>5, <1>6, <1>7, <1>8

LEMMA ChainKeptByStep ==
  ASSUME PreviewAssumption, ChainInv, [PreviewNext]_previewVars
  PROVE  ChainInv'
<1>1. CASE Gui
  BY <1>1, DropChains, PutChains, FullChains, ClearChains, StopChains, JoinDrainChains DEF Gui
<1>2. CASE \E s \in Sessions : Worker(s)
  BY <1>2, WorkerChains
<1>3. CASE Start
  BY <1>3, StartChains
<1>4. CASE EmitDone
  BY <1>4, EmitChains
<1>5. CASE \E f \in Frames : Emit(f)
  BY <1>5, EmitChains, FramesAreNat
<1>6. CASE UNCHANGED previewVars
  <2>1. UNCHANGED <<session, rx, handed, events, gui, full, inputWait, queue, item>>
    BY <1>6 DEF previewVars, guiVars, workerVars
  <2>2. /\ Elements(events)' = Elements(events) /\ Pending' = Pending /\ Taken' = Taken
        /\ \A g : Newest(g)' <=> Newest(g)
    BY <2>1, SameTaken
  <2>3. EventsInOrder' /\ QueueTyped' /\ TipHeld'
    BY <2>1, <2>2 DEF ChainInv, EventsInOrder, QueueTyped, TipHeld
  <2>4. QueueIsChain'
    <3>1. CASE gui = "clear"
      BY <2>1, <3>1 DEF QueueIsChain
    <3>2. CASE gui # "clear"
      BY <2>1, <3>2, StillLinked
    <3> QED
      BY <3>1, <3>2
  <2> QED
    BY <2>3, <2>4 DEF ChainInv
<1> QED
  BY <1>1, <1>2, <1>3, <1>4, <1>5, <1>6 DEF PreviewNext, PreviewOwn

LEMMA ChainStarts ==
  ASSUME PreviewAssumption, PreviewInit
  PROVE  ChainInv
<1> USE DEF PreviewInit
<1>1. Elements(events) = {} /\ Pending = {} /\ Taken = {}
  BY DEF Elements, Pending, Taken
<1>2. EventsInOrder
  BY <1>1 DEF EventsInOrder
<1>3. QueueTyped
  <2>1. item \in [Sessions -> [frame : 0 .. NumFrames, of : Nat]]
    BY DEF Idle, PreviewAssumption
  <2>2. queue \in Seq(Items) /\ DOMAIN queue = {}
    OBVIOUS
  <2> QED
    BY <2>1, <2>2 DEF QueueTyped
<1>4. TipHeld
  BY <1>1 DEF TipHeld
<1>5. QueueIsChain
  BY DEF QueueIsChain
<1> QED
  BY <1>2, <1>3, <1>4, <1>5 DEF ChainInv

(* The preview behind any receiver thread: except while it is cleared, its   *)
(* queue holds no delta frame whose predecessor was thrown away              *)
(* (_handle_video_preview), for queues of any length and however often they  *)
(* run full.                                                                 *)
THEOREM PreviewChains == PreviewSpec => []ChainInv
<1>1. PreviewInit => ChainInv
  BY PreviewAssumption, ChainStarts
<1>2. ChainInv /\ [PreviewNext]_previewVars => ChainInv'
  BY PreviewAssumption, ChainKeptByStep
<1> QED
  BY <1>1, <1>2, PTL DEF PreviewSpec

(* So it is behind the assembler, whose frames it shows: by the refinement,  *)
(* what holds of the preview holds of the path.                              *)
THEOREM QueueHoldsChain == PathSpec => []QueueIsChain
<1>1. PathSpec => PreviewSpec
  BY PathIsPreview DEF PreviewHolds
<1>2. ChainInv => QueueIsChain
  BY DEF ChainInv
<1> QED
  BY <1>1, <1>2, PreviewChains, PTL
=============================================================================
