----------------------------- MODULE PartsProof -----------------------------
(* The three parts that share no state with the rest, for every value of     *)
(* their constants.                                                          *)
(*                                                                           *)
(* WireWords: for words of any width, any history and any number of chunks,  *)
(* while what is under way lies within half the words, comparing words is    *)
(* comparing chunks, and the board takes every chunk for what it is.         *)
(* SparseRanges: for a file of any size the list of ranges is the set of the *)
(* bytes written, and coverage() is exact.                                   *)
(* NalSplit: a stream of any length is split without loss and into pictures. *)
EXTENDS WireWords, SparseRanges, NalSplit, FiniteSetTheorems, WellFoundedInduction, TLAPS

(* The remainder of a number that is off by less than one period. *)
LEMMA NearRemainder ==
  ASSUME NEW W \in Nat \ {0}, NEW x \in Int, 0 - W < x, x < W
  PROVE  x % W = IF x >= 0 THEN x ELSE x + W
<1>1. /\ x = W * (x \div W) + (x % W)
      /\ x % W \in 0 .. (W - 1) /\ x \div W \in Int
  OBVIOUS
<1>2. CASE x >= 0
  <2>1. x \div W = 0
    BY <1>1, <1>2
  <2> QED
    BY <1>1, <1>2, <2>1
<1>3. CASE x < 0
  <2>1. x \div W = -1
    BY <1>1, <1>3
  <2> QED
    BY <1>1, <1>3, <2>1
<1> QED
  BY <1>2, <1>3

(* The words of two chunks differ as the chunks do, up to one period. *)
LEMMA WordsDiffer ==
  ASSUME NEW W \in Nat \ {0}, NEW a \in Nat, NEW b \in Nat, 0 - W < a - b, a - b < W
  PROVE  /\ a % W \in 0 .. (W - 1) /\ b % W \in 0 .. (W - 1)
         /\ (a % W) - (b % W) \in {a - b, a - b - W, a - b + W}
<1> DEFINE p == a \div W
           q == b \div W
           r == a % W
           s == b % W
<1>1. p \in Int /\ r \in 0 .. (W - 1) /\ a = W * p + r
  OBVIOUS
<1>2. q \in Int /\ s \in 0 .. (W - 1) /\ b = W * q + s
  OBVIOUS
<1> HIDE DEF p, q, r, s
<1>3. W * p - W * q = W * (p - q)
  BY <1>1, <1>2
<1>4. W * (p - q) \in Int /\ W * (p - q) < 2 * W /\ W * (p - q) > 0 - 2 * W
  BY <1>1, <1>2, <1>3
<1>5. p - q \in {-1, 0, 1}
  <2>1. p - q >= 2 => W * (p - q) >= 2 * W
    BY <1>1, <1>2
  <2>2. p - q <= -2 => W * (p - q) <= 0 - 2 * W
    BY <1>1, <1>2
  <2> QED
    BY <1>1, <1>2, <1>4, <2>1, <2>2
<1>6. W * (p - q) \in {0 - W, 0, W}
  BY <1>1, <1>2, <1>5
<1>7. r - s \in {a - b, a - b - W, a - b + W}
  BY <1>1, <1>2, <1>3, <1>6
<1> QED
  BY <1>1, <1>2, <1>7 DEF r, s

LEMMA WordIsPositive == Word \in Nat \ {0} /\ Half < Word /\ Word = 2 * Half
  BY WireWordsAssumption DEF Word

(* The same for the words of this module. *)
LEMMA SeqsDiffer ==
  ASSUME NEW a \in Nat, NEW b \in Nat, 0 - Word < a - b, a - b < Word
  PROVE  /\ NameOf(a) \in 0 .. (Word - 1) /\ NameOf(b) \in 0 .. (Word - 1)
         /\ NameOf(a) - NameOf(b) \in {a - b, a - b - Word, a - b + Word}
<1>1. ASSUME NEW W \in Nat \ {0}, W = Word
      PROVE  /\ NameOf(a) \in 0 .. (W - 1) /\ NameOf(b) \in 0 .. (W - 1)
             /\ NameOf(a) - NameOf(b) \in {a - b, a - b - W, a - b + W}
  <2>1. 0 - W < a - b /\ a - b < W
    BY <1>1
  <2>2. /\ a % W \in 0 .. (W - 1) /\ b % W \in 0 .. (W - 1)
        /\ (a % W) - (b % W) \in {a - b, a - b - W, a - b + W}
    BY <1>1, <2>1, WordsDiffer
  <2>3. NameOf(a) = a % W /\ NameOf(b) = b % W
    BY <1>1 DEF NameOf
  <2> QED
    BY <2>2, <2>3
<1> QED
  BY <1>1, WordIsPositive

(* Chunks less than a period apart have words of their own. *)
LEMMA SeqNames ==
  ASSUME NEW a \in Nat, NEW b \in Nat, 0 - Word < a - b, a - b < Word, NameOf(a) = NameOf(b)
  PROVE  a = b
<1>1. /\ NameOf(a) \in Int /\ NameOf(b) \in Int
      /\ NameOf(a) - NameOf(b) \in {a - b, a - b - Word, a - b + Word}
  BY WordIsPositive, SeqsDiffer
<1>2. NameOf(a) - NameOf(b) = 0
  BY <1>1
<1>3. a - b \in {0, Word, 0 - Word}
  BY <1>1, <1>2, WordIsPositive
<1> QED
  BY <1>3, WordIsPositive

(* net_seq_before compares chunks, whatever multiple of the period lies      *)
(* between their words, as long as they are less than half of it apart.      *)
THEOREM SeqBeforeIsOrder ==
  ASSUME NEW a \in Nat, NEW b \in Nat, 0 - Half < a - b, a - b < Half
  PROVE  SeqBefore(NameOf(a), NameOf(b)) <=> a < b
<1> DEFINE d == NameOf(a) - NameOf(b)
<1>1. /\ NameOf(a) \in 0 .. (Word - 1) /\ NameOf(b) \in 0 .. (Word - 1)
      /\ d \in {a - b, a - b - Word, a - b + Word}
  <2>1. 0 - Word < a - b /\ a - b < Word
    BY WordIsPositive, WireWordsAssumption
  <2> QED
    BY <2>1, SeqsDiffer
<1>2. d \in Int /\ 0 - Word < d /\ d < Word
  <2>1. NameOf(a) \in Int /\ NameOf(b) \in Int /\ 0 <= NameOf(a) /\ NameOf(a) < Word /\ 0 <= NameOf(b) /\ NameOf(b) < Word
    BY <1>1, WordIsPositive
  <2> HIDE DEF NameOf
  <2> QED
    BY <2>1, WordIsPositive
<1>3. SeqBefore(NameOf(a), NameOf(b)) <=> d % Word >= Half
  BY DEF SeqBefore
<1> HIDE DEF d
<1>4. d % Word = IF d >= 0 THEN d ELSE d + Word
  BY <1>2, WordIsPositive, NearRemainder
<1>5. CASE d = a - b
  BY <1>2, <1>3, <1>4, <1>5, WordIsPositive, WireWordsAssumption
<1>6. CASE d = a - b - Word
  BY <1>2, <1>3, <1>4, <1>6, WordIsPositive, WireWordsAssumption
<1>7. CASE d = a - b + Word
  BY <1>2, <1>3, <1>4, <1>7, WordIsPositive, WireWordsAssumption
<1> QED
  BY <1>1, <1>5, <1>6, <1>7 DEF d

-----------------------------------------------------------------------------
(* What the words are of: the expected one names the chunk that follows the  *)
(* accepted ones.                                                            *)
Counted == expected = NameOf(accepted)

WireInv == WireTypeOK /\ Counted /\ VerdictIsRight

LEMMA SeqIsWord == ASSUME NEW n \in Nat PROVE NameOf(n) \in 0 .. (Word - 1)
  BY WordIsPositive DEF NameOf

LEMMA ModAdvances ==
  ASSUME NEW W \in Nat \ {0}, NEW n \in Nat
  PROVE  ((n % W) + 1) % W = (n + 1) % W
<1> DEFINE q == n \div W
           r == n % W
           p == (n + 1) \div W
           s == (n + 1) % W
<1>1. q \in Int /\ r \in 0 .. (W - 1) /\ n = W * q + r
  OBVIOUS
<1>2. p \in Int /\ s \in 0 .. (W - 1) /\ n + 1 = W * p + s
  OBVIOUS
<1>3. SUFFICES (r + 1) % W = s
  OBVIOUS
<1> HIDE DEF p, q, r, s
<1>4. W * p - W * q = W * (p - q)
  BY <1>1, <1>2
<1>5. W * (p - q) = r + 1 - s
  BY <1>1, <1>2, <1>4
<1>6. p - q \in {0, 1}
  <2>1. p - q >= 2 => W * (p - q) >= 2 * W
    BY <1>1, <1>2
  <2>2. p - q <= -1 => W * (p - q) <= 0 - W
    BY <1>1, <1>2
  <2> QED
    BY <1>1, <1>2, <1>5, <2>1, <2>2
<1>7. CASE p - q = 0
  <2>1. s = r + 1
    BY <1>1, <1>2, <1>5, <1>7
  <2> QED
    BY <1>1, <1>2, <2>1
<1>8. CASE p - q = 1
  <2>1. s = r + 1 - W
    BY <1>1, <1>2, <1>5, <1>8
  <2>2. s = 0 /\ r + 1 = W
    BY <1>1, <1>2, <2>1
  <2>3. W % W = 0
    OBVIOUS
  <2> QED
    BY <2>2, <2>3
<1> QED
  BY <1>6, <1>7, <1>8

LEMMA SeqAdvances == ASSUME NEW n \in Nat PROVE (NameOf(n) + 1) % Word = NameOf(n + 1)
<1>1. ASSUME NEW W \in Nat \ {0}, W = Word PROVE ((n % W) + 1) % W = (n + 1) % W
  BY ModAdvances
<1> QED
  BY <1>1, WordIsPositive DEF NameOf

(* What the board takes a chunk for that is near the one it expects. *)
LEMMA VerdictOnChunk ==
  ASSUME WireInv, NEW n \in Nat, Near(n)
  PROVE  /\ Verdict(NameOf(n)) \in {"next", "duplicate", "pending"}
         /\ Verdict(NameOf(n)) = "next" => n = accepted
         /\ Verdict(NameOf(n)) = "duplicate" => n < accepted
         /\ Verdict(NameOf(n)) = "pending" => n > accepted
<1>1. accepted \in Nat /\ expected = NameOf(accepted)
  BY WireWordsAssumption DEF WireInv, WireTypeOK, Counted
<1>2. n - accepted <= Span /\ accepted - n <= Span
  BY <1>1, WireWordsAssumption DEF Near
<1>3. Remembered(NameOf(n)) => n < accepted
  <2>1. SUFFICES ASSUME NEW j \in 0 .. (accepted - 1), j >= accepted - Depth, NameOf(n) = NameOf(j)
                 PROVE  n < accepted
    BY DEF Remembered
  <2>2. 0 - Word < n - j /\ n - j < Word
    BY <1>1, <1>2, <2>1, WireWordsAssumption, WordIsPositive
  <2>3. n = j
    BY <1>1, <2>1, <2>2, SeqNames
  <2> QED
    BY <1>1, <2>1, <2>3
<1>4. NameOf(n) = expected => n = accepted
  <2>1. 0 - Word < n - accepted /\ n - accepted < Word
    BY <1>1, <1>2, WireWordsAssumption, WordIsPositive
  <2> QED
    BY <1>1, <2>1, SeqNames
<1>5. SeqBefore(NameOf(n), expected) <=> n < accepted
  <2>1. 0 - Half < n - accepted /\ n - accepted < Half
    BY <1>1, <1>2, WireWordsAssumption
  <2> QED
    BY <1>1, <2>1, SeqBeforeIsOrder
<1>6. CASE Remembered(NameOf(n))
  BY <1>3, <1>6 DEF Verdict
<1>7. CASE ~Remembered(NameOf(n)) /\ NameOf(n) = expected
  BY <1>4, <1>7 DEF Verdict
<1>8. CASE ~Remembered(NameOf(n)) /\ NameOf(n) # expected /\ SeqBefore(NameOf(n), expected)
  BY <1>5, <1>8 DEF Verdict
<1>9. CASE ~Remembered(NameOf(n)) /\ NameOf(n) # expected /\ ~SeqBefore(NameOf(n), expected)
  <2>1. n # accepted
    BY <1>1, <1>9
  <2>2. n > accepted
    BY <1>1, <1>5, <1>9, <2>1
  <2>3. Verdict(NameOf(n)) = "pending"
    BY <1>9 DEF Verdict
  <2> QED
    BY <2>2, <2>3
<1> QED
  BY <1>6, <1>7, <1>8, <1>9

LEMMA WireInvInit == WireInit => WireInv
<1> SUFFICES ASSUME WireInit PROVE WireInv
  OBVIOUS
<1>1. NameOf(0) = 0
  BY WordIsPositive DEF NameOf
<1>2. WireTypeOK
  BY WordIsPositive, WireWordsAssumption DEF WireInit, WireTypeOK
<1> QED
  BY <1>1, <1>2 DEF WireInit, WireInv, Counted, VerdictIsRight

LEMMA WireInvNext == WireInv /\ [WireNext]_wireVars => WireInv'
<1> SUFFICES ASSUME WireInv, [WireNext]_wireVars PROVE WireInv'
  OBVIOUS
<1> USE WireWordsAssumption
<1>1. ASSUME NEW n \in 0 .. (MaxChunks + Span), Refuse(n) PROVE WireInv'
  <2>1. Verdict(NameOf(n)) \in {"duplicate", "pending"}
        /\ (Verdict(NameOf(n)) = "duplicate" => n < accepted)
        /\ (Verdict(NameOf(n)) = "pending" => n > accepted)
    BY <1>1, VerdictOnChunk DEF Refuse
  <2>2. last' = [chunk |-> n, at |-> accepted, as |-> Verdict(NameOf(n))]
        /\ UNCHANGED <<accepted, expected>>
    BY <1>1 DEF Refuse
  <2>3. VerdictIsRight'
    BY <2>1, <2>2 DEF VerdictIsRight
  <2>4. WireTypeOK'
    BY <2>1, <2>2 DEF WireInv, WireTypeOK
  <2>5. Counted'
    BY <2>2 DEF WireInv, Counted
  <2> QED
    BY <2>3, <2>4, <2>5 DEF WireInv
<1>2. ASSUME NEW n \in 0 .. (MaxChunks + Span), Accept(n) PROVE WireInv'
  <2>1. n = accepted
    BY <1>2, VerdictOnChunk DEF Accept
  <2>2. accepted \in 0 .. MaxChunks
    BY DEF WireInv, WireTypeOK
  <2>3. VerdictIsRight'
    BY <1>2, <2>1 DEF Accept, VerdictIsRight
  <2>4. Counted'
    <3>1. expected' = NameOf(accepted + 1) /\ accepted' = accepted + 1
      BY <1>2, <2>1, <2>2, SeqAdvances DEF Accept
    <3> QED
      BY <3>1 DEF Counted
  <2>5. accepted' \in 0 .. MaxChunks /\ expected' \in 0 .. (Word - 1)
    <3>1. accepted' \in 0 .. MaxChunks
      BY <1>2, <2>2 DEF Accept
    <3> QED
      BY <3>1, <2>4, SeqIsWord DEF Counted
  <2>6. last' \in [chunk : Nat, at : Nat, as : {"none", "next", "duplicate", "pending"}]
    BY <1>2, <2>2 DEF Accept
  <2> QED
    BY <2>3, <2>4, <2>5, <2>6 DEF WireInv, WireTypeOK
<1>3. CASE UNCHANGED wireVars
  BY <1>3 DEF wireVars, WireInv, WireTypeOK, Counted, VerdictIsRight, NameOf
<1> QED
  BY <1>1, <1>2, <1>3 DEF WireNext

THEOREM WireInvariant == WireSpec => []WireInv
  BY WireInvInit, WireInvNext, PTL DEF WireSpec

(* The board takes every chunk for what it is, after any number of wraps.    *)
THEOREM VerdictAlwaysRight == WireSpec => []VerdictIsRight
<1>1. WireInv => VerdictIsRight
  BY DEF WireInv
<1> QED
  BY <1>1, WireInvariant, PTL

(* The words stay words. *)
THEOREM WireTyped == WireSpec => []WireTypeOK
<1>1. WireInv => WireTypeOK
  BY DEF WireInv
<1> QED
  BY <1>1, WireInvariant, PTL

-----------------------------------------------------------------------------
(* A set of numbers that is not empty has a least one. *)
LEMMA LeastOf ==
  ASSUME NEW T, T \subseteq Nat, T # {}
  PROVE  \E x \in T : \A y \in T : x <= y
<1> DEFINE R == {p \in Nat \X Nat : p[1] < p[2]}
<1>1. IsWellFoundedOn(R, Nat)
  BY NatLessThanWellFounded, Zenon DEF OpToRel
<1>2. \A x, y \in Nat : y < x => <<y, x>> \in R
  OBVIOUS
<1> HIDE DEF R
<1>3. PICK x \in T : \A y \in T : ~(<<y, x>> \in R)
  BY <1>1, WFMin, Zenon
<1>4. ASSUME NEW y \in T
      PROVE  x <= y
  <2>1. x \in Nat /\ y \in Nat /\ ~(<<y, x>> \in R)
    BY <1>3
  <2>2. ~(y < x)
    BY <1>2, <2>1
  <2> QED
    BY <2>1, <2>2
<1> QED
  BY <1>4

(* What a list of ranges is: none is empty, and each is before the next one  *)
(* with a hole between them.                                                 *)
Pairs == Nat \X Nat

Ordered(rs) ==
  /\ rs \in Seq(Pairs)
  /\ \A i \in DOMAIN rs : rs[i][1] < rs[i][2]
  /\ \A i, j \in DOMAIN rs : i < j => rs[i][2] < rs[j][1]

AllBytes(rs) == UNION {Bytes(rs[i]) : i \in DOMAIN rs}

LEMMA OrderedFacts ==
  ASSUME NEW rs, Ordered(rs)
  PROVE  /\ rs \in Seq(Pairs) /\ Len(rs) \in Nat /\ DOMAIN rs = 1 .. Len(rs)
         /\ \A i \in 1 .. Len(rs) : /\ rs[i] \in Pairs /\ rs[i] = <<rs[i][1], rs[i][2]>>
                                    /\ rs[i][1] \in Nat /\ rs[i][2] \in Nat /\ rs[i][1] < rs[i][2]
         /\ \A i, j \in 1 .. Len(rs) : i < j => rs[i][2] < rs[j][1]
<1>1. rs \in Seq(Pairs) /\ Len(rs) \in Nat /\ DOMAIN rs = 1 .. Len(rs)
  BY DEF Ordered
<1>2. ASSUME NEW r \in Pairs
      PROVE  r = <<r[1], r[2]>> /\ r[1] \in Nat /\ r[2] \in Nat
  BY DEF Pairs
<1>3. \A i \in 1 .. Len(rs) : rs[i] \in Pairs
  BY <1>1
<1> QED
  BY <1>1, <1>2, <1>3 DEF Ordered

LEMMA InAllBytes ==
  ASSUME NEW rs, Ordered(rs), NEW x
  PROVE  x \in AllBytes(rs) <=> \E i \in 1 .. Len(rs) : x \in Int /\ rs[i][1] <= x /\ x < rs[i][2]
<1>1. x \in AllBytes(rs) <=> \E i \in 1 .. Len(rs) : x \in Bytes(rs[i])
  BY OrderedFacts DEF AllBytes
<1>2. \A i \in 1 .. Len(rs) : x \in Bytes(rs[i]) <=> x \in Int /\ rs[i][1] <= x /\ x < rs[i][2]
  BY OrderedFacts DEF Bytes
<1> QED
  BY <1>1, <1>2

(* A part of such a list is one, and two of them with a hole between.        *)
LEMMA PartOrdered ==
  ASSUME NEW rs, Ordered(rs), NEW m \in Int, NEW n \in Int, 1 <= m, m <= n + 1, n <= Len(rs)
  PROVE  LET q == SubSeq(rs, m, n) IN
         /\ Ordered(q) /\ Len(q) = n - m + 1
         /\ \A i \in 1 .. Len(q) : q[i] = rs[m + i - 1]
<1> DEFINE q == SubSeq(rs, m, n)
<1>1. /\ rs \in Seq(Pairs) /\ Len(rs) \in Nat
      /\ \A i \in 1 .. Len(rs) : rs[i] \in Pairs /\ rs[i][1] < rs[i][2]
      /\ \A i, j \in 1 .. Len(rs) : i < j => rs[i][2] < rs[j][1]
  BY OrderedFacts
<1>2. /\ q \in Seq(Pairs) /\ Len(q) = n - m + 1 /\ DOMAIN q = 1 .. (n - m + 1)
      /\ \A i \in 1 .. (n - m + 1) : q[i] = rs[m + i - 1]
  BY <1>1
<1> HIDE DEF q
<1>3. ASSUME NEW i \in DOMAIN q
      PROVE  q[i] = rs[m + i - 1] /\ m + i - 1 \in 1 .. Len(rs) /\ i \in Int
  BY <1>1, <1>2
<1>4. \A i \in DOMAIN q : q[i][1] < q[i][2]
  BY <1>1, <1>3
<1>5. ASSUME NEW i \in DOMAIN q, NEW j \in DOMAIN q, i < j
      PROVE  q[i][2] < q[j][1]
  <2>1. m + i - 1 < m + j - 1
    BY <1>3, <1>5
  <2> QED
    BY <1>1, <1>3, <2>1
<1>6. Ordered(q)
  BY <1>2, <1>4, <1>5 DEF Ordered
<1> QED
  BY <1>2, <1>6 DEF q

LEMMA JoinOrdered ==
  ASSUME NEW s, Ordered(s), NEW t, Ordered(t),
         \A i \in 1 .. Len(s), j \in 1 .. Len(t) : s[i][2] < t[j][1]
  PROVE  Ordered(s \o t) /\ AllBytes(s \o t) = AllBytes(s) \cup AllBytes(t)
<1> DEFINE c == s \o t
<1>1. /\ s \in Seq(Pairs) /\ Len(s) \in Nat /\ t \in Seq(Pairs) /\ Len(t) \in Nat
      /\ \A i \in 1 .. Len(s) : s[i] \in Pairs /\ s[i][1] < s[i][2]
      /\ \A i \in 1 .. Len(t) : t[i] \in Pairs /\ t[i][1] < t[i][2]
      /\ \A i, j \in 1 .. Len(s) : i < j => s[i][2] < s[j][1]
      /\ \A i, j \in 1 .. Len(t) : i < j => t[i][2] < t[j][1]
  BY OrderedFacts
<1>2. /\ c \in Seq(Pairs) /\ DOMAIN c = 1 .. (Len(s) + Len(t)) /\ Len(c) = Len(s) + Len(t)
      /\ \A i \in 1 .. Len(s) : c[i] = s[i]
      /\ \A i \in (Len(s) + 1) .. (Len(s) + Len(t)) : c[i] = t[i - Len(s)]
  BY <1>1
<1> HIDE DEF c
<1>3. \A i \in DOMAIN c :
        \/ i \in 1 .. Len(s) /\ c[i] = s[i]
        \/ i > Len(s) /\ i - Len(s) \in 1 .. Len(t) /\ c[i] = t[i - Len(s)]
  BY <1>1, <1>2
<1>4. \A i, j \in DOMAIN c : i < j => c[i][2] < c[j][1]
  <2>1. SUFFICES ASSUME NEW i \in DOMAIN c, NEW j \in DOMAIN c, i < j
                 PROVE  c[i][2] < c[j][1]
    OBVIOUS
  <2>2. i \in Int /\ j \in Int
    BY <1>2
  <2>3. CASE i \in 1 .. Len(s) /\ c[i] = s[i]
    BY <1>1, <1>3, <2>1, <2>2, <2>3
  <2>4. CASE i > Len(s) /\ i - Len(s) \in 1 .. Len(t) /\ c[i] = t[i - Len(s)]
    <3>1. j > Len(s) /\ j - Len(s) \in 1 .. Len(t) /\ c[j] = t[j - Len(s)]
      BY <1>1, <1>3, <2>1, <2>2, <2>4
    <3>2. i - Len(s) < j - Len(s)
      BY <1>1, <2>1, <2>2
    <3> QED
      BY <1>1, <2>4, <3>1, <3>2
  <2> QED
    BY <1>3, <2>3, <2>4
<1>5. Ordered(c)
  <2>1. \A i \in DOMAIN c : c[i][1] < c[i][2]
    BY <1>1, <1>3
  <2> QED
    BY <1>2, <1>4, <2>1 DEF Ordered
<1>6. AllBytes(c) = AllBytes(s) \cup AllBytes(t)
  <2>1. \A x : x \in AllBytes(c) => x \in AllBytes(s) \/ x \in AllBytes(t)
    BY <1>2, <1>3, <1>5, InAllBytes
  <2>2. \A x : x \in AllBytes(s) => x \in AllBytes(c)
    <3>1. \A i \in 1 .. Len(s) : i \in 1 .. Len(c)
      BY <1>1, <1>2
    <3> QED
      BY <1>2, <1>5, <3>1, InAllBytes
  <2>3. \A x : x \in AllBytes(t) => x \in AllBytes(c)
    <3>1. ASSUME NEW i \in 1 .. Len(t)
          PROVE  \E l \in 1 .. Len(c) : c[l] = t[i]
      <4>1. Len(s) + i \in (Len(s) + 1) .. (Len(s) + Len(t)) /\ Len(s) + i \in 1 .. Len(c)
            /\ (Len(s) + i) - Len(s) = i
        BY <1>1, <1>2
      <4> QED
        BY <1>2, <4>1
    <3> QED
      BY <1>5, <3>1, InAllBytes
  <2> QED
    BY <2>1, <2>2, <2>3
<1> QED
  BY <1>5, <1>6 DEF c

LEMMA OneOrdered ==
  ASSUME NEW r \in Pairs, r[1] < r[2]
  PROVE  Ordered(<<r>>) /\ AllBytes(<<r>>) = Bytes(r) /\ Len(<<r>>) = 1 /\ <<r>>[1] = r
<1>1. Len(<<r>>) = 1 /\ <<r>>[1] = r /\ DOMAIN <<r>> = {1} /\ <<r>> \in Seq(Pairs)
  OBVIOUS
<1>2. Ordered(<<r>>)
  BY <1>1 DEF Ordered
<1>3. AllBytes(<<r>>) = Bytes(r)
  BY <1>1 DEF AllBytes
<1> QED
  BY <1>1, <1>2, <1>3

-----------------------------------------------------------------------------
(* The recursion of Grown has one solution: a range that starts before all   *)
(* that follow keeps its start and takes the last end.                       *)
LEMMA GrownIs ==
  ASSUME NEW r \in Pairs, NEW rest, Ordered(rest), \A i \in 1 .. Len(rest) : r[1] <= rest[i][1]
  PROVE  Grown(r, rest) =
           [n \in 0 .. Len(rest) |-> IF n = 0 THEN r ELSE <<r[1], Upper(r[2], rest[n][2])>>]
<1> DEFINE L == Len(rest)
           g == [n \in 0 .. L |-> IF n = 0 THEN r ELSE <<r[1], Upper(r[2], rest[n][2])>>]
           D(h) == [n \in 0 .. L |-> IF n = 0 THEN r ELSE Merged(h[n - 1], rest[n])]
<1>1. /\ L \in Nat /\ r[1] \in Nat /\ r[2] \in Nat /\ r = <<r[1], r[2]>>
      /\ \A i \in 1 .. L : rest[i][1] \in Nat /\ rest[i][2] \in Nat /\ rest[i][1] < rest[i][2]
      /\ \A i, j \in 1 .. L : i < j => rest[i][2] < rest[j][1]
  BY OrderedFacts DEF Pairs
<1>2. ASSUME NEW n \in 1 .. L
      PROVE  Merged(g[n - 1], rest[n]) = g[n]
  <2>1. g[n] = <<r[1], Upper(r[2], rest[n][2])>>
    BY <1>1
  <2>2. CASE n = 1
    <3>1. g[n - 1] = r
      BY <2>2, <1>1
    <3> QED
      BY <1>1, <2>1, <3>1 DEF Merged, Lower, Upper
  <2>3. CASE n > 1
    <3>1. g[n - 1] = <<r[1], Upper(r[2], rest[n - 1][2])>> /\ n - 1 \in 1 .. L
      BY <2>3, <1>1
    <3>8. n - 1 < n /\ n - 1 \in 1 .. L /\ n \in 1 .. L
      BY <3>1
    <3>2. rest[n - 1][2] < rest[n][1] /\ rest[n - 1][2] \in Nat /\ rest[n][1] \in Nat /\ rest[n][2] \in Nat
          /\ rest[n][1] < rest[n][2] /\ r[1] <= rest[n][1]
      BY <1>1, <3>8
    <3> QED
      BY <1>1, <2>1, <3>1, <3>2 DEF Merged, Lower, Upper
  <2> QED
    BY <1>1, <2>2, <2>3
<1>3. g = D(g)
  <2>1. \A n \in 0 .. L : n # 0 => n \in 1 .. L
    BY <1>1
  <2>2. \A n \in 0 .. L : g[n] = (IF n = 0 THEN r ELSE Merged(g[n - 1], rest[n]))
    BY <1>2, <2>1
  <2> HIDE DEF L
  <2> QED
    BY <2>2
<1>4. ASSUME NEW h, h = D(h)
      PROVE  h = g
  <2> DEFINE T == {n \in 0 .. L : h[n] # g[n]}
  <2>1. ASSUME T # {}
        PROVE  FALSE
    <3>7. T \subseteq Nat
      BY <1>1
    <3>1. PICK x \in T : \A y \in T : x <= y
      BY <2>1, <3>7, LeastOf
    <3>2. x \in 0 .. L /\ h[x] # g[x]
      OBVIOUS
    <3>3. x # 0
      BY <1>4, <3>2
    <3>4. x \in 1 .. L /\ x - 1 \in 0 .. L /\ ~(x <= x - 1)
      BY <1>1, <3>2, <3>3
    <3>5. h[x - 1] = g[x - 1]
      BY <3>1, <3>4
    <3>6. h[x] = Merged(h[x - 1], rest[x])
      BY <1>4, <3>2, <3>3
    <3> QED
      BY <1>2, <3>2, <3>4, <3>5, <3>6
  <2>2. \A n \in 0 .. L : h[n] = g[n]
    BY <2>1
  <2>3. h = [n \in 0 .. L |-> h[n]]
    BY <1>4
  <2> QED
    BY <2>2, <2>3
<1>5. Grown(r, rest) = CHOOSE h : h = D(h)
  BY DEF Grown
<1> HIDE DEF D, g
<1>6. Grown(r, rest) = g
  BY <1>3, <1>4, <1>5
<1> QED
  BY <1>6 DEF g

(* The loop stops at a first place, from which on nothing is reached. *)
LEMMA LoopStops ==
  ASSUME NEW r \in Pairs, NEW rest, Ordered(rest)
  PROVE  \E n \in 0 .. Len(rest) : Stops(r, rest, n)
<1> DEFINE L == Len(rest)
           T == {n \in 0 .. L : n < L => ~Reaches(Grown(r, rest)[n], rest[n + 1])}
<1>1. L \in Nat
  BY OrderedFacts
<1>2. L \in T /\ T \subseteq Nat
  BY <1>1
<1>3. PICK n \in T : \A m \in T : n <= m
  BY <1>2, LeastOf
<1>4. ASSUME NEW i \in 1 .. n
      PROVE  Reaches(Grown(r, rest)[i - 1], rest[i])
  <2>1. i - 1 \in 0 .. L /\ i - 1 < L /\ ~(n <= i - 1) /\ (i - 1) + 1 = i
    BY <1>1
  <2>2. i - 1 \notin T
    BY <1>3, <2>1
  <2> QED
    BY <2>1, <2>2
<1> QED
  BY <1>4 DEF Stops

(* The loop over the ranges that follow leaves a list as it should be, with  *)
(* the bytes of both.                                                        *)
LEMMA AbsorbIs ==
  ASSUME NEW r \in Pairs, r[1] < r[2], NEW rest, Ordered(rest),
         \A i \in 1 .. Len(rest) : r[1] <= rest[i][1]
  PROVE  LET a == Absorb(r, rest) IN
         /\ Ordered(a) /\ AllBytes(a) = Bytes(r) \cup AllBytes(rest)
         /\ \A i \in 1 .. Len(a) : r[1] <= a[i][1]
<1> DEFINE L == Len(rest)
           n == CHOOSE n \in 0 .. L : Stops(r, rest, n)
           g == Grown(r, rest)[n]
           q == SubSeq(rest, n + 1, L)
<1>1. /\ L \in Nat /\ r[1] \in Nat /\ r[2] \in Nat /\ r = <<r[1], r[2]>>
      /\ \A i \in 1 .. L : rest[i][1] \in Nat /\ rest[i][2] \in Nat /\ rest[i][1] < rest[i][2]
      /\ \A i, j \in 1 .. L : i < j => rest[i][2] < rest[j][1]
  BY OrderedFacts DEF Pairs
<1>2. n \in 0 .. L /\ Stops(r, rest, n)
  BY LoopStops
<1> HIDE DEF n
<1>3. ASSUME NEW m \in 0 .. L
      PROVE  Grown(r, rest)[m] = IF m = 0 THEN r ELSE <<r[1], Upper(r[2], rest[m][2])>>
  <2>1. Grown(r, rest) = [x \in 0 .. L |-> IF x = 0 THEN r ELSE <<r[1], Upper(r[2], rest[x][2])>>]
    BY GrownIs
  <2> QED
    BY <2>1
<1>4. ASSUME NEW i \in 1 .. n
      PROVE  rest[i][1] <= r[2]
  <2>1. i \in 1 .. L /\ i - 1 \in 0 .. L
    BY <1>1, <1>2
  <2>2. rest[i][1] <= Grown(r, rest)[i - 1][2]
    <3>1. Reaches(Grown(r, rest)[i - 1], rest[i])
      BY <1>2 DEF Stops
    <3> QED
      BY <3>1 DEF Reaches
  <2>3. CASE i = 1
    <3>1. Grown(r, rest)[0] = r
      <4>1. 0 \in 0 .. L
        BY <1>1
      <4>2. Grown(r, rest)[0] = IF 0 = 0 THEN r ELSE <<r[1], Upper(r[2], rest[0][2])>>
        BY <1>3, <4>1, Zenon
      <4> QED
        BY <4>2
    <3>2. i - 1 = 0
      BY <2>3
    <3> QED
      BY <2>2, <2>3, <3>1, <3>2
  <2>4. CASE i # 1
    <3>1. i - 1 \in 1 .. L /\ i - 1 # 0 /\ i - 1 < i
      BY <1>1, <2>1, <2>4
    <3>2. Grown(r, rest)[i - 1] = <<r[1], Upper(r[2], rest[i - 1][2])>>
      BY <1>3, <2>1, <3>1
    <3>3. rest[i - 1][2] < rest[i][1]
      BY <1>1, <2>1, <3>1
    <3>4. rest[i - 1][2] \in Nat /\ rest[i][1] \in Nat
      BY <1>1, <2>1, <3>1
    <3>5. rest[i][1] <= Upper(r[2], rest[i - 1][2])
      BY <2>2, <3>2
    <3> QED
      BY <1>1, <3>3, <3>4, <3>5 DEF Upper
  <2> QED
    BY <2>3, <2>4
<1>5. /\ g \in Pairs /\ g = <<g[1], g[2]>> /\ g[1] = r[1] /\ g[2] \in Nat
      /\ g[2] = IF n = 0 THEN r[2] ELSE Upper(r[2], rest[n][2])
      /\ r[2] <= g[2]
  <2>1. CASE n = 0
    <3>1. g = r
      BY <1>2, <1>3, <2>1
    <3> QED
      BY <1>1, <2>1, <3>1
  <2>2. CASE n # 0
    <3>3. n \in 0 .. L /\ n \in 1 .. L
      BY <1>1, <1>2, <2>2
    <3>1. g = <<r[1], Upper(r[2], rest[n][2])>> /\ n \in 1 .. L
      BY <1>3, <2>2, <3>3
    <3>2. Upper(r[2], rest[n][2]) \in Nat /\ r[2] <= Upper(r[2], rest[n][2])
      BY <1>1, <3>1 DEF Upper
    <3> QED
      BY <1>1, <2>2, <3>1, <3>2 DEF Pairs
  <2> QED
    BY <2>1, <2>2
<1> HIDE DEF g
<1>6. /\ Ordered(q) /\ Len(q) = L - n
      /\ \A i \in 1 .. Len(q) : q[i] = rest[n + 1 + i - 1]
  <2>1. n + 1 \in Int /\ L \in Int /\ 1 <= n + 1 /\ n + 1 <= L + 1 /\ L <= Len(rest)
        /\ L - (n + 1) + 1 = L - n
    BY <1>1, <1>2
  <2> QED
    BY <2>1, PartOrdered
<1>7. \A i \in 1 .. Len(q) : n + i \in 1 .. L /\ n + i > n /\ q[i] = rest[n + i]
  <2>1. ASSUME NEW i \in 1 .. Len(q)
        PROVE  n + i \in 1 .. L /\ n + i > n /\ n + 1 + i - 1 = n + i
    <3>1. n \in 0 .. L /\ L \in Nat /\ i \in 1 .. (L - n)
      BY <1>1, <1>2, <1>6
    <3> QED
      BY <3>1
  <2> QED
    BY <1>6, <2>1
<1>8. \A i \in 1 .. L : i > n => i - n \in 1 .. Len(q) /\ q[i - n] = rest[i]
  <2>1. ASSUME NEW i \in 1 .. L, i > n
        PROVE  i - n \in 1 .. Len(q) /\ n + 1 + (i - n) - 1 = i
    BY <1>1, <1>2, <1>6, <2>1
  <2> QED
    BY <1>6, <2>1
<1>9. \A i \in 1 .. L : i > n => g[2] < rest[i][1]
  <2>1. SUFFICES ASSUME NEW i \in 1 .. L, i > n
                 PROVE  g[2] < rest[i][1]
    OBVIOUS
  <2>2. n < L /\ n + 1 \in 1 .. L /\ (n + 1 = i \/ n + 1 < i)
    BY <1>1, <1>2, <2>1
  <2>3. ~(rest[n + 1][1] <= g[2])
    BY <1>2, <2>2 DEF Stops, Reaches, g
  <2>4. rest[n + 1][1] <= rest[i][1] /\ rest[n + 1][1] \in Nat /\ rest[i][1] \in Nat
    BY <1>1, <2>2
  <2> QED
    BY <1>5, <2>3, <2>4
<1> HIDE DEF q
<1>10. /\ Ordered(<<g>>) /\ AllBytes(<<g>>) = Bytes(g) /\ Len(<<g>>) = 1 /\ <<g>>[1] = g
  <2>1. g[1] < g[2]
    BY <1>1, <1>5
  <2> QED
    BY <1>5, <2>1, OneOrdered
<1>11. Ordered(<<g>> \o q) /\ AllBytes(<<g>> \o q) = Bytes(g) \cup AllBytes(q)
  <2>1. \A i \in 1 .. Len(<<g>>), j \in 1 .. Len(q) : <<g>>[i][2] < q[j][1]
    <3>1. \A i \in 1 .. Len(<<g>>) : i = 1
      BY <1>10
    <3> QED
      BY <1>7, <1>9, <1>10, <3>1
  <2> QED
    BY <1>6, <1>10, <2>1, JoinOrdered
<1>12. Bytes(g) \cup AllBytes(q) = Bytes(r) \cup AllBytes(rest)
  <2>1. \A x : x \in Bytes(r) <=> x \in Int /\ r[1] <= x /\ x < r[2]
    BY <1>1 DEF Bytes
  <2>2. \A x : x \in Bytes(g) <=> x \in Int /\ r[1] <= x /\ x < g[2]
    BY <1>1, <1>5 DEF Bytes
  <2>3. ASSUME NEW x \in Bytes(g)
        PROVE  x \in Bytes(r) \cup AllBytes(rest)
    <3>1. CASE x < r[2]
      BY <2>1, <2>2, <3>1
    <3>2. CASE ~(x < r[2])
      <4>1. n \in 1 .. n /\ n \in 1 .. L /\ n # 0
        BY <1>1, <1>2, <1>5, <2>2, <3>2
      <4>2. rest[n][1] <= r[2]
        BY <1>4, <4>1
      <4>3. x < rest[n][2]
        BY <1>1, <1>5, <2>2, <3>2, <4>1 DEF Upper
      <4>4. rest[n][1] <= x /\ x \in Int
        BY <1>1, <2>2, <3>2, <4>1, <4>2
      <4> QED
        BY <4>1, <4>3, <4>4, InAllBytes
    <3> QED
      BY <3>1, <3>2
  <2>4. ASSUME NEW x \in AllBytes(q)
        PROVE  x \in AllBytes(rest)
    BY <1>6, <1>7, InAllBytes
  <2>5. ASSUME NEW x \in Bytes(r)
        PROVE  x \in Bytes(g)
    BY <1>1, <1>5, <2>1, <2>2
  <2>6. ASSUME NEW x \in AllBytes(rest)
        PROVE  x \in Bytes(g) \cup AllBytes(q)
    <3>1. PICK i \in 1 .. L : x \in Int /\ rest[i][1] <= x /\ x < rest[i][2]
      BY InAllBytes
    <3>2. CASE i > n
      BY <1>6, <1>8, <3>1, <3>2, InAllBytes
    <3>3. CASE ~(i > n)
      <4>1. n # 0 /\ n \in 1 .. L /\ (i = n \/ i < n)
        BY <1>1, <1>2, <3>3
      <4>2. rest[i][2] <= rest[n][2] /\ rest[n][2] \in Nat /\ rest[i][2] \in Nat
        BY <1>1, <4>1
      <4>3. rest[n][2] <= g[2]
        BY <1>1, <1>5, <4>1 DEF Upper
      <4>4. r[1] <= rest[i][1] /\ rest[i][1] \in Nat
        BY <1>1
      <4> QED
        BY <1>1, <1>5, <2>2, <3>1, <4>2, <4>3, <4>4
    <3> QED
      BY <3>2, <3>3
  <2> QED
    BY <2>3, <2>4, <2>5, <2>6
<1>13. Absorb(r, rest) = <<g>> \o q
  BY DEF Absorb, g, q, n
<1>14. \A i \in 1 .. Len(<<g>> \o q) : r[1] <= (<<g>> \o q)[i][1]
  <2> DEFINE a == <<g>> \o q
  <2>1. q \in Seq(Pairs) /\ Len(q) \in Nat
    BY <1>6, OrderedFacts
  <2>2. Len(a) = 1 + Len(q) /\ a[1] = g /\ \A i \in 2 .. (1 + Len(q)) : a[i] = q[i - 1]
    BY <1>5, <2>1
  <2> HIDE DEF a
  <2>3. ASSUME NEW i \in 1 .. Len(a)
        PROVE  r[1] <= a[i][1]
    <3>1. CASE i = 1
      BY <1>1, <1>5, <2>2, <3>1
    <3>2. CASE i # 1
      <4>1. i \in 2 .. (1 + Len(q)) /\ i - 1 \in 1 .. Len(q)
        BY <2>1, <2>2, <3>2
      <4>2. a[i] = rest[n + (i - 1)] /\ n + (i - 1) \in 1 .. L
        BY <1>7, <2>2, <4>1
      <4> QED
        BY <4>2
    <3> QED
      BY <3>1, <3>2
  <2> QED
    BY <2>3 DEF a
<1> QED
  BY <1>11, <1>12, <1>13, <1>14

(* bisect_left divides the list at the start of the new range. *)
LEMMA BeforeIs ==
  ASSUME NEW rs, Ordered(rs), NEW r \in Pairs
  PROVE  /\ Before(rs, r) \in 0 .. Len(rs)
         /\ \A i \in 1 .. Before(rs, r) : rs[i][1] <= r[1]
         /\ \A i \in 1 .. Len(rs) : i > Before(rs, r) => r[1] <= rs[i][1]
<1> DEFINE L == Len(rs)
           B == {i \in 1 .. L : rs[i][1] < r[1] \/ (rs[i][1] = r[1] /\ rs[i][2] < r[2])}
           T == {n \in 0 .. L : n + 1 \notin B}
<1>1. /\ L \in Nat /\ r[1] \in Nat /\ r[2] \in Nat /\ DOMAIN rs = 1 .. L
      /\ \A i \in 1 .. L : rs[i][1] \in Nat /\ rs[i][2] \in Nat /\ rs[i][1] < rs[i][2]
      /\ \A i, j \in 1 .. L : i < j => rs[i][2] < rs[j][1]
  BY OrderedFacts DEF Pairs
<1>2. ASSUME NEW j \in B, NEW i \in 1 .. L, i < j
      PROVE  i \in B
  <2>1. j \in 1 .. L /\ rs[j][1] <= r[1]
    BY <1>1
  <2>2. rs[i][1] < rs[j][1]
    BY <1>1, <1>2, <2>1
  <2>3. rs[i][1] < r[1]
    BY <1>1, <2>1, <2>2
  <2> QED
    BY <2>3
<1>3. L \in T /\ T \subseteq Nat
  BY <1>1
<1>4. PICK m \in T : \A n \in T : m <= n
  BY <1>3, LeastOf
<1>5. m \in 0 .. L /\ m + 1 \notin B
  OBVIOUS
<1>6. B = 1 .. m
  <2>1. ASSUME NEW i \in 1 .. m
        PROVE  i \in B
    <3>1. i - 1 \in 0 .. L /\ ~(m <= i - 1) /\ (i - 1) + 1 = i
      BY <1>1, <1>5
    <3> QED
      BY <1>4, <3>1
  <2>2. ASSUME NEW i \in B
        PROVE  i \in 1 .. m
    <3>1. i \in 1 .. L
      OBVIOUS
    <3>2. i > m => m + 1 \in 1 .. L /\ (i = m + 1 \/ m + 1 < i)
      BY <1>1, <1>5, <3>1
    <3>3. ~(i > m)
      BY <1>2, <1>5, <3>2
    <3> QED
      BY <1>1, <1>5, <3>1, <3>3
  <2> HIDE DEF B
  <2> QED
    BY <2>1, <2>2
<1>7. Before(rs, r) = m
  <2>1. Before(rs, r) = Cardinality(B)
    <3>1. DOMAIN rs = 1 .. L
      BY <1>1
    <3> QED
      BY <3>1 DEF Before
  <2>2. Cardinality(1 .. m) = IF 1 > m THEN 0 ELSE m - 1 + 1
    BY <1>5, FS_Interval
  <2> HIDE DEF B
  <2> QED
    BY <1>5, <1>6, <2>1, <2>2
<1>8. \A i \in 1 .. m : rs[i][1] <= r[1]
  <2>1. \A i \in B : rs[i][1] <= r[1]
    BY <1>1
  <2> QED
    BY <1>6, <2>1
<1>9. ASSUME NEW i \in 1 .. L, i > m
      PROVE  r[1] <= rs[i][1]
  <2>1. i \notin B
    BY <1>5, <1>6, <1>9
  <2> QED
    BY <1>1, <2>1
<1> QED
  BY <1>5, <1>7, <1>8, <1>9

(* _add_range adds the bytes of the new range and none else, and leaves the  *)
(* list as it should be.                                                     *)
LEMMA AddRangeIs ==
  ASSUME NEW rs, Ordered(rs), NEW r \in Pairs, r[1] < r[2]
  PROVE  Ordered(AddRange(rs, r)) /\ AllBytes(AddRange(rs, r)) = AllBytes(rs) \cup Bytes(r)
<1> DEFINE L == Len(rs)
           b == Before(rs, r)
           back == b > 0 /\ Touches(rs[b], r)
           e == IF back THEN b - 1 ELSE b
           kept == SubSeq(rs, 1, e)
           g == IF back THEN Merged(r, rs[b]) ELSE r
           rest == SubSeq(rs, b + 1, L)
           a == Absorb(g, rest)
<1>1. /\ L \in Nat /\ r[1] \in Nat /\ r[2] \in Nat /\ r = <<r[1], r[2]>>
      /\ \A i \in 1 .. L : rs[i][1] \in Nat /\ rs[i][2] \in Nat /\ rs[i][1] < rs[i][2]
      /\ \A i, j \in 1 .. L : i < j => rs[i][2] < rs[j][1]
  BY OrderedFacts DEF Pairs
<1>2. /\ b \in 0 .. L
      /\ \A i \in 1 .. b : rs[i][1] <= r[1]
      /\ \A i \in 1 .. L : i > b => r[1] <= rs[i][1]
  BY BeforeIs
<1>3. AddRange(rs, r) = kept \o a
  BY DEF AddRange
<1> HIDE DEF b
<1>4. e \in 0 .. L /\ e <= b /\ (back => e = b - 1 /\ b \in 1 .. L) /\ (~back => e = b)
  BY <1>1, <1>2
(* What the list is divided into. *)
<1>5. /\ Ordered(kept) /\ Len(kept) = e
      /\ \A i \in 1 .. e : kept[i] = rs[i]
  <2>1. /\ Ordered(kept) /\ Len(kept) = e - 1 + 1
        /\ \A i \in 1 .. Len(kept) : kept[i] = rs[1 + i - 1]
    <3>1. 1 \in Int /\ e \in Int /\ 1 <= 1 /\ 1 <= e + 1 /\ e <= Len(rs)
      BY <1>1, <1>4
    <3> HIDE DEF e
    <3> QED
      BY <3>1, PartOrdered
  <2>2. e - 1 + 1 = e /\ \A i \in 1 .. e : 1 + i - 1 = i
    BY <1>4
  <2> QED
    BY <2>1, <2>2
<1>6. /\ Ordered(rest) /\ Len(rest) = L - b
      /\ \A i \in 1 .. (L - b) : rest[i] = rs[b + i]
  <2>1. /\ Ordered(rest) /\ Len(rest) = L - (b + 1) + 1
        /\ \A i \in 1 .. Len(rest) : rest[i] = rs[(b + 1) + i - 1]
    <3>1. b + 1 \in Int /\ L \in Int /\ 1 <= b + 1 /\ b + 1 <= L + 1 /\ L <= Len(rs)
      BY <1>1, <1>2
    <3> QED
      BY <3>1, PartOrdered
  <2>2. L - (b + 1) + 1 = L - b /\ \A i \in 1 .. (L - b) : (b + 1) + i - 1 = b + i
    BY <1>1, <1>2
  <2> QED
    BY <2>1, <2>2
<1> HIDE DEF e, kept, rest
(* What the range grows to first, backwards. *)
<1>7. /\ g \in Pairs /\ g[1] < g[2]
      /\ Bytes(g) = IF back THEN Bytes(r) \cup Bytes(rs[b]) ELSE Bytes(r)
      /\ \A i \in 1 .. e : rs[i][2] < g[1]
      /\ \A i \in 1 .. L : i > b => g[1] <= rs[i][1]
  <2>1. CASE back
    <3>1. /\ b \in 1 .. L /\ rs[b][1] <= r[1] /\ r[1] <= rs[b][2]
      BY <1>1, <1>2, <1>4, <2>1 DEF Touches
    <3>2. rs[b][1] \in Nat /\ rs[b][2] \in Nat /\ rs[b][1] < rs[b][2]
      BY <1>1, <3>1
    <3>3. g = <<rs[b][1], Upper(r[2], rs[b][2])>>
      BY <1>1, <2>1, <3>1, <3>2 DEF Merged, Lower
    <3>4. Upper(r[2], rs[b][2]) \in Nat /\ r[2] <= Upper(r[2], rs[b][2]) /\ rs[b][2] <= Upper(r[2], rs[b][2])
          /\ (Upper(r[2], rs[b][2]) = r[2] \/ Upper(r[2], rs[b][2]) = rs[b][2])
      BY <1>1, <3>2 DEF Upper
    <3>5. g[1] = rs[b][1] /\ g[2] = Upper(r[2], rs[b][2])
      BY <3>3
    <3>6. Bytes(g) = Bytes(r) \cup Bytes(rs[b])
      <4> HIDE DEF g
      <4> QED
        <5>1. ASSUME NEW x \in Int
              PROVE  /\ x \in Bytes(g) <=> g[1] <= x /\ x < g[2]
                     /\ x \in Bytes(r) <=> r[1] <= x /\ x < r[2]
                     /\ x \in Bytes(rs[b]) <=> rs[b][1] <= x /\ x < rs[b][2]
          BY <1>1, <3>2, <3>4, <3>5 DEF Bytes
        <5>2. Bytes(g) \subseteq Int /\ Bytes(r) \subseteq Int /\ Bytes(rs[b]) \subseteq Int
          BY DEF Bytes
        <5>3. ASSUME NEW x \in Int
              PROVE  x \in Bytes(g) <=> x \in Bytes(r) \/ x \in Bytes(rs[b])
          BY <1>1, <3>1, <3>2, <3>4, <3>5, <5>1
        <5>4. \A x : x \in Bytes(g) <=> x \in Bytes(r) \cup Bytes(rs[b])
          BY <5>2, <5>3
        <5> QED
          BY <5>4, Zenon
    <3>7. \A i \in 1 .. e : rs[i][2] < rs[b][1]
      <4>1. e = b - 1 /\ b \in 1 .. L
        BY <1>4, <2>1
      <4>2. \A i \in 1 .. e : i \in 1 .. L /\ i < b
        BY <1>1, <4>1
      <4> QED
        BY <1>1, <3>1, <4>2
    <3>8. \A i \in 1 .. L : i > b => rs[b][1] <= rs[i][1]
      BY <1>1, <3>1, <3>2
    <3>9. g \in Pairs
      BY <3>2, <3>3, <3>4 DEF Pairs
    <3> HIDE DEF g
    <3> QED
      BY <2>1, <3>2, <3>4, <3>5, <3>6, <3>7, <3>8, <3>9
  <2>2. CASE ~back
    <3>1. g = r /\ e = b
      BY <1>4, <2>2
    <3>2. ASSUME NEW i \in 1 .. e
          PROVE  rs[i][2] < r[1]
      <4>1. b > 0 /\ b \in 1 .. L /\ i \in 1 .. L /\ (i = b \/ i < b)
        BY <1>1, <1>2, <3>1
      <4>2. rs[b][2] < r[1]
        BY <1>1, <2>2, <4>1 DEF Touches
      <4>3. rs[i][2] <= rs[b][2] /\ rs[i][2] \in Nat /\ rs[b][2] \in Nat
        BY <1>1, <4>1
      <4> QED
        BY <1>1, <4>2, <4>3
    <3> QED
      BY <1>1, <1>2, <2>2, <3>1, <3>2
  <2> QED
    BY <2>1, <2>2
<1>8. /\ Ordered(a) /\ AllBytes(a) = Bytes(g) \cup AllBytes(rest)
      /\ \A i \in 1 .. Len(a) : g[1] <= a[i][1]
  <2>1. ASSUME NEW i \in 1 .. Len(rest)
        PROVE  g[1] <= rest[i][1]
    <3>1. b + i \in 1 .. L /\ b + i > b /\ i \in 1 .. (L - b)
      BY <1>1, <1>2, <1>6
    <3> HIDE DEF g
    <3> QED
      BY <1>6, <1>7, <3>1
  <2> HIDE DEF g
  <2> QED
    BY <1>6, <1>7, <2>1, AbsorbIs
<1> HIDE DEF g, a
<1>9. Ordered(kept \o a) /\ AllBytes(kept \o a) = AllBytes(kept) \cup AllBytes(a)
  <2>1. ASSUME NEW i \in 1 .. Len(kept), NEW j \in 1 .. Len(a)
        PROVE  kept[i][2] < a[j][1]
    <3>1. kept[i] = rs[i] /\ rs[i][2] < g[1] /\ g[1] <= a[j][1] /\ i \in 1 .. L
      BY <1>1, <1>4, <1>5, <1>7, <1>8
    <3>2. rs[i][2] \in Nat /\ g[1] \in Nat /\ a[j][1] \in Nat
      BY <1>1, <1>7, <1>8, <3>1, OrderedFacts DEF Pairs
    <3> QED
      BY <3>1, <3>2
  <2> QED
    BY <1>5, <1>8, <2>1, JoinOrdered
<1>10. AllBytes(kept) \cup AllBytes(a) = AllBytes(rs) \cup Bytes(r)
  <2>1. \A x \in AllBytes(kept) : x \in AllBytes(rs)
    <3>1. \A i \in 1 .. e : i \in 1 .. L
      BY <1>1, <1>4
    <3> QED
      BY <1>5, <3>1, InAllBytes
  <2>2. \A x \in AllBytes(rest) : x \in AllBytes(rs)
    <3>1. \A i \in 1 .. (L - b) : b + i \in 1 .. L
      BY <1>1, <1>2
    <3> QED
      BY <1>6, <3>1, InAllBytes
  <2>3. back => \A x \in Bytes(rs[b]) : x \in AllBytes(rs)
    <3>1. back => b \in DOMAIN rs
      BY <1>4, OrderedFacts
    <3> QED
      BY <3>1 DEF AllBytes
  <2>4. ASSUME NEW x \in AllBytes(rs)
        PROVE  x \in AllBytes(kept) \cup AllBytes(rest) \cup Bytes(g)
    <3>1. PICK i \in 1 .. L : x \in Int /\ rs[i][1] <= x /\ x < rs[i][2]
      BY InAllBytes
    <3>2. CASE i \in 1 .. e
      BY <1>5, <3>1, <3>2, InAllBytes
    <3>3. CASE i > b
      <4>1. i - b \in 1 .. (L - b) /\ b + (i - b) = i
        BY <1>1, <1>2, <3>3
      <4> QED
        BY <1>6, <3>1, <4>1, InAllBytes
    <3>4. CASE i = b /\ back
      <4>1. x \in Bytes(rs[b])
        BY <1>1, <3>1, <3>4 DEF Bytes
      <4> QED
        BY <1>7, <3>4, <4>1
    <3> QED
      BY <1>1, <1>2, <1>4, <3>2, <3>3, <3>4
  <2> HIDE DEF back
  <2> QED
    BY <1>7, <1>8, <2>1, <2>2, <2>3, <2>4
<1> QED
  BY <1>3, <1>9, <1>10

-----------------------------------------------------------------------------
(* The recursion of Covered has one solution for such a list: the first      *)
(* range counts as contiguous if it starts at 0, and each other is a piece.  *)
LEMMA CoveredIs ==
  ASSUME NEW rs, Ordered(rs)
  PROVE  Coverage(rs) =
           IF rs # <<>> /\ rs[1][1] = 0 THEN [contiguous |-> rs[1][2], gaps |-> Len(rs) - 1]
           ELSE [contiguous |-> 0, gaps |-> Len(rs)]
<1> DEFINE L == Len(rs)
           Z == rs[1][1] = 0
           C(n) == IF n # 0 /\ Z THEN rs[1][2] ELSE 0
           G(n) == IF n # 0 /\ Z THEN n - 1 ELSE n
           g == [n \in 0 .. L |-> [contiguous |-> C(n), gaps |-> G(n)]]
           Then(c, n) == IF Hole(rs[n][1], c.contiguous) THEN [c EXCEPT !.gaps = @ + 1]
                          ELSE [c EXCEPT !.contiguous = Upper(@, rs[n][2])]
           D(h) == [n \in 0 .. L |-> IF n = 0 THEN [contiguous |-> 0, gaps |-> 0] ELSE Then(h[n - 1], n)]
<1>1. /\ L \in Nat
      /\ \A i \in 1 .. L : rs[i][1] \in Nat /\ rs[i][2] \in Nat /\ rs[i][1] < rs[i][2]
      /\ \A i, j \in 1 .. L : i < j => rs[i][2] < rs[j][1]
  BY OrderedFacts
<1>2. ASSUME NEW n \in 1 .. L
      PROVE  Then(g[n - 1], n) = g[n]
  <2>1. /\ n - 1 \in 0 .. L /\ n \in 0 .. L /\ 1 \in 1 .. L /\ n # 0
        /\ g[n - 1] = [contiguous |-> C(n - 1), gaps |-> G(n - 1)]
        /\ g[n] = [contiguous |-> C(n), gaps |-> G(n)]
    <3>1. n - 1 \in 0 .. L /\ n \in 0 .. L /\ 1 \in 1 .. L /\ n # 0
      BY <1>1
    <3> HIDE DEF C, G, L
    <3> QED
      BY <3>1
  <2>2. C(n) \in Nat /\ C(n - 1) \in Nat /\ G(n) \in Int /\ G(n - 1) \in Int
    BY <1>1, <2>1
  <2>3. /\ Hole(rs[n][1], C(n - 1)) => C(n) = C(n - 1) /\ G(n) = G(n - 1) + 1
        /\ ~Hole(rs[n][1], C(n - 1)) => C(n) = Upper(C(n - 1), rs[n][2]) /\ G(n) = G(n - 1)
    <3>1. CASE n = 1
      <4>1. C(n - 1) = 0 /\ G(n - 1) = 0 /\ C(n) = (IF Z THEN rs[1][2] ELSE 0) /\ G(n) = (IF Z THEN 0 ELSE 1)
        BY <3>1
      <4>2. rs[1][1] \in Nat /\ rs[1][2] \in Nat /\ rs[1][1] < rs[1][2]
        BY <1>1, <2>1
      <4> QED
        BY <3>1, <4>1, <4>2 DEF Hole, Upper
    <3>2. CASE n # 1
      <4>1. n - 1 # 0 /\ 1 < n
        BY <3>2
      <4>2. rs[1][2] < rs[n][1] /\ rs[1][2] \in Nat /\ rs[n][1] \in Nat
        BY <1>1, <2>1, <4>1
      <4>3. C(n) = C(n - 1) /\ G(n) = G(n - 1) + 1
        BY <1>1, <2>1, <4>1
      <4>4. C(n - 1) = rs[1][2] \/ C(n - 1) = 0
        OBVIOUS
      <4> HIDE DEF C, G
      <4> QED
        BY <4>2, <4>3, <4>4 DEF Hole
    <3> QED
      BY <3>1, <3>2
  <2> HIDE DEF C, G, g
  <2> QED
    BY <2>1, <2>2, <2>3
<1> HIDE DEF C, G, Z
<1>3. g = D(g)
  <2>1. \A n \in 0 .. L : n # 0 => n \in 1 .. L
    BY <1>1
  <2>2. g[0] = [contiguous |-> 0, gaps |-> 0]
    BY <1>1 DEF C, G
  <2>3. \A n \in 0 .. L : g[n] = (IF n = 0 THEN [contiguous |-> 0, gaps |-> 0] ELSE Then(g[n - 1], n))
    <3> HIDE DEF g, Then
    <3> QED
      BY <1>2, <2>1, <2>2
  <2>4. g = [n \in 0 .. L |-> g[n]]
    OBVIOUS
  <2> HIDE DEF L, g, Then
  <2> QED
    BY <2>3, <2>4
<1>4. ASSUME NEW h, h = D(h)
      PROVE  h = g
  <2> DEFINE T == {n \in 0 .. L : h[n] # g[n]}
  <2>1. ASSUME T # {}
        PROVE  FALSE
    <3>1. T \subseteq Nat
      BY <1>1
    <3>2. PICK x \in T : \A y \in T : x <= y
      BY <2>1, <3>1, LeastOf
    <3>3. x \in 0 .. L /\ h[x] # g[x]
      OBVIOUS
    <3> HIDE DEF Then
    <3>4. x # 0
      <4>1. 0 \in 0 .. L
        BY <1>1
      <4> QED
        BY <1>3, <1>4, <3>3, <4>1
    <3>5. x \in 1 .. L /\ x - 1 \in 0 .. L /\ ~(x <= x - 1)
      BY <1>1, <3>3, <3>4
    <3>6. h[x - 1] = g[x - 1]
      BY <3>2, <3>5
    <3>7. h[x] = Then(h[x - 1], x)
      BY <1>4, <3>3, <3>4
    <3> HIDE DEF g
    <3> QED
      BY <1>2, <3>3, <3>5, <3>6, <3>7
  <2>2. \A n \in 0 .. L : h[n] = g[n]
    BY <2>1
  <2>3. h = [n \in 0 .. L |-> h[n]]
    BY <1>4
  <2> QED
    BY <2>2, <2>3
<1>5. Covered(rs) = CHOOSE h : h = D(h)
  BY DEF Covered
<1>6. Covered(rs) = g
  <2> HIDE DEF D, g
  <2> QED
    BY <1>3, <1>4, <1>5
<1>7. Coverage(rs) = [contiguous |-> C(L), gaps |-> G(L)]
  BY <1>1, <1>6 DEF Coverage
<1>8. L = 0 <=> rs = <<>>
  BY OrderedFacts
<1> QED
  BY <1>7, <1>8 DEF C, G, Z

(* A piece of the bytes written starts where a range does. *)
LEMMA StartsAre ==
  ASSUME NEW rs, Ordered(rs), NEW o
  PROVE  (o \in AllBytes(rs) /\ o - 1 \notin AllBytes(rs)) <=> \E i \in 1 .. Len(rs) : o = rs[i][1]
<1>1. /\ Len(rs) \in Nat
      /\ \A i \in 1 .. Len(rs) : rs[i][1] \in Nat /\ rs[i][2] \in Nat /\ rs[i][1] < rs[i][2]
      /\ \A i, j \in 1 .. Len(rs) : i < j => rs[i][2] < rs[j][1]
  BY OrderedFacts
<1>2. ASSUME o \in AllBytes(rs), o - 1 \notin AllBytes(rs)
      PROVE  \E i \in 1 .. Len(rs) : o = rs[i][1]
  <2>1. PICK i \in 1 .. Len(rs) : o \in Int /\ rs[i][1] <= o /\ o < rs[i][2]
    BY <1>2, InAllBytes
  <2>2. ~(o - 1 \in Int /\ rs[i][1] <= o - 1 /\ o - 1 < rs[i][2])
    BY <1>2, InAllBytes
  <2> QED
    BY <1>1, <2>1, <2>2
<1>3. ASSUME NEW i \in 1 .. Len(rs), o = rs[i][1]
      PROVE  o \in AllBytes(rs) /\ o - 1 \notin AllBytes(rs)
  <2>1. o \in AllBytes(rs)
    BY <1>1, <1>3, InAllBytes
  <2>2. ASSUME NEW j \in 1 .. Len(rs), rs[j][1] <= o - 1, o - 1 < rs[j][2]
        PROVE  FALSE
    <3>1. i = j \/ i < j \/ j < i
      OBVIOUS
    <3>2. CASE i = j
      BY <1>1, <1>3, <2>2, <3>2
    <3>3. CASE i < j
      <4>1. rs[i][2] < rs[j][1] /\ rs[i][1] < rs[i][2]
        BY <1>1, <3>3
      <4> QED
        BY <1>1, <1>3, <2>2, <4>1
    <3>4. CASE j < i
      <4>1. rs[j][2] < rs[i][1]
        BY <1>1, <3>4
      <4> QED
        BY <1>1, <1>3, <2>2, <4>1
    <3> QED
      BY <3>1, <3>2, <3>3, <3>4
  <2> QED
    BY <2>1, <2>2, InAllBytes
<1> QED
  BY <1>2, <1>3

(* As many ranges as start behind 0, so many pieces.                         *)
LEMMA PiecesAre ==
  ASSUME NEW rs, Ordered(rs)
  PROVE  Cardinality({rs[i][1] : i \in 1 .. Len(rs)} \ {0})
           = IF rs # <<>> /\ rs[1][1] = 0 THEN Len(rs) - 1 ELSE Len(rs)
<1> DEFINE L == Len(rs)
           S == {rs[i][1] : i \in 1 .. L} \ {0}
           d == IF rs # <<>> /\ rs[1][1] = 0 THEN 1 ELSE 0
           f == [i \in 1 .. (L - d) |-> rs[i + d][1]]
<1>1. /\ L \in Nat /\ (rs # <<>> <=> L > 0)
      /\ \A i \in 1 .. L : rs[i][1] \in Nat /\ rs[i][2] \in Nat /\ rs[i][1] < rs[i][2]
      /\ \A i, j \in 1 .. L : i < j => rs[i][2] < rs[j][1]
  BY OrderedFacts
<1>2. L - d \in Nat /\ d \in {0, 1}
  BY <1>1
<1>3. ASSUME NEW i \in 1 .. L, NEW j \in 1 .. L, i < j
      PROVE  rs[i][1] < rs[j][1]
  <2>1. rs[i][1] < rs[i][2] /\ rs[i][2] < rs[j][1]
    BY <1>1, <1>3
  <2> QED
    BY <1>1, <2>1
<1>4. ASSUME NEW i \in 1 .. L
      PROVE  rs[i][1] # 0 <=> i > d
  <2>1. CASE i = 1
    BY <1>1, <2>1
  <2>2. CASE i # 1
    <3>1. 1 \in 1 .. L /\ 1 < i
      BY <1>1, <2>2
    <3>2. rs[1][1] < rs[i][1] /\ rs[1][1] \in Nat /\ rs[i][1] \in Nat
      BY <1>1, <1>3, <3>1
    <3> QED
      BY <1>2, <2>2, <3>1, <3>2
  <2> QED
    BY <2>1, <2>2
<1> HIDE DEF d
<1>5. ASSUME NEW i \in 1 .. (L - d)
      PROVE  i + d \in 1 .. L /\ i + d > d /\ f[i] = rs[i + d][1] /\ f[i] \in S
  <2>1. i + d \in 1 .. L /\ i + d > d
    BY <1>1, <1>2
  <2> QED
    BY <1>4, <2>1
<1>6. f \in [1 .. (L - d) -> S]
  BY <1>5
<1>7. ASSUME NEW i \in 1 .. (L - d), NEW j \in 1 .. (L - d), f[i] = f[j]
      PROVE  i = j
  <2>1. ~(i + d < j + d) /\ ~(j + d < i + d)
    BY <1>1, <1>3, <1>5, <1>7
  <2> QED
    BY <1>2, <2>1
<1>8. ASSUME NEW s \in S
      PROVE  \E i \in 1 .. (L - d) : f[i] = s
  <2>1. PICK i \in 1 .. L : s = rs[i][1]
    OBVIOUS
  <2>2. i > d
    BY <1>4, <2>1
  <2>3. i - d \in 1 .. (L - d) /\ (i - d) + d = i
    BY <1>1, <1>2, <2>2
  <2> QED
    BY <1>5, <2>1, <2>3
<1> HIDE DEF f, S
<1>9. f \in Bijection(1 .. (L - d), S)
  BY <1>6, <1>7, <1>8 DEF Bijection, Injection, Surjection, IsInjective
<1>10. Cardinality(S) = L - d
  BY <1>2, <1>9, FS_CountingElements DEF ExistsBijection
<1> QED
  BY <1>1, <1>10 DEF S, d

-----------------------------------------------------------------------------
SparseInv == Ordered(ranges) /\ written = AllBytes(ranges)

LEMMA SparseStart == SparseInit => SparseInv
<1> SUFFICES ASSUME SparseInit
             PROVE  SparseInv
  OBVIOUS
<1>1. ranges = <<>> /\ DOMAIN ranges = {} /\ ranges \in Seq(Pairs) /\ written = {}
  BY DEF SparseInit
<1> QED
  BY <1>1 DEF SparseInv, Ordered, AllBytes

LEMMA SparseStep == SparseInv /\ [SparseNext]_sparseVars => SparseInv'
<1> SUFFICES ASSUME SparseInv, [SparseNext]_sparseVars
             PROVE  SparseInv'
  OBVIOUS
<1>1. ASSUME NEW start \in 0 .. Size, NEW end \in 0 .. Size, start < end, SparseWrite(start, end)
      PROVE  SparseInv'
  <2>1. <<start, end>> \in Pairs /\ <<start, end>>[1] < <<start, end>>[2]
    BY <1>1, SizeAssumption DEF Pairs
  <2>2. /\ ranges' = AddRange(ranges, <<start, end>>)
        /\ written' = written \cup Bytes(<<start, end>>)
    BY <1>1 DEF SparseWrite
  <2>3. Ordered(ranges') /\ AllBytes(ranges') = AllBytes(ranges) \cup Bytes(<<start, end>>)
    BY <2>1, <2>2, AddRangeIs DEF SparseInv
  <2>4. Ordered(ranges)' /\ AllBytes(ranges)' = AllBytes(ranges')
    BY <2>3
  <2> QED
    BY <2>2, <2>3, <2>4 DEF SparseInv
<1>2. CASE UNCHANGED sparseVars
  BY <1>2 DEF SparseInv, sparseVars, Ordered, AllBytes
<1> QED
  BY <1>1, <1>2 DEF SparseNext

(* Whatever was written, in whatever order and however often, coverage()     *)
(* returns the length of the part without holes and the number of pieces     *)
(* behind it.                                                                *)
THEOREM CoverageIsExact == SparseSpec => []CoverageExact
<1>1. SparseInv => CoverageExact
  <2> SUFFICES ASSUME SparseInv
               PROVE  CoverageExact
    OBVIOUS
  <2> DEFINE c == Coverage(ranges)
             L == Len(ranges)
             Z == ranges # <<>> /\ ranges[1][1] = 0
  <2>1. /\ L \in Nat /\ (ranges # <<>> <=> L > 0)
        /\ \A i \in 1 .. L : ranges[i][1] \in Nat /\ ranges[i][2] \in Nat /\ ranges[i][1] < ranges[i][2]
        /\ \A i, j \in 1 .. L : i < j => ranges[i][2] < ranges[j][1]
    BY OrderedFacts DEF SparseInv
  <2>2. /\ c.contiguous = IF Z THEN ranges[1][2] ELSE 0
        /\ c.gaps = IF Z THEN L - 1 ELSE L
    BY CoveredIs DEF SparseInv
  <2> HIDE DEF c
  <2>3. \A x : x \in written <=> \E i \in 1 .. L : x \in Int /\ ranges[i][1] <= x /\ x < ranges[i][2]
    BY InAllBytes DEF SparseInv
  <2>4. 0 .. (c.contiguous - 1) \subseteq written
    <3>1. CASE Z
      <4>1. 1 \in 1 .. L
        BY <2>1, <3>1
      <4> QED
        BY <2>1, <2>2, <2>3, <3>1, <4>1
    <3>2. CASE ~Z
      BY <2>2, <3>2
    <3> QED
      BY <3>1, <3>2
  <2>5. c.contiguous \notin written
    <3>1. ASSUME NEW i \in 1 .. L, ranges[i][1] <= c.contiguous, c.contiguous < ranges[i][2]
          PROVE  FALSE
      <4>1. 1 \in 1 .. L /\ (i = 1 \/ 1 < i)
        BY <2>1
      <4>2. CASE i = 1
        BY <2>1, <2>2, <3>1, <4>2
      <4>3. CASE 1 < i
        <5>1. ranges[1][2] < ranges[i][1] /\ ranges[1][1] < ranges[1][2]
          BY <2>1, <4>1, <4>3
        <5> QED
          BY <2>1, <2>2, <3>1, <4>1, <5>1
      <4> QED
        BY <4>1, <4>2, <4>3
    <3> QED
      BY <2>3, <3>1
  <2>6. Starts \ {0} = {ranges[i][1] : i \in 1 .. L} \ {0}
    <3>1. \A o : o \in Starts <=> \E i \in 1 .. L : o = ranges[i][1]
      BY StartsAre DEF SparseInv, Starts
    <3> QED
      BY <3>1
  <2>7. Cardinality(Starts \ {0}) = IF Z THEN L - 1 ELSE L
    BY <2>6, PiecesAre DEF SparseInv
  <2> QED
    BY <2>2, <2>4, <2>5, <2>7 DEF CoverageExact, c
<1> QED
  BY <1>1, SparseStart, SparseStep, PTL DEF SparseSpec

(* For a file of any size, and writes in any order, overlapping and repeated *)
(* at will: each adds to what the merged list covers the bytes it was given  *)
(* and none else.                                                            *)
THEOREM RangesAreByteSet == SparseSpec => IsByteSet
<1>1. SparseInit => Set!Init
  BY DEF SparseInit, Set!Init
<1>2. SparseInv /\ [SparseNext]_sparseVars => [Set!Next]_<<written, UNION {Bytes(ranges[i]) : i \in DOMAIN ranges}>>
  <2> SUFFICES ASSUME SparseInv, [SparseNext]_sparseVars
               PROVE  [Set!Next]_<<written, UNION {Bytes(ranges[i]) : i \in DOMAIN ranges}>>
    OBVIOUS
  <2>1. ASSUME NEW start \in 0 .. Size, NEW end \in 0 .. Size, start < end, SparseWrite(start, end)
        PROVE  Set!Next
    <3>1. <<start, end>> \in Pairs /\ <<start, end>>[1] < <<start, end>>[2]
      BY <2>1, SizeAssumption DEF Pairs
    <3>2. AllBytes(ranges') = AllBytes(ranges) \cup Bytes(<<start, end>>)
      BY <2>1, <3>1, AddRangeIs DEF SparseInv, SparseWrite
    <3>3. Bytes(<<start, end>>) = Set!Stretch(start, end)
      BY DEF Bytes, Set!Stretch
    <3>4. Set!Write(start, end)
      BY <2>1, <3>2, <3>3 DEF Set!Write, AllBytes, SparseWrite
    <3> QED
      BY <2>1, <3>4 DEF Set!Next
  <2>2. CASE UNCHANGED sparseVars
    BY <2>2 DEF sparseVars
  <2> QED
    BY <2>1, <2>2 DEF SparseNext
<1> QED
  BY <1>1, <1>2, SparseStart, SparseStep, PTL DEF SparseSpec, IsByteSet, Set!Spec

-----------------------------------------------------------------------------
NalTypeOK ==
  /\ delimited \in {"each", "some", "none"} /\ nals \in Seq(Kinds)
  /\ prefix \in Seq(Nat) /\ current \in Seq(Nat) /\ hasVcl \in BOOLEAN
  /\ frames \in Seq(Seq(Nat)) /\ ended \in BOOLEAN

(* The units of the frame that is open, and those before the first one.     *)
Held  == In(current)
Spare == In(prefix)

(* Every unit read is held, spare or in one frame, and in no second.         *)
EachPlaced ==
  /\ Held \subseteq DOMAIN nals /\ Spare \subseteq DOMAIN nals /\ Held \cap Spare = {}
  /\ \A j \in DOMAIN frames :
       /\ In(frames[j]) \subseteq DOMAIN nals
       /\ In(frames[j]) \cap (Held \cup Spare) = {}
       /\ \A l \in DOMAIN frames : j # l => In(frames[j]) \cap In(frames[l]) = {}
  /\ \A i \in DOMAIN nals : i \in Held \cup Spare \/ \E j \in DOMAIN frames : i \in In(frames[j])

(* Behind a delimiter there is an open frame and nothing spare.              *)
OpenBehindDelimiter ==
  (\E i \in DOMAIN nals : nals[i] = "aud") => Spare = {} /\ Held # {}

(* Unless only some pictures are delimited nothing is ever spare, and the    *)
(* open frame is the end of what was read.                                   *)
OpenIsLast ==
  delimited # "some" =>
    /\ Spare = {}
    /\ nals # <<>> => Len(nals) \in Held
    /\ \A i \in Held : i .. Len(nals) \subseteq Held
    /\ InOrder

(* What hasVcl stands for, and where it may be set.                          *)
VclKnown ==
  /\ delimited # "some" => (hasVcl <=> \E i \in Held : IsVcl(nals[i]))
  /\ delimited = "each" /\ Last \in {"aud", "param"} => ~hasVcl

(* Of the units S of ns at most one starts a picture, and what carries one   *)
(* on does not come without its start.                                       *)
OneFirst(S, ns) ==
  /\ \A a, b \in S : IsFirst(ns[a]) /\ IsFirst(ns[b]) => a = b
  /\ \A i \in S : ns[i] = "more" => \E a \in S : IsFirst(ns[a])

(* Each parameter set among the units S has its picture among them.          *)
Paired(S, ns) ==
  \A i \in S : ns[i] = "param" =>
    \E p \in S : IsFirst(ns[p]) /\ p > i /\ \A q \in i .. (p - 1) : ~IsFirst(ns[q])

Pictures ==
  /\ delimited # "some" =>
       OneFirst(Held, nals) /\ \A j \in DOMAIN frames : OneFirst(In(frames[j]), nals)
  /\ delimited = "each" =>
       (hasVcl => Paired(Held, nals)) /\ \A j \in DOMAIN frames : Paired(In(frames[j]), nals)

OpenInv == EachPlaced /\ OpenBehindDelimiter /\ OpenIsLast /\ VclKnown /\ Pictures

NalInv == (~ended => OpenInv) /\ (ended => FramesAreTheStream /\ FrameIsPicture)

-----------------------------------------------------------------------------
(* What a sequence of positions holds. *)
LEMMA InSeq ==
  /\ In(<<>>) = {}
  /\ \A x \in Nat : In(<<x>>) = {x}
  /\ \A s \in Seq(Nat) : In(s) \subseteq Nat /\ (In(s) = {} <=> s = <<>>)
  /\ \A s \in Seq(Nat), x \in Nat : In(Append(s, x)) = In(s) \cup {x}
  /\ \A s, t \in Seq(Nat) : In(s \o t) = In(s) \cup In(t)
<1>1. In(<<>>) = {} /\ \A x \in Nat : In(<<x>>) = {x}
  <2>1. DOMAIN <<>> = {}
    OBVIOUS
  <2>2. ASSUME NEW x \in Nat
        PROVE  In(<<x>>) = {x}
    <3>1. DOMAIN <<x>> = {1} /\ <<x>>[1] = x
      OBVIOUS
    <3> QED
      BY <3>1, Zenon DEF In
  <2> QED
    BY <2>1, <2>2, Zenon DEF In
<1>2. ASSUME NEW s \in Seq(Nat)
      PROVE  In(s) \subseteq Nat /\ (In(s) = {} <=> s = <<>>)
  <2>1. DOMAIN s = 1 .. Len(s) /\ Len(s) \in Nat /\ \A i \in DOMAIN s : s[i] \in Nat
    OBVIOUS
  <2>2. In(s) \subseteq Nat
    BY <2>1 DEF In
  <2>3. s # <<>> => 1 \in DOMAIN s
    BY <2>1
  <2>4. \A i \in DOMAIN s : s[i] \in In(s)
    BY DEF In
  <2> QED
    BY <1>1, <2>2, <2>3, <2>4
<1>3. ASSUME NEW s \in Seq(Nat), NEW x \in Nat
      PROVE  In(Append(s, x)) = In(s) \cup {x}
  <2> DEFINE a == Append(s, x)
  <2>1. /\ DOMAIN s = 1 .. Len(s) /\ DOMAIN a = 1 .. (Len(s) + 1) /\ Len(s) \in Nat
        /\ a[Len(s) + 1] = x /\ \A i \in 1 .. Len(s) : a[i] = s[i]
    OBVIOUS
  <2> HIDE DEF a
  <2>2. {a[i] : i \in 1 .. (Len(s) + 1)} = {s[i] : i \in 1 .. Len(s)} \cup {x}
    BY <2>1
  <2> QED
    BY <2>1, <2>2 DEF In, a
<1>4. ASSUME NEW s \in Seq(Nat), NEW t \in Seq(Nat)
      PROVE  In(s \o t) = In(s) \cup In(t)
  <2> DEFINE c == s \o t
  <2>1. /\ DOMAIN s = 1 .. Len(s) /\ DOMAIN t = 1 .. Len(t) /\ DOMAIN c = 1 .. (Len(s) + Len(t))
        /\ Len(s) \in Nat /\ Len(t) \in Nat
        /\ \A i \in 1 .. Len(s) : c[i] = s[i]
        /\ \A i \in 1 .. Len(t) : c[Len(s) + i] = t[i]
        /\ \A i \in (Len(s) + 1) .. (Len(s) + Len(t)) : c[i] = t[i - Len(s)]
    OBVIOUS
  <2> HIDE DEF c
  <2>2. \A i \in 1 .. (Len(s) + Len(t)) :
          i \in 1 .. Len(s) \/ (i \in (Len(s) + 1) .. (Len(s) + Len(t)) /\ i - Len(s) \in 1 .. Len(t))
    BY <2>1
  <2>3. \A i \in 1 .. (Len(s) + Len(t)) : c[i] \in In(s) \cup In(t)
    BY <2>1, <2>2 DEF In
  <2>4. \A i \in 1 .. Len(s) : i \in DOMAIN c
    BY <2>1
  <2>5. \A i \in 1 .. Len(t) : Len(s) + i \in DOMAIN c
    BY <2>1
  <2>6. In(s) \cup In(t) \subseteq In(c)
    <3>1. \A y \in In(s) : \E i \in DOMAIN s : y = s[i]
      BY DEF In
    <3>2. \A y \in In(t) : \E i \in DOMAIN t : y = t[i]
      BY DEF In
    <3>3. \A i \in DOMAIN c : c[i] \in In(c)
      BY DEF In
    <3>4. \A y \in In(s) : y \in In(c)
      BY <2>1, <2>4, <3>1, <3>3
    <3>5. \A y \in In(t) : y \in In(c)
      BY <2>1, <2>5, <3>2, <3>3
    <3> QED
      BY <3>4, <3>5
  <2>7. In(c) \subseteq In(s) \cup In(t)
    <3>1. \A y \in In(c) : \E i \in DOMAIN c : y = c[i]
      BY DEF In
    <3> QED
      BY <2>1, <2>3, <3>1
  <2> QED
    BY <2>6, <2>7 DEF c
<1> QED
  BY <1>1, <1>2, <1>3, <1>4

(* What a unit does to the units held, spare and in frames: it closes the    *)
(* open frame and starts the next one, gathers what was spare, is spare      *)
(* itself, or joins the open frame.                                          *)
Closes(k) ==
  /\ hasVcl /\ (k = "aud" \/ IsFirst(k)) /\ hasVcl' = IsVcl(k)
  /\ frames' = Append(frames, current)
  /\ Held' = Spare \cup {Position} /\ Spare' = {}

Gathers(k) ==
  /\ k = "aud" /\ (Held = {} \/ ~hasVcl) /\ hasVcl' = hasVcl
  /\ frames' = frames
  /\ Held' = Held \cup Spare \cup {Position} /\ Spare' = {}

Spares(k) ==
  /\ delimited # "none" /\ ~IsVcl(k) /\ k # "aud" /\ hasVcl' = hasVcl
  /\ frames' = frames
  /\ Held = {} /\ Held' = {} /\ Spare' = Spare \cup {Position}

Joins(k) ==
  /\ k # "aud" \/ delimited = "none"
  /\ delimited = "none" => ~(IsFirst(k) /\ hasVcl)
  /\ hasVcl' = (hasVcl \/ IsVcl(k))
  /\ frames' = frames
  /\ Held' = Held \cup {Position} /\ Spare' = Spare

Reads(k) ==
  /\ Written(k) /\ nals' = Append(nals, k)
  /\ ~ended /\ ~ended' /\ delimited' = delimited
  /\ Closes(k) \/ Gathers(k) \/ Spares(k) \/ Joins(k)

LEMMA UnitReads ==
  ASSUME NalTypeOK, delimited = "none" => Spare = {}, NEW k \in Kinds, Unit(k)
  PROVE  NalTypeOK' /\ Reads(k)
<1> DEFINE N == Position
<1>1. /\ prefix \in Seq(Nat) /\ current \in Seq(Nat) /\ hasVcl \in BOOLEAN /\ N \in Nat
      /\ frames \in Seq(Seq(Nat)) /\ nals \in Seq(Kinds)
  BY DEF NalTypeOK, Position
<1>2. /\ Written(k) /\ nals' = Append(nals, k) /\ nals' \in Seq(Kinds)
      /\ ~ended /\ ended' = ended /\ delimited' = delimited
  BY <1>1 DEF Unit
<1>3. /\ In(Append(prefix, N)) = Spare \cup {N} /\ In(Append(current, N)) = Held \cup {N}
      /\ In(Append(current \o prefix, N)) = Held \cup Spare \cup {N}
      /\ In(<<N>>) = {N} /\ In(<<>>) = {}
      /\ (Held = {} <=> current = <<>>) /\ (Spare = {} <=> prefix = <<>>)
      /\ Append(prefix, N) \in Seq(Nat) /\ Append(current, N) \in Seq(Nat)
      /\ Append(current \o prefix, N) \in Seq(Nat) /\ <<N>> \in Seq(Nat) /\ <<>> \in Seq(Nat)
      /\ Append(frames, current) \in Seq(Seq(Nat))
  <2>1. current \o prefix \in Seq(Nat) /\ In(current \o prefix) = Held \cup Spare
    BY <1>1, InSeq DEF Held, Spare
  <2>2. In(Append(current \o prefix, N)) = In(current \o prefix) \cup {N}
    BY <2>1, <1>1, InSeq
  <2> QED
    BY <1>1, <2>1, <2>2, InSeq DEF Held, Spare
<1> HIDE DEF N
<1>4. CASE delimited = "none"
  <2>1. BySlice(k)
    BY <1>4 DEF Unit
  <2>2. prefix' = prefix /\ Spare' = Spare
    BY <2>1 DEF BySlice, Spare, In
  <2>3. CASE Cut(k) /\ prefix = <<>>
    <3>1. frames' = Append(frames, current) /\ current' = <<N>> /\ hasVcl' = TRUE
      BY <2>1, <2>3 DEF BySlice, N
    <3>2. Held' = {N} /\ Spare = {}
      BY <3>1, <1>3, <2>3 DEF Held
    <3>3. hasVcl /\ IsFirst(k) /\ IsVcl(k)
      BY <2>3 DEF Cut, IsFirst, IsVcl
    <3>4. Closes(k)
      BY <3>1, <3>2, <3>3, <2>2 DEF Closes, N
    <3> QED
      BY <3>1, <3>4, <1>1, <1>2, <1>3, <2>2 DEF NalTypeOK, Reads
  <2>4. CASE ~Cut(k)
    <3>1. frames' = frames /\ current' = Append(current, N) /\ hasVcl' = (hasVcl \/ IsVcl(k))
      BY <2>1, <2>4 DEF BySlice, N
    <3>2. Held' = Held \cup {N}
      BY <3>1, <1>3 DEF Held
    <3>3. Joins(k)
      BY <3>1, <3>2, <2>2, <2>4, <1>4 DEF Joins, Cut, N
    <3>4. hasVcl' \in BOOLEAN
      BY <3>1, <1>1
    <3> QED
      BY <3>1, <3>3, <3>4, <1>1, <1>2, <1>3, <2>2 DEF NalTypeOK, Reads
  <2> QED
    BY <2>3, <2>4, <1>3, <1>4
<1>5. CASE delimited # "none"
  <2>1. ByAud(k)
    BY <1>5 DEF Unit
  <2>2. CASE Boundary(k)
    <3>1. /\ frames' = Append(frames, current) /\ current' = Append(prefix, N)
          /\ prefix' = <<>> /\ hasVcl' = FALSE /\ k = "aud" /\ hasVcl
      BY <2>1, <2>2 DEF ByAud, Boundary, N
    <3>2. Held' = Spare \cup {N} /\ Spare' = {}
      BY <3>1, <1>3 DEF Held, Spare
    <3>3. IsVcl(k) = FALSE
      BY <3>1 DEF IsVcl
    <3>4. Closes(k)
      BY <3>1, <3>2, <3>3 DEF Closes, N
    <3> QED
      BY <3>1, <3>4, <1>1, <1>2, <1>3 DEF NalTypeOK, Reads
  <2>3. CASE k = "aud" /\ ~Boundary(k)
    <3>1. /\ current' = Append(current \o prefix, N) /\ prefix' = <<>>
          /\ hasVcl' = hasVcl /\ frames' = frames
      BY <2>1, <2>3 DEF ByAud, N
    <3>2. Held' = Held \cup Spare \cup {N} /\ Spare' = {}
      BY <3>1, <1>3 DEF Held, Spare
    <3>3. Gathers(k)
      BY <3>1, <3>2, <2>3, <1>3 DEF Gathers, N, Boundary
    <3> QED
      BY <3>1, <3>3, <1>1, <1>2, <1>3 DEF NalTypeOK, Reads
  <2>4. CASE k # "aud" /\ KeepPrefix(k)
    <3>1. /\ prefix' = Append(prefix, N) /\ current' = current
          /\ hasVcl' = hasVcl /\ frames' = frames
      BY <2>1, <2>4 DEF ByAud, N, Boundary
    <3>2. Held' = Held /\ Spare' = Spare \cup {N} /\ Held = {} /\ ~IsVcl(k)
      BY <3>1, <1>3, <2>4 DEF Held, Spare, KeepPrefix
    <3>3. Spares(k)
      BY <3>1, <3>2, <2>4, <1>5 DEF Spares, N
    <3> QED
      BY <3>1, <3>3, <1>1, <1>2, <1>3 DEF NalTypeOK, Reads
  <2>5. CASE k # "aud" /\ ~KeepPrefix(k)
    <3>1. /\ current' = Append(current, N) /\ hasVcl' = (hasVcl \/ IsVcl(k))
          /\ prefix' = prefix /\ frames' = frames
      BY <2>1, <2>5 DEF ByAud, N, Boundary
    <3>2. Held' = Held \cup {N} /\ Spare' = Spare
      BY <3>1, <1>3 DEF Held, Spare, In
    <3>3. Joins(k)
      BY <3>1, <3>2, <2>5, <1>5 DEF Joins, N
    <3>4. hasVcl' \in BOOLEAN
      BY <3>1, <1>1
    <3> QED
      BY <3>1, <3>3, <3>4, <1>1, <1>2, <1>3 DEF NalTypeOK, Reads
  <2> QED
    BY <2>1, <2>2, <2>3, <2>4, <2>5 DEF Boundary
<1> QED
  BY <1>4, <1>5

(* What a list says of its units stays said when one more is read. *)
LEMMA UnitsStay ==
  ASSUME NEW ns \in Seq(Kinds), NEW k \in Kinds, NEW S, S \subseteq DOMAIN ns
  PROVE  /\ OneFirst(S, ns) => OneFirst(S, Append(ns, k))
         /\ Paired(S, ns) => Paired(S, Append(ns, k))
<1>1. /\ DOMAIN ns = 1 .. Len(ns) /\ Len(ns) \in Nat
      /\ \A i \in DOMAIN ns : Append(ns, k)[i] = ns[i]
  OBVIOUS
<1>2. OneFirst(S, ns) => OneFirst(S, Append(ns, k))
  BY <1>1 DEF OneFirst
<1>3. ASSUME Paired(S, ns), NEW i \in S, Append(ns, k)[i] = "param"
      PROVE  \E p \in S : /\ IsFirst(Append(ns, k)[p]) /\ p > i
                          /\ \A q \in i .. (p - 1) : ~IsFirst(Append(ns, k)[q])
  <2>1. ns[i] = "param"
    BY <1>1, <1>3
  <2>2. PICK p \in S : IsFirst(ns[p]) /\ p > i /\ \A q \in i .. (p - 1) : ~IsFirst(ns[q])
    BY <1>3, <2>1 DEF Paired
  <2>3. \A q \in i .. (p - 1) : q \in DOMAIN ns
    BY <1>1
  <2> QED
    BY <1>1, <2>2, <2>3
<1> QED
  BY <1>2, <1>3 DEF Paired

(* A unit that joins others: a start joins none, a continuation its start. *)
LEMMA UnitJoins ==
  ASSUME NEW ns \in Seq(Kinds), NEW k \in Kinds, NEW S, S \subseteq DOMAIN ns, OneFirst(S, ns),
         IsFirst(k) => \A a \in S : ~IsFirst(ns[a]),
         k = "more" => \E a \in S : IsFirst(ns[a])
  PROVE  OneFirst(S \cup {Len(ns) + 1}, Append(ns, k))
<1> DEFINE N == Len(ns) + 1
           ms == Append(ns, k)
<1>1. /\ DOMAIN ns = 1 .. Len(ns) /\ Len(ns) \in Nat
      /\ \A i \in S : ms[i] = ns[i] /\ i # N
      /\ ms[N] = k
  OBVIOUS
<1> HIDE DEF N, ms
<1>2. ASSUME NEW a \in S \cup {N}, NEW b \in S \cup {N}, IsFirst(ms[a]), IsFirst(ms[b])
      PROVE  a = b
  BY <1>1, <1>2 DEF OneFirst
<1>3. ASSUME NEW i \in S \cup {N}, ms[i] = "more"
      PROVE  \E a \in S \cup {N} : IsFirst(ms[a])
  BY <1>1, <1>3 DEF OneFirst
<1> QED
  BY <1>2, <1>3 DEF OneFirst, N, ms

(* A unit that is no parameter set joins paired ones; and the first slice is *)
(* the picture of the parameter sets right before it.                        *)
LEMMA PictureJoins ==
  ASSUME NEW ns \in Seq(Kinds), NEW k \in Kinds, k # "param", NEW S, S \subseteq DOMAIN ns,
         \/ Paired(S, ns)
         \/ IsFirst(k) /\ \A i \in S : ~IsVcl(ns[i]) /\ i .. Len(ns) \subseteq S
  PROVE  Paired(S \cup {Len(ns) + 1}, Append(ns, k))
<1> DEFINE N == Len(ns) + 1
           ms == Append(ns, k)
<1>1. /\ DOMAIN ns = 1 .. Len(ns) /\ Len(ns) \in Nat
      /\ \A i \in S : ms[i] = ns[i] /\ i # N /\ i \in 1 .. Len(ns)
      /\ ms[N] = k /\ N = Len(ns) + 1
  OBVIOUS
<1>2. Paired(S, ns) => Paired(S, ms)
  BY UnitsStay
<1> HIDE DEF N, ms
<1>3. ASSUME NEW i \in S \cup {N}, ms[i] = "param"
      PROVE  \E p \in S \cup {N} : /\ IsFirst(ms[p]) /\ p > i
                                   /\ \A q \in i .. (p - 1) : ~IsFirst(ms[q])
  <2>1. i \in S
    BY <1>1, <1>3
  <2>2. CASE Paired(S, ns)
    BY <1>2, <1>3, <2>1, <2>2 DEF Paired
  <2>3. CASE IsFirst(k) /\ \A j \in S : ~IsVcl(ns[j]) /\ j .. Len(ns) \subseteq S
    <3>1. \A q \in i .. (N - 1) : q \in S
      BY <1>1, <2>1, <2>3
    <3>2. \A q \in i .. (N - 1) : ~IsFirst(ms[q])
      BY <1>1, <2>3, <3>1 DEF IsFirst, IsVcl
    <3> QED
      BY <1>1, <2>1, <2>3, <3>2
  <2> QED
    BY <2>2, <2>3
<1> QED
  BY <1>3 DEF Paired, N, ms

(* A unit is read behind all others, and a frame closed behind all others. *)
LEMMA ReadBehind ==
  ASSUME NalTypeOK, NEW k \in Kinds, Reads(k)
  PROVE  /\ Position = Len(nals) + 1 /\ Len(nals) \in Nat /\ Len(nals)' = Position
         /\ DOMAIN nals = 1 .. Len(nals) /\ (DOMAIN nals)' = DOMAIN nals \cup {Position}
         /\ Position \notin DOMAIN nals /\ (nals # <<>> => Len(nals) \in DOMAIN nals)
         /\ \A i \in DOMAIN nals : nals'[i] = nals[i] /\ i < Position
         /\ nals'[Position] = k /\ Last' = k /\ nals' # <<>>
<1> USE DEF NalTypeOK, Reads, Position
<1>1. nals \in Seq(Kinds) /\ nals' = Append(nals, k)
  OBVIOUS
<1>2. /\ Len(nals) \in Nat /\ Len(nals') = Len(nals) + 1 /\ nals' # <<>>
      /\ DOMAIN nals = 1 .. Len(nals) /\ DOMAIN nals' = 1 .. (Len(nals) + 1)
      /\ nals # <<>> => Len(nals) > 0
      /\ \A i \in DOMAIN nals : nals'[i] = nals[i]
      /\ nals'[Len(nals) + 1] = k
  BY <1>1
<1> QED
  BY <1>2 DEF Last

LEMMA ClosedBehind ==
  ASSUME NalTypeOK, frames' = Append(frames, current)
  PROVE  LET n == Len(frames) + 1 IN
         /\ (DOMAIN frames)' = DOMAIN frames \cup {n} /\ n \notin DOMAIN frames
         /\ In(frames'[n]) = Held
         /\ \A j \in DOMAIN frames : frames'[j] = frames[j] /\ j < n /\ j \in Nat
BY DEF NalTypeOK, Held

LEMMA PlacedStep ==
  ASSUME NalTypeOK, EachPlaced, NEW k \in Kinds, Reads(k)
  PROVE  EachPlaced'
<1> DEFINE N == Position
           n == Len(frames) + 1
<1>1. /\ (DOMAIN nals)' = DOMAIN nals \cup {N} /\ N \notin DOMAIN nals
  BY ReadBehind
<1>2. CASE Closes(k)
  <2>1. /\ (DOMAIN frames)' = DOMAIN frames \cup {n} /\ n \notin DOMAIN frames
        /\ In(frames'[n]) = Held
        /\ \A j \in DOMAIN frames : In(frames'[j]) = In(frames[j])
    BY <1>2, ClosedBehind DEF Closes
  <2>2. Held' = Spare \cup {N} /\ Spare' = {}
    BY <1>2 DEF Closes
  <2> HIDE DEF N, n
  <2> QED
    BY <1>1, <2>1, <2>2 DEF EachPlaced
<1>3. CASE ~Closes(k)
  <2>1. /\ frames' = frames /\ Held' \cap Spare' = {} /\ Held' \cup Spare' = Held \cup Spare \cup {N}
        /\ Held' \subseteq DOMAIN nals \cup {N} /\ Spare' \subseteq DOMAIN nals \cup {N}
    BY <1>1, <1>3 DEF Reads, Gathers, Spares, Joins, EachPlaced
  <2> HIDE DEF N
  <2> QED
    BY <1>1, <2>1 DEF EachPlaced
<1> QED
  BY <1>2, <1>3

LEMMA DelimiterStep ==
  ASSUME NalTypeOK, EachPlaced, OpenBehindDelimiter, NEW k \in Kinds, Reads(k)
  PROVE  OpenBehindDelimiter'
<1>1. ASSUME NEW i \in (DOMAIN nals)', nals'[i] = "aud"
      PROVE  k = "aud" \/ (Spare = {} /\ Held # {})
  BY <1>1, ReadBehind DEF OpenBehindDelimiter
<1>2. k = "aud" => Spare' = {} /\ Held' # {}
  BY DEF Reads, Closes, Gathers, Spares, Joins, Written
<1>3. Spare = {} /\ Held # {} => Spare' = {} /\ Held' # {}
  BY DEF Reads, Closes, Gathers, Spares, Joins
<1> QED
  BY <1>1, <1>2, <1>3 DEF OpenBehindDelimiter

(* Unless only some pictures are delimited no unit is spare. *)
LEMMA NoneSpared ==
  ASSUME NalTypeOK, EachPlaced, OpenIsLast, NEW k \in Kinds, Reads(k), delimited # "some"
  PROVE  ~Spares(k)
<1>1. ASSUME Spares(k)
      PROVE  FALSE
  <2>1. delimited = "each" /\ Held = {} /\ k # "aud"
    BY <1>1 DEF Spares, NalTypeOK
  <2>2. nals = <<>>
    BY <2>1 DEF OpenIsLast
  <2> QED
    BY <2>1, <2>2 DEF Reads, Written
<1> QED
  BY <1>1

LEMMA LastStep ==
  ASSUME NalTypeOK, EachPlaced, OpenIsLast, NEW k \in Kinds, Reads(k)
  PROVE  OpenIsLast'
<1> SUFFICES ASSUME delimited # "some"
             PROVE  /\ Spare' = {} /\ Len(nals)' \in Held'
                    /\ \A i \in Held' : i .. Len(nals)' \subseteq Held'
                    /\ InOrder'
  BY DEF OpenIsLast, Reads
<1> DEFINE N == Position
           n == Len(frames) + 1
<1>1. /\ Spare = {} /\ InOrder
      /\ \A i \in Held : i .. Len(nals) \subseteq Held
      /\ Held \subseteq DOMAIN nals
  BY DEF OpenIsLast, EachPlaced
<1>2. N = Len(nals) + 1 /\ Len(nals) \in Nat /\ Len(nals)' = N /\ DOMAIN nals = 1 .. Len(nals)
  BY ReadBehind
<1>3. Spare' = {} /\ (Held' = {N} \/ Held' = Held \cup {N})
  BY <1>1, NoneSpared DEF Reads, Closes, Gathers, Joins
<1>4. \A i \in Held' : i .. Len(nals)' \subseteq Held'
  <2> HIDE DEF N
  <2>1. CASE Held' = {N}
    BY <1>2, <2>1
  <2>2. CASE Held' = Held \cup {N}
    <3>1. \A i \in Held : \A q \in i .. N : q = N \/ q \in i .. Len(nals)
      BY <1>1, <1>2
    <3> QED
      BY <1>1, <1>2, <2>2, <3>1
  <2> QED
    BY <1>3, <2>1, <2>2
<1>5. InOrder'
  <2>1. CASE frames' = frames
    BY <1>1, <2>1 DEF InOrder
  <2>2. CASE frames' = Append(frames, current)
    <3>1. /\ (DOMAIN frames)' = DOMAIN frames \cup {n} /\ n \notin DOMAIN frames
          /\ In(frames'[n]) = Held
          /\ \A j \in DOMAIN frames : In(frames'[j]) = In(frames[j]) /\ j < n /\ j \in Nat
      BY <2>2, ClosedBehind
    <3>2. n \in Nat
      BY DEF NalTypeOK
    <3> HIDE DEF n
    <3>3. ASSUME NEW j \in DOMAIN frames, NEW x \in In(frames[j]), NEW y \in Held
          PROVE  x < y
      <4>1. x \in 1 .. Len(nals) /\ y \in 1 .. Len(nals) /\ x \notin Held
        BY <1>1, <1>2 DEF EachPlaced
      <4>2. ~(x \in y .. Len(nals))
        BY <1>1, <4>1
      <4> QED
        BY <1>2, <4>1, <4>2
    <3>4. ASSUME NEW j \in (DOMAIN frames)', NEW l \in (DOMAIN frames)', j < l,
                 NEW x \in In(frames'[j]), NEW y \in In(frames'[l])
          PROVE  x < y
      <4>1. j \in DOMAIN frames
        BY <3>1, <3>2, <3>4
      <4>2. CASE l = n
        BY <3>1, <3>3, <4>1, <4>2
      <4>3. CASE l \in DOMAIN frames
        BY <1>1, <3>1, <3>4, <4>1, <4>3 DEF InOrder
      <4> QED
        BY <3>1, <4>2, <4>3
    <3> QED
      BY <3>4 DEF InOrder
  <2> QED
    BY <2>1, <2>2 DEF Reads, Closes, Gathers, Spares, Joins
<1> QED
  BY <1>2, <1>3, <1>4, <1>5

(* What a first slice and a delimiter find.                                  *)
LEMMA FirstAtStart ==
  ASSUME NalTypeOK, OpenInv, NEW k \in Kinds, Reads(k), delimited # "some"
  PROVE  /\ IsFirst(k) /\ ~Closes(k) => ~hasVcl
         /\ delimited = "each" /\ Closes(k) => k = "aud"
         /\ delimited = "each" /\ Gathers(k) => Held = {} /\ ~hasVcl
         /\ k = "more" => hasVcl /\ \E a \in Held : IsFirst(nals[a])
         /\ Held = {} => ~hasVcl
         /\ ~hasVcl => \A i \in Held : ~IsVcl(nals[i])
<1>1. /\ hasVcl \in BOOLEAN /\ (hasVcl <=> \E i \in Held : IsVcl(nals[i]))
      /\ delimited = "each" /\ Last \in {"aud", "param"} => ~hasVcl
      /\ nals # <<>> => Len(nals) \in Held
      /\ OneFirst(Held, nals) /\ Spare = {} /\ ~Spares(k)
      /\ Written(k)
  BY NoneSpared DEF OpenInv, VclKnown, OpenIsLast, Pictures, NalTypeOK, Reads
<1>2. IsVcl(Last) => Len(nals) \in Held /\ Last = nals[Len(nals)] /\ hasVcl
  BY <1>1 DEF Last, IsVcl
<1>3. delimited \in {"each", "none"}
  BY DEF NalTypeOK
<1>4. IsFirst(k) /\ ~Closes(k) => ~hasVcl
  BY <1>1, <1>3 DEF Reads, Gathers, Joins, Written, IsFirst
<1>5. delimited = "each" /\ Closes(k) => k = "aud"
  BY <1>1 DEF Closes, Written
<1>6. delimited = "each" /\ Gathers(k) => Held = {} /\ ~hasVcl
  <2>1. SUFFICES ASSUME delimited = "each", Gathers(k)
                 PROVE  Held = {} /\ ~hasVcl
    OBVIOUS
  <2>2. nals = <<>> \/ IsVcl(Last)
    BY <2>1, <1>1 DEF Gathers, Written
  <2>3. CASE nals = <<>>
    BY <2>3, <1>1, ReadBehind DEF OpenInv, EachPlaced
  <2>4. CASE IsVcl(Last)
    BY <2>1, <2>4, <1>1, <1>2 DEF Gathers
  <2> QED
    BY <2>2, <2>3, <2>4
<1>7. k = "more" => hasVcl /\ \E a \in Held : IsFirst(nals[a])
  <2>1. IsVcl(Last) => \E a \in Held : IsFirst(nals[a])
    BY <1>1, <1>2 DEF OneFirst, IsVcl, IsFirst
  <2> QED
    BY <1>1, <1>2, <2>1 DEF Written
<1> QED
  BY <1>1, <1>4, <1>5, <1>6, <1>7

LEMMA VclStep ==
  ASSUME NalTypeOK, OpenInv, NEW k \in Kinds, Reads(k)
  PROVE  VclKnown'
<1> SUFFICES ASSUME delimited # "some"
             PROVE  /\ hasVcl' <=> \E i \in Held' : IsVcl(nals'[i])
                    /\ delimited = "each" /\ Last' \in {"aud", "param"} => ~hasVcl'
  BY DEF VclKnown, Reads
<1>1. /\ \A i \in Held : nals'[i] = nals[i]
      /\ nals'[Position] = k /\ Last' = k
  BY ReadBehind DEF OpenInv, EachPlaced
<1>2. /\ hasVcl \in BOOLEAN /\ (hasVcl <=> \E i \in Held : IsVcl(nals[i]))
      /\ delimited = "each" /\ Last \in {"aud", "param"} => ~hasVcl
      /\ Spare = {} /\ ~Spares(k) /\ Written(k)
  BY NoneSpared DEF OpenInv, VclKnown, OpenIsLast, NalTypeOK, Reads
<1>3. hasVcl' <=> \E i \in Held' : IsVcl(nals'[i])
  <2>1. CASE Closes(k)
    BY <1>1, <1>2, <2>1 DEF Closes
  <2>2. CASE Gathers(k)
    BY <1>1, <1>2, <2>2 DEF Gathers, IsVcl
  <2>3. CASE Joins(k)
    BY <1>1, <1>2, <2>3 DEF Joins
  <2> QED
    BY <1>2, <2>1, <2>2, <2>3 DEF Reads
<1>4. ASSUME delimited = "each", k \in {"aud", "param"}
      PROVE  ~hasVcl'
  <2>1. ~IsVcl(k)
    BY <1>4 DEF IsVcl
  <2>2. CASE Closes(k)
    BY <2>1, <2>2 DEF Closes
  <2>3. CASE Gathers(k)
    BY <1>4, <2>3, FirstAtStart DEF Gathers
  <2>4. CASE Joins(k)
    <3>1. k = "param"
      BY <1>4, <2>4 DEF Joins
    <3> QED
      BY <1>2, <1>4, <2>1, <2>4, <3>1 DEF Joins, Written
  <2> QED
    BY <1>2, <2>2, <2>3, <2>4 DEF Reads
<1> QED
  BY <1>1, <1>3, <1>4

LEMMA PicturesStep ==
  ASSUME NalTypeOK, OpenInv, NEW k \in Kinds, Reads(k)
  PROVE  Pictures'
<1> SUFFICES ASSUME delimited # "some"
             PROVE  /\ OneFirst(Held', nals')
                    /\ \A j \in (DOMAIN frames)' : OneFirst(In(frames'[j]), nals')
                    /\ delimited = "each" =>
                         /\ hasVcl' => Paired(Held', nals')
                         /\ \A j \in (DOMAIN frames)' : Paired(In(frames'[j]), nals')
  BY DEF Pictures, Reads
<1> DEFINE n == Len(frames) + 1
<1>1. /\ nals \in Seq(Kinds) /\ nals' = Append(nals, k) /\ Position = Len(nals) + 1
      /\ Held \subseteq DOMAIN nals /\ \A j \in DOMAIN frames : In(frames[j]) \subseteq DOMAIN nals
  BY DEF NalTypeOK, Reads, Position, OpenInv, EachPlaced
<1>2. /\ OneFirst(Held, nals) /\ \A j \in DOMAIN frames : OneFirst(In(frames[j]), nals)
      /\ delimited = "each" =>
           (hasVcl => Paired(Held, nals)) /\ \A j \in DOMAIN frames : Paired(In(frames[j]), nals)
  BY DEF OpenInv, Pictures
<1>3. /\ Spare = {} /\ ~Spares(k) /\ hasVcl \in BOOLEAN
  BY NoneSpared DEF OpenInv, OpenIsLast, NalTypeOK
<1>4. OneFirst(Held', nals')
  <2>1. CASE Closes(k)
    <3>1. Held' = {} \cup {Position} /\ k # "more"
      BY <1>3, <2>1 DEF Closes, IsFirst
    <3>2. OneFirst({}, nals)
      BY DEF OneFirst
    <3> QED
      BY <1>1, <3>1, <3>2, UnitJoins
  <2>2. CASE ~Closes(k)
    <3>1. Held' = Held \cup {Position}
      BY <1>3, <2>2 DEF Reads, Gathers, Joins
    <3>2. IsFirst(k) => \A a \in Held : ~IsFirst(nals[a])
      BY <2>2, FirstAtStart DEF IsVcl, IsFirst
    <3> QED
      BY <1>1, <1>2, <3>1, <3>2, UnitJoins, FirstAtStart
  <2> QED
    BY <2>1, <2>2
<1>5. ASSUME delimited = "each", hasVcl'
      PROVE  Paired(Held', nals')
  <2>1. Joins(k)
    <3>1. ~Closes(k)
      BY <1>5, FirstAtStart DEF Closes, IsVcl
    <3>2. ~Gathers(k)
      BY <1>5, FirstAtStart DEF Gathers
    <3> QED
      BY <1>3, <3>1, <3>2 DEF Reads
  <2>2. Held' = Held \cup {Position} /\ (hasVcl \/ IsVcl(k)) /\ Written(k) /\ k # "aud"
    BY <1>5, <2>1 DEF Joins, Reads
  <2>3. k # "param"
    BY <1>5, <2>2 DEF Written, OpenInv, VclKnown, IsVcl
  <2>4. CASE hasVcl
    BY <1>1, <1>2, <1>5, <2>2, <2>3, <2>4, PictureJoins
  <2>5. CASE ~hasVcl
    <3>1. IsFirst(k)
      BY <2>2, <2>5, FirstAtStart DEF IsVcl, IsFirst
    <3>2. \A i \in Held : ~IsVcl(nals[i]) /\ i .. Len(nals) \subseteq Held
      BY <2>5, FirstAtStart DEF OpenInv, OpenIsLast
    <3> QED
      BY <1>1, <2>2, <2>3, <3>1, <3>2, PictureJoins
  <2> QED
    BY <1>3, <2>4, <2>5
<1>6. ASSUME NEW j \in (DOMAIN frames)'
      PROVE  /\ OneFirst(In(frames'[j]), nals')
             /\ delimited = "each" => Paired(In(frames'[j]), nals')
  <2>1. CASE Closes(k)
    <3>1. /\ (DOMAIN frames)' = DOMAIN frames \cup {n} /\ n \notin DOMAIN frames
          /\ In(frames'[n]) = Held
          /\ \A i \in DOMAIN frames : In(frames'[i]) = In(frames[i])
      BY <2>1, ClosedBehind DEF Closes
    <3> HIDE DEF n
    <3>2. CASE j = n
      <4>1. OneFirst(Held, nals) /\ (delimited = "each" => Paired(Held, nals))
        BY <1>2, <2>1 DEF Closes
      <4> QED
        BY <1>1, <3>1, <3>2, <4>1, UnitsStay
    <3>3. CASE j \in DOMAIN frames
      BY <1>1, <1>2, <3>1, <3>3, UnitsStay
    <3> QED
      BY <3>1, <3>2, <3>3
  <2>2. CASE frames' = frames
    BY <1>1, <1>2, <2>2, UnitsStay
  <2> QED
    BY <2>1, <2>2 DEF Reads, Gathers, Spares, Joins
<1> QED
  BY <1>4, <1>5, <1>6

-----------------------------------------------------------------------------
(* What is known of a list of units is what the properties say of a frame. *)
LEMMA FrameSound ==
  ASSUME NalTypeOK, NEW f \in Seq(Nat), In(f) \subseteq DOMAIN nals
  PROVE  /\ OneFirst(In(f), nals) => OnePicture(f)
         /\ Paired(In(f), nals) => ParametersTravelAlong(f)
<1>1. ASSUME OneFirst(In(f), nals)
      PROVE  OnePicture(f)
  <2>1. /\ Openers(f) \subseteq In(f) /\ \A a \in Openers(f) : IsFirst(nals[a])
        /\ \A a \in In(f) : IsFirst(nals[a]) => a \in Openers(f)
    BY DEF Openers
  <2>2. Cardinality(Openers(f)) <= 1
    <3>1. CASE Openers(f) = {}
      BY <3>1, FS_EmptySet
    <3>2. CASE \E a \in Openers(f) : TRUE
      <4>1. PICK a \in Openers(f) : TRUE
        BY <3>2
      <4>2. Openers(f) = {a}
        BY <1>1, <2>1, <4>1 DEF OneFirst
      <4>3. Cardinality({a}) = 1
        BY FS_Singleton
      <4> QED
        BY <4>2, <4>3
    <3> QED
      BY <3>1, <3>2
  <2>3. \A i \in In(f) : nals[i] = "more" => Openers(f) # {}
    BY <1>1, <2>1 DEF OneFirst
  <2> QED
    BY <2>2, <2>3 DEF OnePicture
<1>2. ASSUME Paired(In(f), nals),
             NEW i \in In(f), nals[i] = "param", NEW p \in DOMAIN nals, WrittenFor(i, p)
      PROVE  p \in In(f)
  <2>1. DOMAIN nals \subseteq Nat
    BY DEF NalTypeOK
  <2>2. PICK q \in In(f) : IsFirst(nals[q]) /\ q > i /\ \A x \in i .. (q - 1) : ~IsFirst(nals[x])
    BY <1>2 DEF Paired
  <2>3. IsFirst(nals[p]) /\ p > i /\ \A x \in i .. (p - 1) : ~IsFirst(nals[x])
    BY <1>2 DEF WrittenFor
  <2>4. i \in Nat /\ p \in Nat /\ q \in Nat
    BY <2>1, <2>2
  <2>5. ~(p \in i .. (q - 1)) /\ ~(q \in i .. (p - 1))
    BY <2>2, <2>3
  <2>6. p = q
    BY <2>2, <2>3, <2>4, <2>5
  <2> QED
    BY <2>2, <2>6
<1> QED
  BY <1>1, <1>2 DEF ParametersTravelAlong

LEMMA FramesSound ==
  ASSUME NalTypeOK, OpenInv, ~ended
  PROVE  FramesAreTheStream /\ FrameIsPicture
<1>1. \A j \in DOMAIN frames : frames[j] \in Seq(Nat) /\ In(frames[j]) \subseteq DOMAIN nals
  BY DEF NalTypeOK, OpenInv, EachPlaced
<1> QED
  BY <1>1, FrameSound
     DEF OpenInv, OpenIsLast, Pictures, FramesAreTheStream, FrameIsPicture

(* The end of the list closes the open frame, and nothing is left over. *)
LEMMA EndSound ==
  ASSUME NalTypeOK, OpenInv, End
  PROVE  NalTypeOK' /\ ended' /\ FramesAreTheStream' /\ FrameIsPicture'
<1> DEFINE n == Len(frames) + 1
<1>1. /\ nals' = nals /\ delimited' = delimited /\ current' = current /\ ended' /\ ended' = TRUE
      /\ prefix' = prefix /\ hasVcl' = hasVcl
      /\ (frames' = frames /\ Held = {}) \/ frames' = Append(frames, current)
      /\ Spare = {}
  <2>1. current = <<>> => Held = {}
    BY InSeq DEF Held
  <2>2. Spare = {}
    BY DEF End, OpenInv, OpenIsLast, OpenBehindDelimiter
  <2> QED
    BY <2>1, <2>2 DEF End, LastFrame
<1>2. NalTypeOK'
  <2>1. Append(frames, current) \in Seq(Seq(Nat))
    BY DEF NalTypeOK
  <2> QED
    BY <1>1, <2>1 DEF NalTypeOK
<1>3. /\ DOMAIN frames \subseteq (DOMAIN frames)' /\ n \notin DOMAIN frames
      /\ \A j \in DOMAIN frames : frames'[j] = frames[j] /\ j < n /\ j \in Nat
      /\ \A j \in (DOMAIN frames)' : j \in DOMAIN frames \/ (j = n /\ In(frames'[j]) = Held)
      /\ Held # {} => n \in (DOMAIN frames)' /\ In(frames'[n]) = Held
      /\ n \in Nat
  <2>1. frames \in Seq(Seq(Nat)) /\ n \in Nat /\ DOMAIN frames = 1 .. Len(frames)
    BY DEF NalTypeOK
  <2>2. CASE frames' = frames /\ Held = {}
    BY <2>1, <2>2
  <2>3. CASE frames' = Append(frames, current)
    BY <2>1, <2>3, ClosedBehind
  <2> QED
    BY <1>1, <2>2, <2>3
<1> HIDE DEF n
<1>4. EachUnitOnce'
  <2>1. SUFFICES ASSUME NEW i \in DOMAIN nals
                 PROVE  Cardinality({j \in (DOMAIN frames)' : i \in In(frames'[j])}) = 1
    BY <1>1 DEF EachUnitOnce
  <2>2. \E j \in (DOMAIN frames)' : i \in In(frames'[j])
    BY <1>1, <1>3 DEF OpenInv, EachPlaced
  <2>3. ASSUME NEW j \in (DOMAIN frames)', NEW l \in (DOMAIN frames)',
               i \in In(frames'[j]), i \in In(frames'[l])
        PROVE  j = l
    BY <1>3, <2>3 DEF OpenInv, EachPlaced
  <2>4. PICK j \in (DOMAIN frames)' : i \in In(frames'[j])
    BY <2>2
  <2>5. {l \in (DOMAIN frames)' : i \in In(frames'[l])} = {j}
    BY <2>3, <2>4
  <2> QED
    BY <2>5, FS_Singleton
<1>5. ASSUME delimited # "some"
      PROVE  InOrder'
  <2>1. /\ InOrder /\ \A i \in Held : i .. Len(nals) \subseteq Held
        /\ DOMAIN nals = 1 .. Len(nals) /\ Len(nals) \in Nat
        /\ \A j \in DOMAIN frames : In(frames[j]) \subseteq DOMAIN nals /\ In(frames[j]) \cap Held = {}
        /\ Held \subseteq DOMAIN nals
    BY <1>5 DEF OpenInv, OpenIsLast, EachPlaced, NalTypeOK
  <2>2. ASSUME NEW j \in DOMAIN frames, NEW x \in In(frames[j]), NEW y \in Held
        PROVE  x < y
    <3>1. x \in 1 .. Len(nals) /\ y \in 1 .. Len(nals) /\ ~(x \in y .. Len(nals))
      BY <2>1
    <3> QED
      BY <2>1, <3>1
  <2>3. ASSUME NEW j \in (DOMAIN frames)', NEW l \in (DOMAIN frames)', j < l,
               NEW x \in In(frames'[j]), NEW y \in In(frames'[l])
        PROVE  x < y
    <3>1. j \in DOMAIN frames
      BY <1>3, <2>3
    <3> QED
      BY <1>3, <2>1, <2>2, <2>3, <3>1 DEF InOrder
  <2> QED
    BY <2>3 DEF InOrder
<1>6. ASSUME NEW j \in DOMAIN frames, delimited # "some"
      PROVE  OnePicture(frames[j]) /\ (delimited = "each" => ParametersTravelAlong(frames[j]))
  <2>1. frames[j] \in Seq(Nat) /\ In(frames[j]) \subseteq DOMAIN nals
    BY DEF NalTypeOK, OpenInv, EachPlaced
  <2> QED
    BY <1>6, <2>1, FrameSound DEF OpenInv, Pictures
<1>7. ASSUME delimited # "some"
      PROVE  OnePicture(current) /\ (delimited = "each" => ParametersTravelAlong(current))
  <2>1. current \in Seq(Nat) /\ Held \subseteq DOMAIN nals
    BY DEF NalTypeOK, OpenInv, EachPlaced
  <2>2. OnePicture(current)
    BY <1>7, <2>1, FrameSound DEF OpenInv, Pictures, Held
  <2>3. ASSUME delimited = "each", hasVcl
        PROVE  ParametersTravelAlong(current)
    BY <2>1, <2>3, FrameSound DEF OpenInv, Pictures, Held
  <2>4. ASSUME delimited = "each", ~hasVcl, NEW i \in Held, NEW p \in DOMAIN nals, WrittenFor(i, p)
        PROVE  FALSE
    <3>1. i .. Len(nals) \subseteq Held /\ ~(\E a \in Held : IsVcl(nals[a]))
      BY <2>4 DEF OpenInv, OpenIsLast, VclKnown
    <3>2. DOMAIN nals = 1 .. Len(nals) /\ i \in DOMAIN nals /\ Len(nals) \in Nat
      BY <2>1 DEF NalTypeOK
    <3>3. p > i /\ IsVcl(nals[p])
      BY <2>4 DEF WrittenFor, IsVcl, IsFirst
    <3>4. p \in i .. Len(nals)
      BY <3>2, <3>3
    <3> QED
      BY <3>1, <3>3, <3>4
  <2> QED
    BY <2>2, <2>3, <2>4 DEF ParametersTravelAlong, Held
<1>8. ASSUME NEW j \in (DOMAIN frames)', delimited # "some"
      PROVE  OnePicture(frames[j])' /\ (delimited = "each" => ParametersTravelAlong(frames[j])')
  <2>1. (j \in DOMAIN frames /\ frames'[j] = frames[j]) \/ frames'[j] = current
    <3>1. CASE frames' = frames
      BY <3>1, <1>8
    <3>2. CASE frames' = Append(frames, current)
      BY <3>2, <1>8 DEF NalTypeOK
    <3> QED
      BY <1>1, <3>1, <3>2
  <2>2. OnePicture(frames'[j]) /\ (delimited = "each" => ParametersTravelAlong(frames'[j]))
    BY <1>6, <1>7, <1>8, <2>1
  <2>3. OnePicture(frames[j])'
    BY <1>1, <2>2 DEF OnePicture, Openers
  <2>4. delimited = "each" => ParametersTravelAlong(frames[j])'
    BY <1>1, <2>2 DEF ParametersTravelAlong, WrittenFor
  <2> QED
    BY <2>3, <2>4
<1>9. FrameIsPicture'
  BY <1>1, <1>8 DEF FrameIsPicture
<1> QED
  BY <1>1, <1>2, <1>4, <1>5, <1>9 DEF FramesAreTheStream

LEMMA NalStart == NalInit => NalTypeOK /\ NalInv
<1> SUFFICES ASSUME NalInit
             PROVE  NalTypeOK /\ NalInv
  OBVIOUS
<1>1. NalTypeOK
  <2>1. <<>> \in Seq(Kinds) /\ <<>> \in Seq(Nat) /\ <<>> \in Seq(Seq(Nat))
    OBVIOUS
  <2> QED
    BY <2>1 DEF NalInit, NalTypeOK
<1>2. nals = <<>> /\ frames = <<>> /\ DOMAIN nals = {} /\ DOMAIN frames = {} /\ Held = {} /\ Spare = {} /\ ~ended
  BY InSeq DEF NalInit, Held, Spare
<1>3. OpenInv
  BY <1>2 DEF OpenInv, EachPlaced, OpenBehindDelimiter, OpenIsLast, InOrder, VclKnown,
              Pictures, OneFirst, Paired, NalInit
<1> QED
  BY <1>1, <1>2, <1>3 DEF NalInv

LEMMA NalStep == NalTypeOK /\ NalInv /\ [NalNext]_nalVars => NalTypeOK' /\ NalInv'
<1> SUFFICES ASSUME NalTypeOK, NalInv, [NalNext]_nalVars
             PROVE  NalTypeOK' /\ NalInv'
  OBVIOUS
<1>1. CASE End
  <2>1. OpenInv
    BY <1>1 DEF End, NalInv
  <2> QED
    BY <1>1, <2>1, EndSound DEF NalInv
<1>2. ASSUME NEW k \in Kinds, Unit(k)
      PROVE  NalTypeOK' /\ NalInv'
  <2>1. OpenInv
    BY <1>2 DEF Unit, NalInv
  <2>2. NalTypeOK' /\ Reads(k)
    BY <1>2, <2>1, UnitReads DEF OpenInv, OpenIsLast
  <2>3. OpenInv'
    BY <2>1, <2>2, PlacedStep, DelimiterStep, LastStep, VclStep, PicturesStep DEF OpenInv
  <2>4. ~ended'
    BY <2>2 DEF Reads
  <2> QED
    BY <2>2, <2>3, <2>4 DEF NalInv
<1>3. CASE UNCHANGED nalVars
  <2>1. UNCHANGED <<delimited, nals, prefix, current, hasVcl, frames, ended>>
    BY <1>3 DEF nalVars
  <2>2. NalTypeOK' /\ InOrder' = InOrder
    BY <2>1 DEF NalTypeOK, InOrder
  <2>3. OpenInv => OpenInv'
    BY <2>1, <2>2 DEF OpenInv, EachPlaced, OpenBehindDelimiter, OpenIsLast, VclKnown, Last,
                      Pictures, Held, Spare
  <2>4. FramesAreTheStream => FramesAreTheStream'
    BY <2>1, <2>2 DEF FramesAreTheStream, EachUnitOnce
  <2>5. FrameIsPicture => FrameIsPicture'
    BY <2>1 DEF FrameIsPicture, OnePicture, ParametersTravelAlong, Openers, WrittenFor
  <2> QED
    BY <2>1, <2>2, <2>3, <2>4, <2>5 DEF NalInv
<1> QED
  BY <1>1, <1>2, <1>3 DEF NalNext

(* Of a stream of any length, delimited in any way, every unit ends in       *)
(* exactly one frame, and in order unless only some pictures are delimited.  *)
THEOREM StreamIsKept == NalSpec => []FramesAreTheStream
<1>1. NalTypeOK /\ NalInv => FramesAreTheStream
  BY FramesSound DEF NalInv, NalTypeOK
<1> QED
  BY <1>1, NalStart, NalStep, PTL DEF NalSpec

(* And every frame is one picture, with the parameter sets written for it.   *)
THEOREM FramesArePictures == NalSpec => []FrameIsPicture
<1>1. NalTypeOK /\ NalInv => FrameIsPicture
  BY FramesSound DEF NalInv, NalTypeOK
<1> QED
  BY <1>1, NalStart, NalStep, PTL DEF NalSpec
=============================================================================
