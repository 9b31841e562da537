---------------------------- MODULE CellsProofs -----------------------------
(***************************************************************************)
(* Facts about the data of module Cells, and the form of induction the     *)
(* other proofs use.  An induction is over a set: a set that has the first *)
(* number of an interval, and the successor of each it has, has them all.  *)
(* The library's theorem that the finite subsets of a set are well founded *)
(* is what it rests on.                                                    *)
(***************************************************************************)
EXTENDS Cells, FiniteSetTheorems, SequenceTheorems, TLAPS

\* A sequence of n cells: a function, whatever its cells are.
IsSequenceOf(s, n) == s = [i \in 1 .. n |-> s[i]]

-----------------------------------------------------------------------------
(* Induction                                                               *)

\* A set of natural numbers has a least one.
LEMMA LeastNumber ==
    ASSUME NEW T \in SUBSET Nat, T # {}
    PROVE  \E x \in T : \A y \in T : ~(y < x)
<1> DEFINE Upto(n) == 0 .. n
           I == {Upto(n) : n \in T}
<1>1. I \subseteq FiniteSubsetsOf(Nat)
  <2>1. SUFFICES ASSUME NEW n \in T PROVE Upto(n) \in FiniteSubsetsOf(Nat)
    OBVIOUS
  <2>2. IsFiniteSet(0 .. n)
    BY FS_Interval
  <2>3. QED
    BY <2>2 DEF FiniteSubsetsOf
<1>2. I # {}
  OBVIOUS
<1>3. \E i \in I : \A j \in I : ~(<<j, i>> \in StrictSubsetOrdering(Nat))
  <2> HIDE DEF I
  <2> QED
    BY <1>1, <1>2, FS_StrictSubsetOrderingWellFounded, WFMin
<1>4. PICK x \in T : \A j \in I : ~(<<j, Upto(x)>> \in StrictSubsetOrdering(Nat))
  BY <1>3
<1>5. ASSUME NEW y \in T, y < x PROVE FALSE
  <2>1. ~(<<Upto(y), Upto(x)>> \in StrictSubsetOrdering(Nat))
    BY <1>4
  <2>2. Upto(y) \subseteq Upto(x)
    BY <1>5
  <2>3. x \in Upto(x) /\ x \notin Upto(y)
    BY <1>5
  <2>4. Upto(y) \in SUBSET Nat /\ Upto(x) \in SUBSET Nat
    OBVIOUS
  <2>5. QED
    BY <2>1, <2>2, <2>3, <2>4 DEF StrictSubsetOrdering
<1>6. QED
  BY <1>5

\* Induction over the numbers from a to b.
LEMMA IntervalInduction ==
    ASSUME NEW a \in Int, NEW b \in Int, NEW S,
           a <= b => a \in S,
           \A k \in a .. (b - 1) : k \in S => k + 1 \in S
    PROVE  a .. b \subseteq S
<1> DEFINE T == {n \in Nat : a + n <= b /\ a + n \notin S}
<1>1. SUFFICES ASSUME NEW k \in a .. b, k \notin S PROVE FALSE
  OBVIOUS
<1>2. k - a \in T
  BY <1>1
<1>3. PICK x \in T : \A y \in T : ~(y < x)
  <2>1. T \subseteq Nat /\ T # {}
    BY <1>2
  <2> HIDE DEF T
  <2>2. QED
    BY <2>1, LeastNumber
<1>4. x # 0
  OBVIOUS
<1>5. x - 1 \in Nat /\ x - 1 < x /\ a + (x - 1) \in a .. (b - 1)
  BY <1>4
<1>6. a + (x - 1) \in S
  BY <1>3, <1>5
<1>7. (a + (x - 1)) + 1 \in S
  BY <1>5, <1>6
<1>8. QED
  BY <1>7

-----------------------------------------------------------------------------
(* Sequences                                                               *)

\* The length of a sequence of n cells, and that it is one for module Sequences.
LEMMA SequenceLength ==
    ASSUME NEW n \in Nat, NEW s, IsSequenceOf(s, n)
    PROVE  /\ s \in Seq({s[i] : i \in 1 .. n})
           /\ Len(s) = n
           /\ DOMAIN s = 1 .. n
<1> DEFINE R == {s[i] : i \in 1 .. n}
<1>1. s \in [1 .. n -> R]
  BY DEF IsSequenceOf
<1> HIDE DEF R
<1>2. QED
  BY <1>1

\* A sequence of n cells behind one of m.
IsJoined(u, s, m, t, n) ==
    /\ IsSequenceOf(u, m + n)
    /\ \A i \in 1 .. m : u[i] = s[i]
    /\ \A i \in 1 .. n : u[m + i] = t[i]

LEMMA SequenceConcat ==
    ASSUME NEW m \in Nat, NEW n \in Nat, NEW s, NEW t,
           IsSequenceOf(s, m), IsSequenceOf(t, n)
    PROVE  IsJoined(s \o t, s, m, t, n)
<1> DEFINE R == {s[i] : i \in 1 .. m} \cup {t[i] : i \in 1 .. n}
<1>1. s \in [1 .. m -> R] /\ t \in [1 .. n -> R]
  BY DEF IsSequenceOf
<1> HIDE DEF R
<1>2. s \in Seq(R) /\ t \in Seq(R) /\ Len(s) = m /\ Len(t) = n
  BY <1>1
<1>3. s \o t \in Seq(R) /\ Len(s \o t) = m + n
  BY <1>2
<1>4. s \o t \in [1 .. (m + n) -> R]
  BY <1>3, LenProperties
<1>5. QED
  BY <1>2, <1>4 DEF IsSequenceOf, IsJoined

\* A part of a sequence of cells.
LEMMA SequencePart ==
    ASSUME NEW n \in Nat, NEW s, IsSequenceOf(s, n),
           NEW from \in Nat, NEW size \in Nat, from + size <= n
    PROVE  /\ IsSequenceOf(SubSeq(s, from + 1, from + size), size)
           /\ \A i \in 1 .. size : SubSeq(s, from + 1, from + size)[i] = s[from + i]
<1>1. s \in Seq({s[i] : i \in 1 .. n}) /\ Len(s) = n
  BY SequenceLength
<1> DEFINE R == {s[i] : i \in 1 .. n}
           t == SubSeq(s, from + 1, from + size)
<1>2. \A i \in (from + 1) .. (from + size) : s[i] \in R
  OBVIOUS
<1>3. /\ Len(t) = IF from + 1 <= from + size THEN (from + size) - (from + 1) + 1 ELSE 0
      /\ t \in Seq(R)
      /\ \A i \in 1 .. (from + size) - (from + 1) + 1 : t[i] = s[(from + 1) + i - 1]
  <2> HIDE DEF R
  <2>1. QED
    BY <1>2, SubSeqProperties
<1>4. \A i \in 1 .. size : (from + 1) + i - 1 = from + i
  OBVIOUS
<1> HIDE DEF R, t
<1>7. Len(t) = size /\ t \in [1 .. size -> R]
  BY <1>3, LenProperties
<1>5. IsSequenceOf(t, size)
  BY <1>7 DEF IsSequenceOf
<1>6. \A i \in 1 .. size : t[i] = s[from + i]
  <2>1. SUFFICES ASSUME NEW i \in 1 .. size PROVE t[i] = s[from + i]
    OBVIOUS
  <2>2. i \in 1 .. (from + size) - (from + 1) + 1
    OBVIOUS
  <2>3. QED
    BY <1>3, <1>4, <2>2
<1>8. QED
  BY <1>5, <1>6 DEF t

\* The first cells of a sequence.
LEMMA SequenceStart ==
    ASSUME NEW n \in Nat, NEW s, IsSequenceOf(s, n), NEW size \in Nat, size <= n
    PROVE  /\ IsSequenceOf(SubSeq(s, 1, size), size)
           /\ \A i \in 1 .. size : SubSeq(s, 1, size)[i] = s[i]
<1>1. 0 \in Nat /\ 0 + size <= n
  OBVIOUS
<1>2. /\ IsSequenceOf(SubSeq(s, 0 + 1, 0 + size), size)
      /\ \A i \in 1 .. size : SubSeq(s, 0 + 1, 0 + size)[i] = s[0 + i]
  BY <1>1, SequencePart
<1>3. 0 + 1 = 1 /\ 0 + size = size /\ \A i \in 1 .. size : 0 + i = i
  OBVIOUS
<1>4. QED
  BY <1>2, <1>3

\* Sequences of the same length are equal when their cells are.
LEMMA SequencesEqual ==
    ASSUME NEW n, NEW s, NEW t, IsSequenceOf(s, n), IsSequenceOf(t, n),
           \A i \in 1 .. n : s[i] = t[i]
    PROVE  s = t
BY DEF IsSequenceOf

LEMMA SequenceWhole ==
    ASSUME NEW n \in Nat, NEW s, IsSequenceOf(s, n)
    PROVE  SubSeq(s, 1, n) = s
<1> DEFINE t == SubSeq(s, 1, n)
<1>1. IsSequenceOf(t, n) /\ \A i \in 1 .. n : t[i] = s[i]
  BY SequenceStart
<1> HIDE DEF t
<1>2. t = s
  BY <1>1, SequencesEqual
<1>3. QED
  BY <1>2 DEF t

\* What is put behind a sequence can be cut off.
LEMMA SequenceCut ==
    ASSUME NEW m \in Nat, NEW n \in Nat, NEW s, NEW t,
           IsSequenceOf(s, m), IsSequenceOf(t, n)
    PROVE  SubSeq(s \o t, 1, m) = s
<1> DEFINE u == s \o t
           v == SubSeq(u, 1, m)
<1>1. IsJoined(u, s, m, t, n)
  BY SequenceConcat, Zenon
<1> HIDE DEF u
<1>2. m + n \in Nat /\ m <= m + n
  OBVIOUS
<1>3. IsSequenceOf(v, m) /\ \A i \in 1 .. m : v[i] = u[i]
  BY <1>1, <1>2, SequenceStart DEF IsJoined
<1> HIDE DEF v
<1>4. v = s
  BY <1>1, <1>3, SequencesEqual DEF IsJoined
<1>5. QED
  BY <1>4 DEF v, u

-----------------------------------------------------------------------------
(* Cells and digests                                                       *)

\* The sizes of the digests, for proofs that look at each.
LEMMA DigestSizes ==
    ASSUME NEW m \in HashMethods
    PROVE  HashSize[m] \in {5, 7, 8, 16} /\ HashSize[m] \in Nat
BY DEF HashMethods, HashSize

LEMMA DigestIsSequence ==
    ASSUME NEW m, NEW message
    PROVE  IsSequenceOf(Digest(m, message), HashSize[m])
BY DEF Digest, IsSequenceOf

LEMMA HmacIsSequence ==
    ASSUME NEW m, NEW key, NEW message
    PROVE  IsSequenceOf(Hmac(m, key, message), HashSize[m])
BY DEF Hmac, IsSequenceOf

LEMMA ZerosAreSequence ==
    ASSUME NEW n
    PROVE  IsSequenceOf(Zeros(n), n)
BY DEF Zeros, IsSequenceOf

LEMMA XorIsSequence ==
    ASSUME NEW n, NEW a, NEW b, IsSequenceOf(a, n)
    PROVE  /\ IsSequenceOf(Xor(a, b), n)
           /\ \A i \in 1 .. n : Xor(a, b)[i] = (a[i] \ b[i]) \cup (b[i] \ a[i])
BY DEF Xor, SymDiff, IsSequenceOf

LEMMA XorCell ==
    ASSUME NEW n, NEW a, NEW b, IsSequenceOf(a, n), NEW i \in 1 .. n
    PROVE  Xor(a, b)[i] = (a[i] \ b[i]) \cup (b[i] \ a[i])
BY DEF Xor, SymDiff, IsSequenceOf

\* What is added twice is gone.
LEMMA XorTwice ==
    ASSUME NEW n, NEW a, NEW b, IsSequenceOf(a, n), IsSequenceOf(b, n)
    PROVE  Xor(a, Xor(a, b)) = b
<1>1. \A i \in 1 .. n : Xor(a, Xor(a, b))[i] = b[i]
  <2>1. SUFFICES ASSUME NEW i \in 1 .. n PROVE Xor(a, Xor(a, b))[i] = b[i]
    OBVIOUS
  <2>2. Xor(a, b)[i] = (a[i] \ b[i]) \cup (b[i] \ a[i])
    BY XorIsSequence
  <2>3. Xor(a, Xor(a, b))[i]
          = (a[i] \ Xor(a, b)[i]) \cup (Xor(a, b)[i] \ a[i])
    BY XorIsSequence
  <2>4. QED
    BY <2>2, <2>3
<1>2. IsSequenceOf(Xor(a, Xor(a, b)), n)
  BY XorIsSequence
<1>3. QED
  BY <1>1, <1>2, SequencesEqual

\* Zero bytes change nothing.
LEMMA XorZeros ==
    ASSUME NEW n, NEW b, IsSequenceOf(b, n)
    PROVE  Xor(Zeros(n), b) = b
<1>1. IsSequenceOf(Zeros(n), n)
  BY ZerosAreSequence
<1>2. ASSUME NEW i \in 1 .. n PROVE Xor(Zeros(n), b)[i] = b[i]
  <2>1. Zeros(n)[i] = {}
    BY DEF Zeros
  <2>2. Xor(Zeros(n), b)[i] = (Zeros(n)[i] \ b[i]) \cup (b[i] \ Zeros(n)[i])
    BY DEF Xor, SymDiff, Zeros
  <2>3. QED
    BY <2>1, <2>2
<1>3. IsSequenceOf(Xor(Zeros(n), b), n)
  BY <1>1, XorIsSequence
<1>4. QED
  BY <1>2, <1>3, SequencesEqual
=============================================================================
