--------------------------- MODULE DiffuserProofs ---------------------------
(***************************************************************************)
(* Merging the stripes undoes the splitter, for every digest, size of key  *)
(* and number of stripes, and reads no more than the split data.  The      *)
(* facts here are about the steps of module Diffuser;                      *)
(* VolumeDecryptionProofs makes theorems of the whole of them.             *)
(***************************************************************************)
EXTENDS Diffuser, CellsProofs

-----------------------------------------------------------------------------
(* The splitter                                                            *)

\* Random stripes of the size of a key.
AreStripes(random, size, n) ==
    /\ Len(random) = n
    /\ \A k \in 1 .. n : IsSequenceOf(random[k], size)

IsSplitChain(d, m, size, random, n) ==
    d = [k \in 0 .. n |-> IF k = 0 THEN Zeros(size)
                          ELSE Diffused(m, Xor(d[k - 1], random[k]))]

LEMMA SplitChainExists ==
    ASSUME NEW m, NEW size, NEW random, NEW n \in Nat
    PROVE  \E d : IsSplitChain(d, m, size, random, n)
<1> DEFINE S == {k \in 0 .. n : \E d : IsSplitChain(d, m, size, random, k)}
<1>1. 0 \in S
  <2> DEFINE v == [k \in 0 .. 0 |-> Zeros(size)]
  <2>1. \A k \in 0 .. 0 : v[k] = IF k = 0 THEN Zeros(size)
                                 ELSE Diffused(m, Xor(v[k - 1], random[k]))
    OBVIOUS
  <2>2. v = [k \in 0 .. 0 |-> v[k]]
    OBVIOUS
  <2> HIDE DEF v
  <2>3. IsSplitChain(v, m, size, random, 0)
    BY <2>1, <2>2 DEF IsSplitChain
  <2>4. QED
    BY <2>3
<1>2. ASSUME NEW k \in 0 .. (n - 1), k \in S PROVE k + 1 \in S
  <2>1. PICK d : IsSplitChain(d, m, size, random, k)
    BY <1>2
  <2> DEFINE v == [j \in 0 .. (k + 1) |->
                     IF j <= k THEN d[j]
                     ELSE Diffused(m, Xor(d[j - 1], random[j]))]
  <2>2. \A j \in 0 .. (k + 1) :
           v[j] = IF j = 0 THEN Zeros(size) ELSE Diffused(m, Xor(v[j - 1], random[j]))
    <3>1. SUFFICES ASSUME NEW j \in 0 .. (k + 1)
                   PROVE  v[j] = IF j = 0 THEN Zeros(size)
                                 ELSE Diffused(m, Xor(v[j - 1], random[j]))
      OBVIOUS
    <3>2. j # 0 => v[j - 1] = d[j - 1]
      OBVIOUS
    <3>3. CASE j <= k
      <4>1. j \in 0 .. k
        BY <3>3
      <4>2. d[j] = IF j = 0 THEN Zeros(size) ELSE Diffused(m, Xor(d[j - 1], random[j]))
        BY <2>1, <4>1, Zenon DEF IsSplitChain
      <4>3. v[j] = d[j]
        BY <3>3
      <4>4. QED
        BY <3>2, <4>2, <4>3
    <3>4. CASE ~(j <= k)
      <4>1. v[j] = Diffused(m, Xor(d[j - 1], random[j])) /\ j # 0
        BY <3>4
      <4>2. QED
        BY <3>2, <4>1
    <3>5. QED
      BY <3>3, <3>4
  <2>3. v = [j \in 0 .. (k + 1) |-> v[j]]
    OBVIOUS
  <2> HIDE DEF v
  <2>4. IsSplitChain(v, m, size, random, k + 1)
    BY <2>2, <2>3 DEF IsSplitChain
  <2>5. QED
    BY <2>4
<1> HIDE DEF S
<1>3. 0 .. n \subseteq S
  BY <1>1, <1>2, IntervalInduction
<1>4. QED
  BY <1>3 DEF S

LEMMA DiffusedIsSequence ==
    ASSUME NEW m, NEW size \in Nat, NEW data, IsSequenceOf(data, size)
    PROVE  IsSequenceOf(Diffused(m, data), size)
<1>1. DOMAIN data = 1 .. size
  BY DEF IsSequenceOf
<1>2. QED
  BY <1>1 DEF Diffused, IsSequenceOf

LEMMA SplitChainDef ==
    ASSUME NEW m, NEW size, NEW random, NEW n \in Nat, AreStripes(random, size, n)
    PROVE  IsSplitChain(SplitChain(m, size, random), m, size, random, n)
<1>1. SplitChain(m, size, random)
        = CHOOSE d : IsSplitChain(d, m, size, random, Len(random))
  BY Zenon DEF SplitChain, IsSplitChain
<1>2. Len(random) = n
  BY DEF AreStripes
<1>3. QED
  BY <1>1, <1>2, SplitChainExists

\* What the definition says of the elements of the chain.
LEMMA SplitChainFirst ==
    ASSUME NEW m, NEW size, NEW random, NEW n \in Nat, AreStripes(random, size, n)
    PROVE  SplitChain(m, size, random)[0] = Zeros(size)
<1> DEFINE d == SplitChain(m, size, random)
<1>1. IsSplitChain(d, m, size, random, n)
  BY SplitChainDef
<1> HIDE DEF d
<1>2. 0 \in 0 .. n
  OBVIOUS
<1>3. d[0] = IF 0 = 0 THEN Zeros(size) ELSE Diffused(m, Xor(d[0 - 1], random[0]))
  BY <1>1, <1>2, Zenon DEF IsSplitChain
<1>4. QED
  BY <1>3 DEF d

LEMMA SplitChainNext ==
    ASSUME NEW m, NEW size, NEW random, NEW n \in Nat, AreStripes(random, size, n),
           NEW k \in 1 .. n
    PROVE  SplitChain(m, size, random)[k]
             = Diffused(m, Xor(SplitChain(m, size, random)[k - 1], random[k]))
<1> DEFINE d == SplitChain(m, size, random)
<1>1. IsSplitChain(d, m, size, random, n)
  BY SplitChainDef
<1> HIDE DEF d
<1>2. k \in 0 .. n /\ k # 0
  OBVIOUS
<1>3. d[k] = IF k = 0 THEN Zeros(size) ELSE Diffused(m, Xor(d[k - 1], random[k]))
  BY <1>1, <1>2, Zenon DEF IsSplitChain
<1>4. QED
  BY <1>2, <1>3 DEF d

LEMMA SplitChainIsSequence ==
    ASSUME NEW m, NEW size \in Nat, NEW random, NEW n \in Nat,
           AreStripes(random, size, n), NEW k \in 0 .. n
    PROVE  IsSequenceOf(SplitChain(m, size, random)[k], size)
<1> DEFINE d == SplitChain(m, size, random)
           S == {j \in 0 .. n : IsSequenceOf(d[j], size)}
<1>1. d[0] = Zeros(size)
  BY SplitChainFirst
<1>2. ASSUME NEW j \in 1 .. n PROVE d[j] = Diffused(m, Xor(d[j - 1], random[j]))
  BY SplitChainNext
<1> HIDE DEF d
<1>3. 0 \in S
  BY <1>1, ZerosAreSequence
<1>4. ASSUME NEW j \in 0 .. (n - 1), j \in S PROVE j + 1 \in S
  <2>1. j + 1 \in 1 .. n /\ (j + 1) - 1 = j
    OBVIOUS
  <2>2. d[j + 1] = Diffused(m, Xor(d[j], random[j + 1]))
    BY <1>2, <2>1
  <2>3. IsSequenceOf(d[j], size)
    BY <1>4
  <2>4. IsSequenceOf(Xor(d[j], random[j + 1]), size)
    BY <2>3, XorIsSequence
  <2>5. QED
    BY <2>1, <2>2, <2>4, DiffusedIsSequence
<1> HIDE DEF S
<1>5. 0 .. n \subseteq S
  BY <1>3, <1>4, IntervalInduction
<1>6. QED
  BY <1>5 DEF S, d

\* Where a stripe is in the split data.
LEMMA StripePlace ==
    ASSUME NEW size \in Nat \ {0}, NEW k \in Nat, NEW i \in 1 .. size
    PROVE  /\ (k * size) + i \in Nat
           /\ ((((k * size) + i) - 1) \div size) + 1 = k + 1
           /\ ((((k * size) + i) - 1) % size) + 1 = i
<1> DEFINE q == k * size
           r == i - 1
<1>1. q \in Nat /\ r \in 0 .. (size - 1) /\ (q + i) - 1 = (k * size) + r
  OBVIOUS
<1>2. ((k * size) + r) \div size = k /\ ((k * size) + r) % size = r
  BY <1>1
<1>3. QED
  BY <1>1, <1>2

LEMMA StripesFit ==
    ASSUME NEW size \in Nat \ {0}, NEW total \in Nat, NEW n \in Nat,
           n <= total \div size
    PROVE  n * size <= total
<1>1. (total \div size) * size <= total
  OBVIOUS
<1>2. n * size <= (total \div size) * size
  <2>1. ASSUME NEW a \in Nat, NEW b \in Nat, a <= b PROVE a * size <= b * size
    BY <2>1
  <2>2. total \div size \in Nat
    OBVIOUS
  <2>3. QED
    BY <2>1, <2>2
<1>3. total \div size \in Nat /\ n * size \in Nat /\ (total \div size) * size \in Nat
  OBVIOUS
<1>4. QED
  BY <1>1, <1>2, <1>3

\* The stripes are in their places, and the last with the key.
HasStripes(split, d, size, key, random, n) ==
    /\ IsSequenceOf(split, size * (n + 1))
    /\ \A k \in 0 .. n, i \in 1 .. size :
          split[(k * size) + i]
             = IF k < n THEN random[k + 1][i] ELSE Xor(d[n], key)[i]

LEMMA SplitKeyStripes ==
    ASSUME NEW m, NEW size \in Nat \ {0}, NEW key, IsSequenceOf(key, size),
           NEW random, NEW n \in Nat, AreStripes(random, size, n)
    PROVE  HasStripes(SplitKey(m, key, random), SplitChain(m, size, random),
                      size, key, random, n)
<1> DEFINE d == SplitChain(m, size, random)
           stripe(k) == IF k <= n THEN random[k] ELSE Xor(d[n], key)
           split == SplitKey(m, key, random)
<1>1. Len(key) = size /\ Len(random) = n
  BY SequenceLength DEF AreStripes
<1>2. split = [i \in 1 .. (size * (n + 1)) |->
                  stripe(((i - 1) \div size) + 1)[((i - 1) % size) + 1]]
  BY <1>1 DEF SplitKey
<1> HIDE DEF split, d
<1>3. IsSequenceOf(split, size * (n + 1))
  BY <1>2 DEF IsSequenceOf
<1>4. ASSUME NEW k \in 0 .. n, NEW i \in 1 .. size
      PROVE  split[(k * size) + i]
                = IF k < n THEN random[k + 1][i] ELSE Xor(d[n], key)[i]
  <2> DEFINE j == (k * size) + i
  <2>1. ((j - 1) \div size) + 1 = k + 1 /\ ((j - 1) % size) + 1 = i /\ j \in Nat
    <3>1. k \in Nat
      OBVIOUS
    <3>2. QED
      BY <3>1, StripePlace
  <2>2. j \in 1 .. (size * (n + 1))
    <3>1. k * size \in Nat /\ k * size <= n * size
      <4>1. k \in Nat /\ k <= n
        OBVIOUS
      <4>2. QED
        BY <4>1
    <3>2. size * (n + 1) = (n * size) + size
      OBVIOUS
    <3>3. n * size \in Nat
      OBVIOUS
    <3>4. QED
      BY <2>1, <3>1, <3>2, <3>3
  <2> HIDE DEF j
  <2>3. split[j] = stripe(k + 1)[i]
    BY <1>2, <2>1, <2>2
  <2>4. k + 1 <= n <=> k < n
    OBVIOUS
  <2>5. QED
    BY <2>3, <2>4 DEF j
<1>5. QED
  BY <1>3, <1>4 DEF split, d, HasStripes

-----------------------------------------------------------------------------
(* The invariant of merge and diffuse                                      *)

MergeRecord ==
    merge = [pc |-> merge.pc, split_data |-> merge.split_data,
             split_data_offset |-> merge.split_data_offset,
             number_of_stripes |-> merge.number_of_stripes,
             stripe_iterator |-> merge.stripe_iterator,
             method |-> merge.method, data |-> merge.data,
             data_offset |-> merge.data_offset, data_size |-> merge.data_size,
             block_index |-> merge.block_index]

MergeRuns == merge.pc \in {"stripe", "diffuse", "done"}

\* The buffers, and the stripes that were added to the data.
MergeBounds ==
    /\ Len(merge.data) \in Nat \ {0}
    /\ IsSequenceOf(merge.data, Len(merge.data))
    /\ Len(merge.split_data) \in Nat
    /\ merge.number_of_stripes \in Nat \ {0}
    /\ merge.number_of_stripes * Len(merge.data) <= Len(merge.split_data)
    /\ merge.stripe_iterator \in 0 .. merge.number_of_stripes - 1
    /\ merge.data_offset \in 0 .. Len(merge.data)
    /\ merge.split_data_offset =
          (merge.stripe_iterator + IF merge.pc = "stripe" THEN 0 ELSE 1)
              * Len(merge.data)
    /\ merge.pc = "done" => merge.stripe_iterator = merge.number_of_stripes - 1

\* The blocks of a stripe that were hashed are whole digests, until the last.
DiffuseBounds ==
    /\ merge.method \in HashMethods
    /\ merge.stripe_iterator < merge.number_of_stripes - 1
    /\ merge.data_size \in Nat
    /\ merge.data_offset + merge.data_size = Len(merge.data)
    /\ merge.block_index \in Nat
    /\ merge.data_size > 0 =>
          merge.data_offset = merge.block_index * HashSize[merge.method]

MergeInv ==
    /\ MergeRecord
    /\ merge.pc \in MergePlaces
    /\ ~ MergeRuns => merge = [MergeIdle EXCEPT !.pc = merge.pc]
    /\ MergeRuns => MergeBounds
    /\ merge.pc = "diffuse" => DiffuseBounds

\* What the data are while the stripes of a key are merged: between two stripes
\* an element of the splitter's chain, within one its first blocks are hashed,
\* after the last the key.
MergeFollows(m, size, key, random) ==
    LET d == SplitChain(m, size, random)
        k == merge.stripe_iterator
        sum == Xor(d[k], random[k + 1])
    IN  /\ merge.pc = "stripe" => merge.data = d[k]
        /\ merge.pc = "diffuse" =>
              \A j \in 1 .. size :
                 merge.data[j] = IF j <= merge.data_offset THEN Diffused(m, sum)[j]
                                 ELSE sum[j]
        /\ merge.pc = "done" => merge.data = key

\* The call is for the stripes of a key, and for the method they were made with.
MergeIsOf(m, size, key, random) ==
    /\ Len(merge.data) = size
    /\ merge.split_data = SplitKey(m, key, random)
    /\ merge.number_of_stripes = Len(random) + 1
    /\ merge.method \in HashMethods => merge.method = m

LEMMA MergeInitInv == merge = MergeIdle => MergeInv
BY DEF MergeInv, MergeRecord, MergeIdle, MergePlaces, MergeRuns

\* A call fails or begins with data of zero.
LEMMA MergeStarts ==
    ASSUME MergeInv, NEW split_data, Len(split_data) \in Nat, NEW size, NEW stripes,
           NEW method, Merge(split_data, size, stripes, method)
    PROVE  /\ MergeInv'
           /\ \/ merge'.pc = "failed"
              \/ /\ merge'.pc = "stripe" /\ size \in Nat \ {0}
                 /\ merge'.split_data = split_data
                 /\ merge'.number_of_stripes = stripes /\ merge'.method = method
                 /\ merge'.data = Zeros(size) /\ Len(merge'.data) = size
                 /\ merge'.stripe_iterator = 0
<1>1. CASE ~(size \in 1 .. Len(split_data)
             /\ stripes \in 1 .. (Len(split_data) \div size))
  <2>1. merge' = [MergeIdle EXCEPT !.pc = "failed"]
    BY <1>1 DEF Merge
  <2>2. QED
    BY <2>1 DEF MergeInv, MergeRecord, MergeIdle, MergePlaces, MergeRuns
<1>2. CASE size \in 1 .. Len(split_data)
           /\ stripes \in 1 .. (Len(split_data) \div size)
  <2>1. merge' = [MergeIdle EXCEPT
                    !.pc = "stripe", !.split_data = split_data,
                    !.number_of_stripes = stripes, !.method = method,
                    !.data = Zeros(size)]
    BY <1>2 DEF Merge
  <2>2. /\ merge'.pc = "stripe" /\ merge'.split_data = split_data
        /\ merge'.number_of_stripes = stripes /\ merge'.method = method
        /\ merge'.data = Zeros(size) /\ merge'.split_data_offset = 0
        /\ merge'.stripe_iterator = 0 /\ merge'.data_offset = 0
    BY <2>1 DEF MergeIdle
  <2>3. MergeRecord'
    BY <2>1 DEF MergeRecord, MergeIdle
  <2>4. size \in Nat \ {0} /\ stripes \in Nat \ {0}
        /\ stripes <= Len(split_data) \div size
    BY <1>2
  <2>5. IsSequenceOf(Zeros(size), size) /\ Len(Zeros(size)) = size
    BY <2>4, ZerosAreSequence, SequenceLength
  <2>6. stripes * size <= Len(split_data)
    BY <2>4, StripesFit
  <2>7. MergeBounds'
    <3>1. (0 + 0) * size = 0
      BY <2>4
    <3>2. QED
      BY <2>2, <2>4, <2>5, <2>6, <3>1 DEF MergeBounds
  <2>8. QED
    BY <2>2, <2>3, <2>4, <2>5, <2>7 DEF MergeInv, MergeRuns, MergePlaces
<1>3. QED
  BY <1>1, <1>2

\* The data of zero are the first element of the chain.
LEMMA MergeBegins ==
    ASSUME NEW m, NEW size \in Nat, NEW key, NEW random, NEW n \in Nat,
           AreStripes(random, size, n),
           merge'.pc = "stripe", merge'.stripe_iterator = 0, merge'.data = Zeros(size)
    PROVE  MergeFollows(m, size, key, random)'
<1>1. SplitChain(m, size, random)[0] = Zeros(size)
  BY SplitChainFirst
<1>2. QED
  BY <1>1 DEF MergeFollows

\* The data of the next stripe, cell by cell.
LEMMA StripeIsAdded ==
    ASSUME MergeBounds
    PROVE  /\ IsSequenceOf(StripeAdded, Len(merge.data))
           /\ Len(StripeAdded) = Len(merge.data)
           /\ \A i \in 1 .. Len(merge.data) :
                 LET cell == merge.split_data[merge.split_data_offset + i]
                 IN  StripeAdded[i] = (merge.data[i] \ cell) \cup (cell \ merge.data[i])
<1>1. DOMAIN merge.data = 1 .. Len(merge.data)
  BY DEF MergeBounds, IsSequenceOf
<1>2. IsSequenceOf(StripeAdded, Len(merge.data))
  BY <1>1 DEF StripeAdded, IsSequenceOf
<1>3. Len(StripeAdded) = Len(merge.data)
  <2>1. Len(merge.data) \in Nat
    BY DEF MergeBounds
  <2> DEFINE size == Len(merge.data)
  <2> HIDE DEF size
  <2>2. IsSequenceOf(StripeAdded, size) /\ size \in Nat
    BY <1>2, <2>1 DEF size
  <2>3. QED
    BY <2>2, SequenceLength DEF size
<1>4. ASSUME NEW i \in 1 .. Len(merge.data)
      PROVE  LET cell == merge.split_data[merge.split_data_offset + i]
             IN  StripeAdded[i] = (merge.data[i] \ cell) \cup (cell \ merge.data[i])
  <2> DEFINE cell == merge.split_data[merge.split_data_offset + i]
  <2>1. StripeAdded[i] = Xor(<<merge.data[i]>>, <<cell>>)[1]
    BY <1>1 DEF StripeAdded
  <2>2. QED
    BY <2>1 DEF Xor, SymDiff
<1>5. QED
  BY <1>2, <1>3, <1>4

-----------------------------------------------------------------------------
(* The steps                                                               *)

\* What a step of the functions leaves as merge was called with.
MergeCallKept ==
    /\ merge'.split_data = merge.split_data
    /\ merge'.number_of_stripes = merge.number_of_stripes
    /\ merge'.method = merge.method
    /\ Len(merge'.data) = Len(merge.data)

\* The size of the next block of the data, and its digest.
ReadSize == Smaller(merge.data_size, HashSize[merge.method])

BlockHash ==
    Digest(merge.method,
           <<merge.block_index,
             SubSeq(merge.data, merge.data_offset + 1,
                    merge.data_offset + ReadSize)>>)

\* What one round of the loop of diffuse does, cell by cell.
LEMMA BlockIsHashed ==
    ASSUME MergeInv, DiffuseBlock
    PROVE  /\ merge.pc = "diffuse" /\ merge'.pc = "diffuse"
           /\ MergeRecord' /\ MergeCallKept
           /\ MergeBounds /\ DiffuseBounds /\ merge.data_size > 0
           /\ ReadSize \in 1 .. merge.data_size
           /\ ReadSize = HashSize[merge.method] \/ ReadSize = merge.data_size
           /\ HashSize[merge.method] \in {5, 7, 8, 16}
           /\ merge'.stripe_iterator = merge.stripe_iterator
           /\ merge'.split_data_offset = merge.split_data_offset
           /\ merge'.data_offset = merge.data_offset + ReadSize
           /\ merge'.data_size = merge.data_size - ReadSize
           /\ merge'.block_index = merge.block_index + 1
           /\ IsSequenceOf(merge'.data, Len(merge.data))
           /\ \A i \in 1 .. Len(merge.data) :
                 merge'.data[i] =
                    IF i \in (merge.data_offset + 1) .. (merge.data_offset + ReadSize)
                    THEN BlockHash[i - merge.data_offset] ELSE merge.data[i]
<1> DEFINE from == merge.data_offset
           size == Len(merge.data)
           hashed == [i \in DOMAIN merge.data |->
                        IF i \in (from + 1) .. (from + ReadSize)
                        THEN BlockHash[i - from] ELSE merge.data[i]]
<1>1. /\ merge.pc = "diffuse" /\ merge.data_size > 0
      /\ merge' = [merge EXCEPT !.data = hashed, !.data_offset = from + ReadSize,
                                !.data_size = merge.data_size - ReadSize,
                                !.block_index = merge.block_index + 1]
  BY DEF DiffuseBlock, ReadSize, BlockHash
<1>2. MergeBounds /\ DiffuseBounds /\ MergeRecord
  BY <1>1 DEF MergeInv, MergeRuns
<1>3. HashSize[merge.method] \in {5, 7, 8, 16}
  BY <1>2, DigestSizes DEF DiffuseBounds
<1>4. /\ ReadSize \in 1 .. merge.data_size
      /\ ReadSize = HashSize[merge.method] \/ ReadSize = merge.data_size
  BY <1>1, <1>2, <1>3 DEF ReadSize, Smaller, DiffuseBounds
<1>5. DOMAIN merge.data = 1 .. size
  BY <1>2 DEF MergeBounds, IsSequenceOf
<1>6. /\ IsSequenceOf(hashed, size)
      /\ \A i \in 1 .. size : hashed[i] = IF i \in (from + 1) .. (from + ReadSize)
                                         THEN BlockHash[i - from] ELSE merge.data[i]
  BY <1>5 DEF IsSequenceOf
<1> HIDE DEF hashed
<1>7. /\ merge'.pc = merge.pc /\ merge'.split_data = merge.split_data
      /\ merge'.split_data_offset = merge.split_data_offset
      /\ merge'.number_of_stripes = merge.number_of_stripes
      /\ merge'.stripe_iterator = merge.stripe_iterator
      /\ merge'.method = merge.method /\ merge'.data = hashed
      /\ merge'.data_offset = from + ReadSize
      /\ merge'.data_size = merge.data_size - ReadSize
      /\ merge'.block_index = merge.block_index + 1
  BY <1>1, <1>2 DEF MergeRecord
<1>8. MergeRecord'
  BY <1>1, <1>2 DEF MergeRecord
<1>9. Len(hashed) = size
  <2>1. size \in Nat
    BY <1>2 DEF MergeBounds
  <2> HIDE DEF size
  <2>2. QED
    BY <1>6, <2>1, SequenceLength
<1>10. QED
  BY <1>1, <1>2, <1>3, <1>4, <1>6, <1>7, <1>8, <1>9 DEF MergeCallKept

\* A stripe is added: what MergeStripe and MergeLastStripe do to the data.
LEMMA StripesLeft ==
    ASSUME MergeBounds, merge.pc = "stripe"
    PROVE  /\ merge.split_data_offset = merge.stripe_iterator * Len(merge.data)
           /\ merge.split_data_offset \in Nat
           /\ merge.split_data_offset + Len(merge.data)
                 = (merge.stripe_iterator + 1) * Len(merge.data)
           /\ merge.split_data_offset + Len(merge.data) <= Len(merge.split_data)
<1> DEFINE k == merge.stripe_iterator
           size == Len(merge.data)
           n == merge.number_of_stripes
           total == Len(merge.split_data)
<1>1. /\ k \in Nat /\ n \in Nat /\ k + 1 <= n /\ size \in Nat /\ total \in Nat
      /\ n * size <= total /\ merge.split_data_offset = (k + 0) * size
  BY DEF MergeBounds
<1> HIDE DEF k, size, n, total
<1>2. (k + 1) * size <= n * size
  <2>1. ASSUME NEW a \in Nat, NEW b \in Nat, a <= b PROVE a * size <= b * size
    BY <1>1, <2>1
  <2>2. k + 1 \in Nat
    BY <1>1
  <2>3. QED
    BY <1>1, <2>1, <2>2
<1>3. /\ (k + 1) * size = (k * size) + size /\ (k + 0) * size = k * size
      /\ (k + 1) * size \in Nat /\ n * size \in Nat /\ k * size \in Nat
  BY <1>1
<1>4. /\ merge.split_data_offset = k * size
      /\ merge.split_data_offset \in Nat
      /\ merge.split_data_offset + size = (k + 1) * size
      /\ merge.split_data_offset + size <= total
  BY <1>1, <1>2, <1>3
<1>5. QED
  BY <1>4 DEF k, size, total

\* The steps keep the invariant and what merge was called with.
LEMMA MergeStepKeeps ==
    ASSUME MergeInv, MergeStep
    PROVE  /\ MergeInv'
           /\ merge.pc # "idle" /\ merge'.pc # "idle"
           /\ merge'.pc = "failed" \/ (MergeRuns /\ MergeCallKept)
<1> DEFINE k == merge.stripe_iterator
           size == Len(merge.data)
<1>1. CASE MergeStripe
  <2>1. /\ merge.pc = "stripe" /\ k < merge.number_of_stripes - 1
        /\ merge' = IF merge.method \in HashMethods
                    THEN [merge EXCEPT
                            !.pc = "diffuse", !.data = StripeAdded,
                            !.split_data_offset = merge.split_data_offset + size,
                            !.data_offset = 0, !.data_size = size,
                            !.block_index = 0]
                    ELSE [MergeIdle EXCEPT !.pc = "failed"]
    BY <1>1 DEF MergeStripe
  <2>2. MergeBounds /\ MergeRecord /\ MergeRuns
    BY <2>1 DEF MergeInv, MergeRuns
  <2>3. CASE merge.method \notin HashMethods
    BY <2>1, <2>3 DEF MergeInv, MergeRecord, MergeIdle, MergePlaces, MergeRuns
  <2>4. CASE merge.method \in HashMethods
    <3>1. /\ IsSequenceOf(StripeAdded, size) /\ Len(StripeAdded) = size
          /\ merge.split_data_offset + size = (k + 1) * size
      BY <2>1, <2>2, StripeIsAdded, StripesLeft
    <3>2. /\ merge'.pc = "diffuse" /\ merge'.split_data = merge.split_data
          /\ merge'.split_data_offset = merge.split_data_offset + size
          /\ merge'.number_of_stripes = merge.number_of_stripes
          /\ merge'.stripe_iterator = k
          /\ merge'.method = merge.method /\ merge'.data = StripeAdded
          /\ merge'.data_offset = 0 /\ merge'.data_size = size
          /\ merge'.block_index = 0
      BY <2>1, <2>2, <2>4 DEF MergeRecord
    <3>3. MergeRecord'
      BY <2>1, <2>2, <2>4 DEF MergeRecord
    <3>4. MergeBounds'
      BY <2>1, <2>2, <3>1, <3>2 DEF MergeBounds
    <3>5. DiffuseBounds'
      <4>1. 0 = 0 * HashSize[merge.method]
        BY <2>4, DigestSizes
      <4>2. QED
        BY <2>1, <2>2, <2>4, <3>1, <3>2, <4>1 DEF DiffuseBounds, MergeBounds
    <3>6. QED
      BY <2>1, <2>2, <3>1, <3>2, <3>3, <3>4, <3>5
         DEF MergeInv, MergeRuns, MergePlaces, MergeCallKept
  <2>5. QED
    BY <2>3, <2>4
<1>2. CASE DiffuseBlock
  <2> DEFINE h == HashSize[merge.method]
             from == merge.data_offset
  <2>1. /\ merge.pc = "diffuse" /\ merge'.pc = "diffuse"
        /\ MergeRecord' /\ MergeCallKept
        /\ MergeBounds /\ DiffuseBounds /\ merge.data_size > 0
        /\ ReadSize \in 1 .. merge.data_size
        /\ ReadSize = h \/ ReadSize = merge.data_size
        /\ h \in {5, 7, 8, 16}
        /\ merge'.stripe_iterator = k
        /\ merge'.split_data_offset = merge.split_data_offset
        /\ merge'.data_offset = from + ReadSize
        /\ merge'.data_size = merge.data_size - ReadSize
        /\ merge'.block_index = merge.block_index + 1
        /\ IsSequenceOf(merge'.data, size)
    BY <1>2, BlockIsHashed
  <2>2. from \in Nat /\ merge.data_size \in Nat /\ from + merge.data_size = size
    BY <2>1 DEF MergeBounds, DiffuseBounds
  <2> DEFINE read == ReadSize
             left == merge.data_size
             b == merge.block_index
  <2>3. MergeBounds'
    <3>1. merge'.data_offset \in 0 .. size
      <4> HIDE DEF from, read, size, left
      <4>1. read \in 1 .. left /\ merge'.data_offset = from + read
        BY <2>1 DEF read, from, left
      <4>2. from \in Nat /\ left \in Nat /\ from + left = size
        BY <2>2 DEF from, size, left
      <4>3. QED
        BY <4>1, <4>2
    <3>2. Len(merge'.data) = size
      BY <2>1 DEF MergeCallKept
    <3>3. merge'.split_data_offset
            = (merge'.stripe_iterator + IF merge'.pc = "stripe" THEN 0 ELSE 1)
                 * Len(merge'.data)
      BY <2>1, <3>2 DEF MergeBounds
    <3>4. merge'.split_data = merge.split_data
          /\ merge'.number_of_stripes = merge.number_of_stripes
      BY <2>1 DEF MergeCallKept
    <3>5. QED
      BY <2>1, <3>1, <3>2, <3>3, <3>4 DEF MergeBounds
  <2>4. DiffuseBounds'
    <3>1. /\ merge'.data_size > 0 => from + read = (b + 1) * h
          /\ merge'.data_size \in Nat
          /\ merge'.data_offset + merge'.data_size = size
          /\ b + 1 \in Nat
      <4>1. from = b * h /\ b \in Nat
        BY <2>1 DEF DiffuseBounds
      <4>2. /\ read \in 1 .. left /\ (read = h \/ read = left)
            /\ h \in {5, 7, 8, 16} /\ merge'.data_size = left - read
            /\ merge'.data_offset = from + read
            /\ from \in Nat /\ left \in Nat /\ from + left = size
        BY <2>1, <2>2
      <4> HIDE DEF from, read, size, left, h, b
      <4>3. merge'.data_size \in Nat /\ merge'.data_offset + merge'.data_size = size
        BY <4>2
      <4>4. ASSUME merge'.data_size > 0 PROVE from + read = (b + 1) * h
        <5>1. read = h
          BY <4>2, <4>4
        <5>2. (b + 1) * h = (b * h) + h
          BY <4>1, <4>2
        <5>3. QED
          BY <4>1, <5>1, <5>2
      <4>5. QED
        BY <4>1, <4>3, <4>4
    <3>2. /\ merge'.block_index = b + 1 /\ merge'.data_offset = from + read
          /\ merge'.method = merge.method /\ Len(merge'.data) = size
          /\ merge'.number_of_stripes = merge.number_of_stripes
          /\ merge'.stripe_iterator = k
      BY <2>1 DEF MergeCallKept
    <3>3. merge.method \in HashMethods /\ k < merge.number_of_stripes - 1
      BY <2>1 DEF DiffuseBounds
    <3>4. QED
      BY <3>1, <3>2, <3>3 DEF DiffuseBounds
  <2>5. QED
    BY <2>1, <2>3, <2>4 DEF MergeInv, MergeRuns, MergePlaces
<1>3. CASE DiffuseReturns
  <2>1. /\ merge.pc = "diffuse" /\ merge.data_size = 0
        /\ merge' = [merge EXCEPT !.pc = "stripe", !.stripe_iterator = k + 1]
    BY <1>3 DEF DiffuseReturns
  <2>2. MergeBounds /\ DiffuseBounds /\ MergeRecord
    BY <2>1 DEF MergeInv, MergeRuns
  <2>3. /\ merge'.pc = "stripe" /\ merge'.split_data = merge.split_data
        /\ merge'.split_data_offset = merge.split_data_offset
        /\ merge'.number_of_stripes = merge.number_of_stripes
        /\ merge'.stripe_iterator = k + 1
        /\ merge'.method = merge.method /\ merge'.data = merge.data
        /\ merge'.data_offset = merge.data_offset
    BY <2>1, <2>2 DEF MergeRecord
  <2>4. MergeRecord'
    BY <2>1, <2>2 DEF MergeRecord
  <2>5. MergeBounds'
    <3>1. (k + 1) + 0 = k + 1
      BY <2>2 DEF MergeBounds
    <3>2. QED
      BY <2>1, <2>2, <2>3, <3>1 DEF MergeBounds, DiffuseBounds
  <2>6. QED
    BY <2>1, <2>3, <2>4, <2>5 DEF MergeInv, MergeRuns, MergePlaces, MergeCallKept
<1>4. CASE MergeLastStripe
  <2>1. /\ merge.pc = "stripe" /\ k >= merge.number_of_stripes - 1
        /\ merge' = [merge EXCEPT !.pc = "done", !.data = StripeAdded,
                        !.split_data_offset = merge.split_data_offset + size]
    BY <1>4 DEF MergeLastStripe
  <2>2. MergeBounds /\ MergeRecord
    BY <2>1 DEF MergeInv, MergeRuns
  <2>3. /\ IsSequenceOf(StripeAdded, size) /\ Len(StripeAdded) = size
        /\ merge.split_data_offset + size = (k + 1) * size
    BY <2>1, <2>2, StripeIsAdded, StripesLeft
  <2>4. /\ merge'.pc = "done" /\ merge'.split_data = merge.split_data
        /\ merge'.split_data_offset = merge.split_data_offset + size
        /\ merge'.number_of_stripes = merge.number_of_stripes
        /\ merge'.stripe_iterator = k
        /\ merge'.method = merge.method /\ merge'.data = StripeAdded
        /\ merge'.data_offset = merge.data_offset
    BY <2>1, <2>2 DEF MergeRecord
  <2>5. MergeRecord'
    BY <2>1, <2>2 DEF MergeRecord
  <2>6. MergeBounds'
    BY <2>1, <2>2, <2>3, <2>4 DEF MergeBounds
  <2>7. QED
    BY <2>1, <2>3, <2>4, <2>5, <2>6 DEF MergeInv, MergeRuns, MergePlaces, MergeCallKept
<1>5. CASE DiffuseFails
  <2>1. merge.pc = "diffuse" /\ merge' = [MergeIdle EXCEPT !.pc = "failed"]
    BY <1>5 DEF DiffuseFails
  <2>2. QED
    BY <2>1 DEF MergeInv, MergeRecord, MergeIdle, MergePlaces, MergeRuns
<1>6. QED
  BY <1>1, <1>2, <1>3, <1>4, <1>5 DEF MergeStep

\* What the invariant says of the offsets.
LEMMA MergeProperties ==
    ASSUME MergeInv
    PROVE  OffsetsInBuffers
<1>1. CASE ~ MergeRuns
  <2>1. merge = [MergeIdle EXCEPT !.pc = merge.pc]
        /\ merge.pc # "stripe" /\ merge.pc # "diffuse"
    BY <1>1 DEF MergeInv, MergeRuns
  <2>2. /\ merge.data = <<>> /\ merge.data_offset = 0
        /\ merge.split_data = <<>> /\ merge.split_data_offset = 0
    BY <2>1 DEF MergeIdle
  <2>3. Len(<<>>) = 0
    OBVIOUS
  <2>4. QED
    BY <2>1, <2>2, <2>3 DEF OffsetsInBuffers
<1>2. CASE MergeRuns
  <2> DEFINE k == merge.stripe_iterator
             size == Len(merge.data)
             n == merge.number_of_stripes
             total == Len(merge.split_data)
  <2>1. MergeBounds
    BY <1>2 DEF MergeInv
  <2>2. merge.split_data_offset \in 0 .. total
    <3>1. /\ k \in Nat /\ n \in Nat /\ k + 1 <= n /\ size \in Nat /\ total \in Nat
          /\ n * size <= total
      BY <2>1 DEF MergeBounds
    <3>2. PICK j \in Nat : j <= n /\ merge.split_data_offset = j * size
      <4>1. CASE merge.pc = "stripe"
        <5>1. merge.split_data_offset = (k + 0) * size
          BY <2>1, <4>1 DEF MergeBounds
        <5>2. k + 0 \in Nat /\ k + 0 <= n
          BY <3>1
        <5>3. QED
          BY <5>1, <5>2
      <4>2. CASE merge.pc # "stripe"
        <5>1. merge.split_data_offset = (k + 1) * size
          BY <2>1, <4>2 DEF MergeBounds
        <5>2. k + 1 \in Nat
          BY <3>1
        <5>3. QED
          BY <3>1, <5>1, <5>2
      <4>3. QED
        BY <4>1, <4>2
    <3> HIDE DEF k, size, n, total
    <3>3. j * size <= n * size /\ j * size \in Nat /\ n * size \in Nat
      <4>1. ASSUME NEW a \in Nat, NEW b \in Nat, a <= b
            PROVE  a * size <= b * size /\ a * size \in Nat /\ b * size \in Nat
        BY <3>1, <4>1
      <4>2. QED
        BY <3>1, <3>2, <4>1
    <3>4. QED
      BY <3>1, <3>2, <3>3
  <2>3. merge.pc = "stripe" =>
           /\ merge.split_data_offset = k * size
           /\ merge.split_data_offset + size <= total
    BY <2>1, StripesLeft
  <2>4. merge.pc = "diffuse" => merge.data_offset + merge.data_size = size
    BY DEF MergeInv, DiffuseBounds
  <2>5. merge.data_offset \in 0 .. size
    BY <2>1 DEF MergeBounds
  <2>6. QED
    BY <2>2, <2>3, <2>4, <2>5 DEF OffsetsInBuffers
<1>3. QED
  BY <1>1, <1>2

\* Block b of data: where it begins and how much of it there is.
IsBlock(m, size, b, from, read) ==
    /\ b \in Nat /\ from \in Nat /\ read \in Nat
    /\ from = b * HashSize[m]
    /\ from + read = Smaller(from + HashSize[m], size)

\* The cells of the block are those of its digest.
BlockIsDiffused(m, data, b, from, read) ==
    \A j \in (from + 1) .. (from + read) :
       Diffused(m, data)[j]
         = Digest(m, <<b, SubSeq(data, from + 1, from + read)>>)[j - from]

LEMMA DiffusedCells ==
    ASSUME NEW m \in HashMethods, NEW size \in Nat, NEW data, IsSequenceOf(data, size),
           NEW b, NEW from, NEW read, IsBlock(m, size, b, from, read)
    PROVE  BlockIsDiffused(m, data, b, from, read)
<1> SUFFICES ASSUME NEW j \in (from + 1) .. (from + read)
             PROVE  Diffused(m, data)[j]
                      = Digest(m, <<b, SubSeq(data, from + 1, from + read)>>)[j - from]
  BY DEF BlockIsDiffused
<1> DEFINE h == HashSize[m]
<1>1. h \in {5, 7, 8, 16}
  BY DigestSizes
<1>0. /\ b \in Nat /\ from \in Nat /\ read \in Nat /\ from = b * h
      /\ from + read = Smaller(from + h, size)
  BY DEF IsBlock
<1>2. from + read <= from + h /\ from + read <= size
  BY <1>0, <1>1 DEF Smaller
<1>3. j \in Nat /\ j - (b * h) \in 1 .. h
  <2> HIDE DEF h
  <2>1. j \in Nat /\ j - from \in 1 .. h
    BY <1>0, <1>1, <1>2
  <2>2. QED
    BY <1>0, <2>1
<1>4. (j - 1) \div h = b
  <2> HIDE DEF h
  <2>1. CASE h = 5
    BY <1>0, <1>3, <2>1
  <2>2. CASE h = 7
    BY <1>0, <1>3, <2>2
  <2>3. CASE h = 8
    BY <1>0, <1>3, <2>3
  <2>4. CASE h = 16
    BY <1>0, <1>3, <2>4
  <2>5. QED
    BY <1>1, <2>1, <2>2, <2>3, <2>4
<1>5. DOMAIN data = 1 .. size /\ Len(data) = size /\ j \in 1 .. size
  <2>1. DOMAIN data = 1 .. size /\ Len(data) = size
    BY SequenceLength
  <2> HIDE DEF h
  <2>2. j \in 1 .. size
    BY <1>0, <1>2
  <2>3. QED
    BY <2>1, <2>2
<1> DEFINE cell(i, k) == Digest(m, <<k, SubSeq(data, (k * h) + 1,
                                             Smaller((k * h) + h, Len(data)))>>)
                           [i - (k * h)]
<1>6. Diffused(m, data) = [i \in DOMAIN data |-> cell(i, (i - 1) \div h)]
  BY Zenon DEF Diffused
<1> HIDE DEF cell
<1>7. Diffused(m, data)[j] = cell(j, b)
  BY <1>4, <1>5, <1>6
<1> HIDE DEF h
<1>8. (b * h) + h = from + h /\ Smaller(from + h, size) = from + read
  BY <1>0
<1>9. QED
  BY <1>0, <1>5, <1>7, <1>8 DEF cell

\* The steps keep the data what the splitter makes of them.
LEMMA MergeStepFollows ==
    ASSUME NEW m, NEW size \in Nat, NEW key, IsSequenceOf(key, size),
           NEW random, NEW n \in Nat, AreStripes(random, size, n),
           MergeInv, MergeRuns, MergeStep, MergeIsOf(m, size, key, random),
           MergeFollows(m, size, key, random)
    PROVE  MergeFollows(m, size, key, random)'
<1> DEFINE d == SplitChain(m, size, random)
           k == merge.stripe_iterator
           sum == Xor(d[k], random[k + 1])
           split == SplitKey(m, key, random)
<1>1. /\ MergeBounds /\ size # 0 /\ Len(merge.data) = size /\ k \in 0 .. n
      /\ merge.split_data = split /\ merge.number_of_stripes = n + 1
      /\ IsSequenceOf(merge.data, size)
      /\ merge.method \in HashMethods => merge.method = m
  BY DEF MergeInv, MergeBounds, MergeIsOf, AreStripes
<1>2. ASSUME NEW i \in 0 .. n PROVE IsSequenceOf(d[i], size)
  BY SplitChainIsSequence
<1>3. ASSUME NEW i \in 1 .. size
      PROVE  split[(k * size) + i] = IF k < n THEN random[k + 1][i] ELSE Xor(d[n], key)[i]
  <2>1. size \in Nat \ {0}
    BY <1>1
  <2>2. HasStripes(split, d, size, key, random, n)
    BY <2>1, SplitKeyStripes
  <2> HIDE DEF d, split, k
  <2>3. QED
    BY <1>1, <2>2 DEF HasStripes
<1>4. ASSUME NEW i \in 1 .. size, k < n
      PROVE  sum[i] = (d[k][i] \ random[k + 1][i]) \cup (random[k + 1][i] \ d[k][i])
  BY <1>1, <1>2, XorCell
<1>5. /\ merge.pc = "stripe" => merge.data = d[k]
      /\ merge.pc = "diffuse" =>
            \A j \in 1 .. size :
               merge.data[j] = IF j <= merge.data_offset THEN Diffused(m, sum)[j]
                               ELSE sum[j]
  BY DEF MergeFollows
<1>6. merge.pc = "stripe" =>
         /\ merge.split_data_offset = k * size
         /\ IsSequenceOf(StripeAdded, size)
         /\ \A i \in 1 .. size :
               StripeAdded[i] = (merge.data[i] \ split[(k * size) + i])
                                  \cup (split[(k * size) + i] \ merge.data[i])
  <2>1. SUFFICES ASSUME merge.pc = "stripe"
                 PROVE  /\ merge.split_data_offset = k * size
                        /\ IsSequenceOf(StripeAdded, size)
                        /\ \A i \in 1 .. size :
                              StripeAdded[i]
                                = (merge.data[i] \ split[(k * size) + i])
                                    \cup (split[(k * size) + i] \ merge.data[i])
    OBVIOUS
  <2>2. merge.split_data_offset = k * size
    BY <1>1, <2>1, StripesLeft
  <2>3. QED
    BY <1>1, <2>2, StripeIsAdded
<1> HIDE DEF d, split, sum
<1>7. CASE MergeStripe
  <2>1. merge.pc = "stripe" /\ k < n
    BY <1>1, <1>7 DEF MergeStripe
  <2>2. CASE merge.method \notin HashMethods
    <3>1. merge' = [MergeIdle EXCEPT !.pc = "failed"]
      BY <1>7, <2>2 DEF MergeStripe
    <3>2. merge'.pc = "failed"
      BY <3>1 DEF MergeIdle
    <3>3. QED
      BY <3>2 DEF MergeFollows
  <2>3. CASE merge.method \in HashMethods
    <3>1. /\ merge'.pc = "diffuse" /\ merge'.data = StripeAdded
          /\ merge'.data_offset = 0 /\ merge'.stripe_iterator = k
      <4>1. merge' = [merge EXCEPT
                        !.pc = "diffuse", !.data = StripeAdded,
                        !.split_data_offset = @ + Len(merge.data),
                        !.data_offset = 0, !.data_size = Len(merge.data),
                        !.block_index = 0]
        BY <1>7, <2>3 DEF MergeStripe
      <4>2. MergeRecord
        BY DEF MergeInv
      <4>3. QED
        BY <4>1, <4>2 DEF MergeRecord
    <3>2. ASSUME NEW j \in 1 .. size PROVE StripeAdded[j] = sum[j] /\ ~(j <= 0)
      <4>1. split[(k * size) + j] = random[k + 1][j]
        BY <1>3, <2>1
      <4>2. StripeAdded[j] = (d[k][j] \ random[k + 1][j]) \cup (random[k + 1][j] \ d[k][j])
        BY <1>5, <1>6, <2>1, <4>1
      <4>3. QED
        BY <1>4, <2>1, <4>2
    <3>3. QED
      BY <3>1, <3>2 DEF MergeFollows, d, sum
  <2>4. QED
    BY <2>2, <2>3
<1>8. CASE DiffuseBlock
  <2> DEFINE from == merge.data_offset
             b == merge.block_index
             h == HashSize[m]
  <2>1. /\ merge.pc = "diffuse" /\ merge'.pc = "diffuse"
        /\ DiffuseBounds /\ merge.data_size > 0
        /\ ReadSize \in 1 .. merge.data_size
        /\ merge'.stripe_iterator = k
        /\ merge'.data_offset = from + ReadSize
    BY <1>8, BlockIsHashed
  <2>2. \A i \in 1 .. size :
           merge'.data[i] = IF i \in (from + 1) .. (from + ReadSize)
                            THEN BlockHash[i - from] ELSE merge.data[i]
    BY <1>1, <1>8, BlockIsHashed
  <2>3. /\ merge.method = m /\ m \in HashMethods /\ k < n
        /\ from \in Nat /\ merge.data_size \in Nat /\ from + merge.data_size = size
        /\ b \in Nat /\ from = b * h
    BY <1>1, <2>1 DEF DiffuseBounds, MergeBounds
  <2>4. IsSequenceOf(sum, size)
    BY <1>1, <1>2, XorIsSequence DEF sum
  <2>5. ReadSize \in Nat /\ from + ReadSize <= size
        /\ from + ReadSize = Smaller(from + h, size)
    <3>1. h \in {5, 7, 8, 16}
      BY <2>3, DigestSizes
    <3>2. ReadSize = Smaller(merge.data_size, h)
      BY <2>3 DEF ReadSize
    <3> HIDE DEF h, from
    <3>3. QED
      BY <2>1, <2>3, <3>1, <3>2 DEF Smaller
  <2>6. SubSeq(merge.data, from + 1, from + ReadSize)
          = SubSeq(sum, from + 1, from + ReadSize)
    <3> DEFINE read == ReadSize
               x == SubSeq(merge.data, from + 1, from + read)
               y == SubSeq(sum, from + 1, from + read)
    <3>1. /\ IsSequenceOf(x, read) /\ IsSequenceOf(y, read)
          /\ \A i \in 1 .. read : x[i] = merge.data[from + i]
          /\ \A i \in 1 .. read : y[i] = sum[from + i]
      <4> HIDE DEF read, from
      <4>1. read \in Nat /\ from \in Nat /\ from + read <= size
        BY <2>3, <2>5 DEF read
      <4>2. /\ IsSequenceOf(x, read)
            /\ \A i \in 1 .. read : x[i] = merge.data[from + i]
        BY <1>1, <4>1, SequencePart
      <4>3. /\ IsSequenceOf(y, read)
            /\ \A i \in 1 .. read : y[i] = sum[from + i]
        BY <2>4, <4>1, SequencePart
      <4>4. QED
        BY <4>2, <4>3
    <3> HIDE DEF x, y
    <3>2. ASSUME NEW i \in 1 .. read PROVE x[i] = y[i]
      <4>1. from + i \in 1 .. size /\ ~(from + i <= from)
        BY <2>3, <2>5
      <4>2. merge.data[from + i] = sum[from + i]
        BY <1>5, <2>1, <4>1
      <4>3. QED
        BY <3>1, <4>2
    <3> HIDE DEF read
    <3>3. x = y
      BY <3>1, <3>2, SequencesEqual
    <3>4. QED
      BY <3>3 DEF x, y, read
  <2>7. BlockHash = Digest(m, <<b, SubSeq(sum, from + 1, from + ReadSize)>>)
    BY <2>3, <2>6 DEF BlockHash
  <2>8. ASSUME NEW j \in 1 .. size
        PROVE  merge'.data[j] = IF j <= from + ReadSize THEN Diffused(m, sum)[j]
                                ELSE sum[j]
    <3>1. CASE j <= from
      <4>1. merge'.data[j] = merge.data[j] /\ j <= from + ReadSize
        BY <2>2, <2>3, <2>5, <3>1
      <4>2. QED
        BY <1>5, <2>1, <3>1, <4>1
    <3>2. CASE j \in (from + 1) .. (from + ReadSize)
      <4>1. merge'.data[j] = BlockHash[j - from]
        BY <2>2, <3>2
      <4>2. Diffused(m, sum)[j]
              = Digest(m, <<b, SubSeq(sum, from + 1, from + ReadSize)>>)[j - from]
        <5> DEFINE read == ReadSize
        <5> HIDE DEF from, b, read
        <5>1. /\ m \in HashMethods /\ IsSequenceOf(sum, size)
              /\ IsBlock(m, size, b, from, read)
          BY <2>3, <2>4, <2>5 DEF read, IsBlock
        <5>2. BlockIsDiffused(m, sum, b, from, read)
          BY <5>1, DiffusedCells
        <5>3. QED
          BY <3>2, <5>2 DEF read, BlockIsDiffused
      <4>3. j <= from + ReadSize
        BY <3>2
      <4>4. QED
        BY <2>7, <4>1, <4>2, <4>3
    <3>3. CASE j > from + ReadSize
      <4>1. ~(j <= from) /\ ~(j <= from + ReadSize)
            /\ j \notin (from + 1) .. (from + ReadSize)
        BY <2>3, <2>5, <3>3
      <4>2. merge'.data[j] = merge.data[j]
        BY <2>2, <4>1
      <4>3. QED
        BY <1>5, <2>1, <4>1, <4>2
    <3>4. QED
      BY <2>3, <2>5, <3>1, <3>2, <3>3
  <2>9. QED
    BY <2>1, <2>8 DEF MergeFollows, d, sum
<1>9. CASE DiffuseReturns
  <2>1. /\ merge.pc = "diffuse" /\ merge.data_size = 0
        /\ merge' = [merge EXCEPT !.pc = "stripe", !.stripe_iterator = k + 1]
    BY <1>9 DEF DiffuseReturns
  <2>2. merge'.pc = "stripe" /\ merge'.stripe_iterator = k + 1
        /\ merge'.data = merge.data
    <3>1. MergeRecord
      BY DEF MergeInv
    <3>2. QED
      BY <2>1, <3>1 DEF MergeRecord
  <2>3. DiffuseBounds /\ k < n
    BY <1>1, <2>1 DEF MergeInv, DiffuseBounds
  <2>4. merge.data_offset = size
    BY <1>1, <2>1, <2>3 DEF DiffuseBounds, MergeBounds
  <2>5. IsSequenceOf(Diffused(m, sum), size)
    <3>1. IsSequenceOf(sum, size)
      BY <1>1, <1>2, XorIsSequence DEF sum
    <3>2. QED
      BY <3>1, DiffusedIsSequence
  <2>6. merge.data = Diffused(m, sum)
    <3>1. ASSUME NEW j \in 1 .. size PROVE merge.data[j] = Diffused(m, sum)[j]
      BY <1>5, <2>1, <2>4
    <3>2. QED
      BY <1>1, <2>5, <3>1, SequencesEqual
  <2>7. d[k + 1] = Diffused(m, sum)
    <3>1. ASSUME NEW i \in 1 .. n PROVE d[i] = Diffused(m, Xor(d[i - 1], random[i]))
      BY SplitChainNext DEF d
    <3>2. k + 1 \in 1 .. n /\ (k + 1) - 1 = k
      BY <1>1, <2>3
    <3>3. QED
      BY <3>1, <3>2 DEF sum
  <2>8. QED
    BY <2>2, <2>6, <2>7 DEF MergeFollows, d
<1>10. CASE MergeLastStripe
  <2>1. /\ merge.pc = "stripe" /\ k >= merge.number_of_stripes - 1
        /\ merge' = [merge EXCEPT !.pc = "done", !.data = StripeAdded,
                        !.split_data_offset = @ + Len(merge.data)]
    BY <1>10 DEF MergeLastStripe
  <2>2. merge'.pc = "done" /\ merge'.data = StripeAdded
    <3>1. MergeRecord
      BY DEF MergeInv
    <3>2. QED
      BY <2>1, <3>1 DEF MergeRecord
  <2>3. k = n
    BY <1>1, <2>1
  <2>4. IsSequenceOf(d[n], size) /\ merge.data = d[n]
    BY <1>2, <1>5, <2>1, <2>3
  <2>5. ASSUME NEW i \in 1 .. size PROVE StripeAdded[i] = key[i]
    <3>1. split[(k * size) + i] = Xor(d[n], key)[i]
      BY <1>3, <2>3
    <3>2. Xor(d[n], key)[i] = (d[n][i] \ key[i]) \cup (key[i] \ d[n][i])
      BY <2>4, XorCell
    <3>3. StripeAdded[i] = (d[n][i] \ Xor(d[n], key)[i]) \cup (Xor(d[n], key)[i] \ d[n][i])
      BY <1>6, <2>1, <2>4, <3>1
    <3>4. QED
      BY <3>2, <3>3
  <2>6. StripeAdded = key
    BY <1>6, <2>1, <2>5, SequencesEqual
  <2>7. QED
    BY <2>2, <2>6 DEF MergeFollows
<1>11. CASE DiffuseFails
  <2>1. merge'.pc = "failed"
    BY <1>11 DEF DiffuseFails, MergeIdle
  <2>2. QED
    BY <2>1 DEF MergeFollows
<1>12. QED
  BY <1>7, <1>8, <1>9, <1>10, <1>11 DEF MergeStep
=============================================================================
