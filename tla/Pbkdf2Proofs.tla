---------------------------- MODULE Pbkdf2Proofs ----------------------------
(***************************************************************************)
(* The password-based key derivation returns the key that PBKDF2 defines,  *)
(* for every digest, number of iterations and size of key, and its copies  *)
(* stay inside the output.  The facts here are about the steps of module   *)
(* Pbkdf2; VolumeDecryptionProofs makes theorems of the whole of them.     *)
(***************************************************************************)
EXTENDS Pbkdf2, CellsProofs

-----------------------------------------------------------------------------
(* The reference definition                                                *)

\* A chain has the hash of the salt first, then each the hash of the one before.
IsChain(u, p, m, s, c, i) ==
    u = [n \in 1 .. c |-> Hmac(m, p, IF n = 1 THEN <<s, i>> ELSE u[n - 1])]

LEMMA ChainExists ==
    ASSUME NEW p, NEW m, NEW s, NEW i, NEW c \in Nat
    PROVE  \E u : IsChain(u, p, m, s, c, i)
<1> DEFINE S == {k \in 0 .. c : \E u : IsChain(u, p, m, s, k, i)}
<1>1. 0 \in S
  <2>1. IsChain(<<>>, p, m, s, 0, i)
    BY DEF IsChain
  <2>2. QED
    BY <2>1
<1>2. ASSUME NEW k \in 0 .. (c - 1), k \in S PROVE k + 1 \in S
  <2>1. PICK u : IsChain(u, p, m, s, k, i)
    BY <1>2
  <2> DEFINE v == [n \in 1 .. (k + 1) |->
                     IF n <= k THEN u[n]
                     ELSE Hmac(m, p, IF n = 1 THEN <<s, i>> ELSE u[n - 1])]
  <2>2. \A n \in 1 .. (k + 1) :
           v[n] = Hmac(m, p, IF n = 1 THEN <<s, i>> ELSE v[n - 1])
    <3>1. SUFFICES ASSUME NEW n \in 1 .. (k + 1)
                   PROVE  v[n] = Hmac(m, p, IF n = 1 THEN <<s, i>> ELSE v[n - 1])
      OBVIOUS
    <3>2. n # 1 => v[n - 1] = u[n - 1]
      OBVIOUS
    <3>3. CASE n <= k
      <4>1. n \in 1 .. k
        BY <3>3
      <4>2. u[n] = Hmac(m, p, IF n = 1 THEN <<s, i>> ELSE u[n - 1])
        BY <2>1, <4>1, Zenon DEF IsChain
      <4>3. v[n] = u[n]
        BY <3>3
      <4>4. QED
        BY <3>2, <4>2, <4>3
    <3>4. CASE ~(n <= k)
      <4>1. v[n] = Hmac(m, p, IF n = 1 THEN <<s, i>> ELSE u[n - 1])
        BY <3>4
      <4>2. QED
        BY <3>2, <4>1
    <3>5. QED
      BY <3>3, <3>4
  <2>3. v = [n \in 1 .. (k + 1) |-> v[n]]
    OBVIOUS
  <2> HIDE DEF v
  <2>4. IsChain(v, p, m, s, k + 1, i)
    BY <2>2, <2>3 DEF IsChain
  <2>5. QED
    BY <2>4
<1> HIDE DEF S
<1>3. 0 .. c \subseteq S
  BY <1>1, <1>2, IntervalInduction
<1>4. QED
  BY <1>3 DEF S

LEMMA ChainDef ==
    ASSUME NEW p, NEW m, NEW s, NEW i, NEW c \in Nat
    PROVE  IsChain(HmacChain(p, m, s, c, i), p, m, s, c, i)
<1>1. HmacChain(p, m, s, c, i) = CHOOSE u : IsChain(u, p, m, s, c, i)
  BY Zenon DEF HmacChain, IsChain
<1>2. QED
  BY <1>1, ChainExists

\* The sum of a chain begins with its first and adds the next.
IsSum(t, u, c) ==
    t = [n \in 1 .. c |-> IF n = 1 THEN u[1] ELSE Xor(t[n - 1], u[n])]

LEMMA SumExists ==
    ASSUME NEW u, NEW c \in Nat
    PROVE  \E t : IsSum(t, u, c)
<1> DEFINE S == {k \in 0 .. c : \E t : IsSum(t, u, k)}
<1>1. 0 \in S
  <2>1. IsSum(<<>>, u, 0)
    BY DEF IsSum
  <2>2. QED
    BY <2>1
<1>2. ASSUME NEW k \in 0 .. (c - 1), k \in S PROVE k + 1 \in S
  <2>1. PICK t : IsSum(t, u, k)
    BY <1>2
  <2> DEFINE v == [n \in 1 .. (k + 1) |->
                     IF n <= k THEN t[n]
                     ELSE IF n = 1 THEN u[1] ELSE Xor(t[n - 1], u[n])]
  <2>2. \A n \in 1 .. (k + 1) : v[n] = IF n = 1 THEN u[1] ELSE Xor(v[n - 1], u[n])
    <3>1. SUFFICES ASSUME NEW n \in 1 .. (k + 1)
                   PROVE  v[n] = IF n = 1 THEN u[1] ELSE Xor(v[n - 1], u[n])
      OBVIOUS
    <3>2. n # 1 => v[n - 1] = t[n - 1]
      OBVIOUS
    <3>3. CASE n <= k
      <4>1. t[n] = IF n = 1 THEN u[1] ELSE Xor(t[n - 1], u[n])
        BY <2>1, <3>3 DEF IsSum
      <4>2. v[n] = t[n]
        BY <3>3
      <4>3. QED
        BY <3>2, <4>1, <4>2
    <3>4. CASE ~(n <= k)
      <4>1. v[n] = IF n = 1 THEN u[1] ELSE Xor(t[n - 1], u[n])
        BY <3>4
      <4>2. QED
        BY <3>2, <4>1
    <3>5. QED
      BY <3>3, <3>4
  <2>3. v = [n \in 1 .. (k + 1) |-> v[n]]
    OBVIOUS
  <2> HIDE DEF v
  <2>4. IsSum(v, u, k + 1)
    BY <2>2, <2>3 DEF IsSum
  <2>5. QED
    BY <2>4
<1> HIDE DEF S
<1>3. 0 .. c \subseteq S
  BY <1>1, <1>2, IntervalInduction
<1>4. QED
  BY <1>3 DEF S

LEMMA SumDef ==
    ASSUME NEW u, NEW c \in Nat
    PROVE  IsSum(ChainSum(u, c), u, c)
<1>1. ChainSum(u, c) = CHOOSE t : IsSum(t, u, c)
  BY Zenon DEF ChainSum, IsSum
<1>2. QED
  BY <1>1, SumExists

\* What the definitions say of their elements.
LEMMA ChainElements ==
    ASSUME NEW p, NEW m, NEW s, NEW i, NEW c \in Nat, NEW n \in 1 .. c
    PROVE  LET u == HmacChain(p, m, s, c, i)
               t == ChainSum(u, c)
           IN  /\ IsSequenceOf(u[n], HashSize[m])
               /\ IsSequenceOf(t[n], HashSize[m])
               /\ u[n] = Hmac(m, p, IF n = 1 THEN <<s, i>> ELSE u[n - 1])
               /\ t[n] = IF n = 1 THEN u[1] ELSE Xor(t[n - 1], u[n])
<1> DEFINE u == HmacChain(p, m, s, c, i)
           t == ChainSum(u, c)
           S == {k \in 1 .. c : IsSequenceOf(t[k], HashSize[m])}
<1>1. IsChain(u, p, m, s, c, i) /\ IsSum(t, u, c)
  BY ChainDef, SumDef
<1> HIDE DEF u, t
<1>2. ASSUME NEW k \in 1 .. c
      PROVE  /\ u[k] = Hmac(m, p, IF k = 1 THEN <<s, i>> ELSE u[k - 1])
             /\ t[k] = IF k = 1 THEN u[1] ELSE Xor(t[k - 1], u[k])
             /\ IsSequenceOf(u[k], HashSize[m])
  <2>1. u[k] = Hmac(m, p, IF k = 1 THEN <<s, i>> ELSE u[k - 1])
    BY <1>1, Zenon DEF IsChain
  <2>2. t[k] = IF k = 1 THEN u[1] ELSE Xor(t[k - 1], u[k])
    BY <1>1, Zenon DEF IsSum
  <2>3. QED
    BY <2>1, <2>2, HmacIsSequence
<1>3. 1 <= c => 1 \in S
  <2>1. SUFFICES ASSUME 1 <= c PROVE 1 \in S
    OBVIOUS
  <2>2. t[1] = u[1] /\ IsSequenceOf(u[1], HashSize[m])
    BY <1>2, <2>1
  <2>3. QED
    BY <2>1, <2>2
<1>4. ASSUME NEW k \in 1 .. (c - 1), k \in S PROVE k + 1 \in S
  <2>1. k + 1 \in 1 .. c /\ (k + 1) - 1 = k /\ k + 1 # 1
    OBVIOUS
  <2>2. t[k + 1] = Xor(t[k], u[k + 1])
    BY <1>2, <2>1
  <2>3. IsSequenceOf(t[k], HashSize[m])
    BY <1>4
  <2>4. QED
    BY <2>1, <2>2, <2>3, XorIsSequence
<1>5. n \in S
  <2> HIDE DEF S
  <2>1. 1 .. c \subseteq S
    BY <1>3, <1>4, IntervalInduction
  <2>2. QED
    BY <2>1
<1>6. QED
  BY <1>2, <1>5 DEF u, t

\* The cells of a block.
LEMMA BlockIsSequence ==
    ASSUME NEW p, NEW m, NEW s, NEW i, NEW c \in Nat \ {0}
    PROVE  IsSequenceOf(Pbkdf2Block(p, m, s, c, i), HashSize[m])
<1>1. c \in 1 .. c
  OBVIOUS
<1>2. QED
  BY <1>1, ChainElements DEF Pbkdf2Block

LEMMA DerivedKeyIsSequence ==
    ASSUME NEW p, NEW m, NEW s, NEW c, NEW n
    PROVE  IsSequenceOf(DerivedKey(p, m, s, c, n), n)
BY DEF DerivedKey, IsSequenceOf

\* The hash of the salt is in the sum of its chain and no key's but its own:
\* a block that two keys have in common is a block of one key.
LEMMA ChainTokens ==
    ASSUME NEW p, NEW m \in HashMethods, NEW s, NEW i, NEW c \in Nat \ {0}
    PROVE  /\ <<"hmac", m, p, <<s, i>>, 1>> \in Pbkdf2Block(p, m, s, c, i)[1]
           /\ \A token \in Pbkdf2Block(p, m, s, c, i)[1] : token[3] = p
<1> DEFINE u == HmacChain(p, m, s, c, i)
           t == ChainSum(u, c)
           first == <<"hmac", m, p, <<s, i>>, 1>>
           S == {k \in 1 .. c : /\ first \in t[k][1]
                                /\ \A token \in t[k][1] : token[3] = p}
<1>1. HashSize[m] \in {5, 7, 8, 16} /\ 1 \in 1 .. HashSize[m]
  BY DigestSizes
<1>2. ASSUME NEW k \in 1 .. c
      PROVE  /\ u[k][1] = {<<"hmac", m, p, IF k = 1 THEN <<s, i>> ELSE u[k - 1], 1>>}
             /\ DOMAIN u[k] = 1 .. HashSize[m]
             /\ IsSequenceOf(t[k], HashSize[m])
             /\ t[k] = IF k = 1 THEN u[1] ELSE Xor(t[k - 1], u[k])
  <2>1. /\ IsSequenceOf(u[k], HashSize[m])
        /\ IsSequenceOf(t[k], HashSize[m])
        /\ u[k] = Hmac(m, p, IF k = 1 THEN <<s, i>> ELSE u[k - 1])
        /\ t[k] = IF k = 1 THEN u[1] ELSE Xor(t[k - 1], u[k])
    BY ChainElements
  <2> HIDE DEF u, t
  <2>2. u[k][1] = {<<"hmac", m, p, IF k = 1 THEN <<s, i>> ELSE u[k - 1], 1>>}
    BY <1>1, <2>1 DEF Hmac
  <2>3. DOMAIN u[k] = 1 .. HashSize[m]
    BY <2>1 DEF IsSequenceOf
  <2>4. QED
    BY <2>1, <2>2, <2>3
<1> HIDE DEF u, t
<1>3. 1 \in S
  <2>1. 1 \in 1 .. c
    OBVIOUS
  <2>2. t[1] = u[1] /\ u[1][1] = {first}
    BY <1>2, <2>1
  <2>3. QED
    BY <2>1, <2>2
<1>4. ASSUME NEW k \in 1 .. (c - 1), k \in S PROVE k + 1 \in S
  <2>1. k \in 1 .. c /\ k + 1 \in 1 .. c /\ (k + 1) - 1 = k /\ k + 1 # 1
    OBVIOUS
  <2>2. t[k + 1] = Xor(t[k], u[k + 1]) /\ u[k + 1][1] = {<<"hmac", m, p, u[k], 1>>}
    BY <1>2, <2>1
  <2>3. u[k] # <<s, i>>
    <3>1. DOMAIN u[k] = 1 .. HashSize[m]
      BY <1>2, <2>1
    <3>2. 3 \in DOMAIN u[k] /\ 3 \notin DOMAIN <<s, i>>
      BY <1>1, <3>1
    <3>3. QED
      BY <3>2
  <2>4. t[k + 1][1] = (t[k][1] \ u[k + 1][1]) \cup (u[k + 1][1] \ t[k][1])
    BY <1>1, <1>2, <2>1, <2>2, XorIsSequence
  <2>5. <<"hmac", m, p, u[k], 1>> # first
    BY <2>3
  <2>6. first \in t[k][1] /\ \A token \in t[k][1] : token[3] = p
    BY <1>4
  <2>7. QED
    BY <2>1, <2>2, <2>4, <2>5, <2>6
<1>5. c \in S
  <2> HIDE DEF S
  <2>1. 1 .. c \subseteq S
    BY <1>3, <1>4, IntervalInduction
  <2>2. QED
    BY <2>1
<1>6. QED
  BY <1>5 DEF u, t, Pbkdf2Block

\* Two passwords, or two master keys, derive different keys: what the
\* validation hash of a volume rests on.
LEMMA DerivedKeyInjective ==
    ASSUME NEW p, NEW q, NEW m \in HashMethods, NEW s, NEW c \in Nat \ {0},
           NEW n \in Nat \ {0},
           DerivedKey(p, m, s, c, n) = DerivedKey(q, m, s, c, n)
    PROVE  p = q
<1>1. \A r : DerivedKey(r, m, s, c, n)[1] = Pbkdf2Block(r, m, s, c, 1)[1]
  <2>1. HashSize[m] \in {5, 7, 8, 16}
    BY DigestSizes
  <2>2. (1 - 1) \div HashSize[m] + 1 = 1 /\ ((1 - 1) % HashSize[m]) + 1 = 1
    BY <2>1
  <2>3. 1 \in 1 .. n
    OBVIOUS
  <2>4. QED
    BY <2>2, <2>3 DEF DerivedKey
<1>2. <<"hmac", m, p, <<s, 1>>, 1>> \in Pbkdf2Block(q, m, s, c, 1)[1]
  BY <1>1, ChainTokens
<1>3. /\ <<"hmac", m, q, <<s, 1>>, 1>> \in Pbkdf2Block(q, m, s, c, 1)[1]
      /\ \A token \in Pbkdf2Block(q, m, s, c, 1)[1] : token[3] = q
  BY ChainTokens
<1> DEFINE first == <<"hmac", m, p, <<s, 1>>, 1>>
<1>4. first[3] = p
  OBVIOUS
<1> HIDE DEF first
<1>5. first[3] = q
  BY <1>2, <1>3 DEF first
<1>6. QED
  BY <1>4, <1>5

-----------------------------------------------------------------------------
(* The invariant of the function                                           *)

KdfRecord ==
    kdf = [pc |-> kdf.pc, password |-> kdf.password, method |-> kdf.method,
           salt |-> kdf.salt, number_of_iterations |-> kdf.number_of_iterations,
           number_of_blocks |-> kdf.number_of_blocks,
           block_index |-> kdf.block_index,
           password_iterator |-> kdf.password_iterator,
           hash_size |-> kdf.hash_size, hash_buffer |-> kdf.hash_buffer,
           block_buffer |-> kdf.block_buffer, output_data |-> kdf.output_data,
           output_data_offset |-> kdf.output_data_offset,
           output_data_size |-> kdf.output_data_size]

KdfRuns == kdf.pc \in {"block", "iterate", "done"}

\* The part of the output that is filled is whole blocks, until the last.
KdfBounds ==
    /\ kdf.method \in HashMethods
    /\ kdf.number_of_iterations \in Nat \ {0}
    /\ kdf.output_data_offset \in Nat
    /\ kdf.output_data_size \in Nat
    /\ IsSequenceOf(kdf.output_data, kdf.output_data_offset + kdf.output_data_size)
    /\ kdf.number_of_blocks =
          NumberOfBlocks(kdf.output_data_offset + kdf.output_data_size,
                         HashSize[kdf.method])
    /\ kdf.block_index \in 1 .. kdf.number_of_blocks + 1
    /\ kdf.block_index <= kdf.number_of_blocks =>
          /\ kdf.output_data_offset = (kdf.block_index - 1) * HashSize[kdf.method]
          /\ kdf.output_data_size > 0
          /\ kdf.hash_size = HashSize[kdf.method]
    /\ kdf.block_index > kdf.number_of_blocks => kdf.output_data_size = 0
    /\ kdf.pc = "iterate" => kdf.block_index <= kdf.number_of_blocks
    /\ kdf.pc = "done" => kdf.block_index > kdf.number_of_blocks

\* The two buffers are the chain of the block and its sum, so far.
KdfBlock ==
    LET u == HmacChain(kdf.password, kdf.method, kdf.salt,
                       kdf.number_of_iterations, kdf.block_index)
    IN  /\ kdf.password_iterator \in 1 .. kdf.number_of_iterations
        /\ kdf.hash_buffer = u[kdf.password_iterator]
        /\ kdf.block_buffer =
              ChainSum(u, kdf.number_of_iterations)[kdf.password_iterator]

\* What is filled of the output is the key.
KdfDerived ==
    \A j \in 1 .. kdf.output_data_offset :
        kdf.output_data[j] =
            DerivedKey(kdf.password, kdf.method, kdf.salt,
                       kdf.number_of_iterations,
                       kdf.output_data_offset + kdf.output_data_size)[j]

KdfInv ==
    /\ KdfRecord
    /\ kdf.pc \in KdfPlaces
    /\ ~ KdfRuns => kdf = [KdfIdle EXCEPT !.pc = kdf.pc]
    /\ KdfRuns => KdfBounds /\ KdfDerived
    /\ kdf.pc = "iterate" => KdfBlock

\* How many blocks a key has.
LEMMA BlocksOfKey ==
    ASSUME NEW h \in {5, 7, 8, 16}, NEW n \in Nat, NEW b \in Nat \ {0}
    PROVE  /\ NumberOfBlocks(n, h) \in Nat
           /\ b <= NumberOfBlocks(n, h) <=> (b - 1) * h < n
<1>1. CASE h = 5
  BY <1>1 DEF NumberOfBlocks
<1>2. CASE h = 7
  BY <1>2 DEF NumberOfBlocks
<1>3. CASE h = 8
  BY <1>3 DEF NumberOfBlocks
<1>4. CASE h = 16
  BY <1>4 DEF NumberOfBlocks
<1>5. QED
  BY <1>1, <1>2, <1>3, <1>4

\* The cell of a block a cell of the key is.
LEMMA CellOfBlock ==
    ASSUME NEW h \in {5, 7, 8, 16}, NEW b \in Nat \ {0}, NEW j \in Nat,
           j - ((b - 1) * h) \in 1 .. h
    PROVE  /\ ((j - 1) \div h) + 1 = b
           /\ ((j - 1) % h) + 1 = j - ((b - 1) * h)
<1>1. CASE h = 5
  BY <1>1
<1>2. CASE h = 7
  BY <1>2
<1>3. CASE h = 8
  BY <1>3
<1>4. CASE h = 16
  BY <1>4
<1>5. QED
  BY <1>1, <1>2, <1>3, <1>4

LEMMA KdfInitInv == kdf = KdfIdle => KdfInv
BY DEF KdfInv, KdfRecord, KdfIdle, KdfPlaces, KdfRuns

\* A call either fails or begins with the first block of an empty output.
LEMMA KdfStarts ==
    ASSUME KdfInv, NEW password, NEW method, NEW salt, NEW iterations \in Nat,
           NEW size \in Nat, Pbkdf2(password, method, salt, iterations, size)
    PROVE  /\ KdfInv'
           /\ \/ kdf'.pc = "failed"
              \/ /\ kdf'.pc = "block"
                 /\ kdf'.password = password /\ kdf'.method = method
                 /\ kdf'.salt = salt /\ kdf'.number_of_iterations = iterations
                 /\ kdf'.output_data_offset + kdf'.output_data_size = size
<1>1. CASE ~(method \in HashMethods /\ iterations # 0)
  <2>1. kdf' = [KdfIdle EXCEPT !.pc = "failed"]
    BY <1>1 DEF Pbkdf2
  <2>2. QED
    BY <2>1 DEF KdfInv, KdfRecord, KdfIdle, KdfPlaces, KdfRuns
<1>2. CASE method \in HashMethods /\ iterations # 0
  <2> DEFINE h == HashSize[method]
  <2>1. kdf' = [KdfIdle EXCEPT
                  !.pc = "block", !.password = password,
                  !.method = method, !.salt = salt,
                  !.number_of_iterations = iterations,
                  !.number_of_blocks = NumberOfBlocks(size, h),
                  !.block_index = 1, !.hash_size = h,
                  !.output_data = Zeros(size), !.output_data_size = size]
    BY <1>2 DEF Pbkdf2
  <2>2. /\ kdf'.pc = "block" /\ kdf'.password = password /\ kdf'.method = method
        /\ kdf'.salt = salt /\ kdf'.number_of_iterations = iterations
        /\ kdf'.number_of_blocks = NumberOfBlocks(size, h)
        /\ kdf'.block_index = 1 /\ kdf'.hash_size = h
        /\ kdf'.output_data = Zeros(size)
        /\ kdf'.output_data_offset = 0 /\ kdf'.output_data_size = size
    BY <2>1 DEF KdfIdle
  <2>3. KdfRecord'
    BY <2>1 DEF KdfRecord, KdfIdle
  <2>4. h \in {5, 7, 8, 16}
    BY <1>2, DigestSizes
  <2>5. /\ NumberOfBlocks(size, h) \in Nat
        /\ 1 <= NumberOfBlocks(size, h) <=> (1 - 1) * h < size
    <3>1. ASSUME NEW b \in Nat \ {0}
          PROVE  b <= NumberOfBlocks(size, h) <=> (b - 1) * h < size
      BY <2>4, BlocksOfKey
    <3>2. NumberOfBlocks(size, h) \in Nat
      <4>1. 1 \in Nat \ {0}
        OBVIOUS
      <4> HIDE DEF h
      <4>2. QED
        BY <2>4, <4>1, BlocksOfKey
    <3>3. QED
      BY <3>1, <3>2
  <2>6. IsSequenceOf(Zeros(size), size)
    BY ZerosAreSequence
  <2> HIDE DEF h
  <2>7. KdfBounds'
    BY <1>2, <2>2, <2>4, <2>5, <2>6 DEF KdfBounds, h
  <2>8. KdfDerived'
    BY <2>2 DEF KdfDerived
  <2>9. QED
    BY <2>2, <2>3, <2>7, <2>8 DEF KdfInv, KdfRuns, KdfPlaces
<1>3. QED
  BY <1>1, <1>2

\* What a step of the function leaves as it was called with.
KdfCallKept ==
    /\ kdf'.password = kdf.password /\ kdf'.method = kdf.method
    /\ kdf'.salt = kdf.salt
    /\ kdf'.number_of_iterations = kdf.number_of_iterations
    /\ kdf'.output_data_offset + kdf'.output_data_size
         = kdf.output_data_offset + kdf.output_data_size

\* A step of the function keeps its invariant and its arguments.
LEMMA KdfSteps ==
    ASSUME KdfInv, Pbkdf2Step
    PROVE  /\ KdfInv'
           /\ kdf.pc # "idle" /\ kdf'.pc # "idle"
           /\ kdf'.pc = "failed" \/ (KdfRuns /\ KdfCallKept)
<1> DEFINE h == HashSize[kdf.method]
           n == kdf.output_data_offset + kdf.output_data_size
           c == kdf.number_of_iterations
           u == HmacChain(kdf.password, kdf.method, kdf.salt, c, kdf.block_index)
           t == ChainSum(u, c)
<1>0. ASSUME c \in Nat, NEW k \in 1 .. c
      PROVE  /\ u[k] = Hmac(kdf.method, kdf.password,
                             IF k = 1 THEN <<kdf.salt, kdf.block_index>> ELSE u[k - 1])
             /\ t[k] = IF k = 1 THEN u[1] ELSE Xor(t[k - 1], u[k])
  <2>1. ASSUME NEW d \in Nat, NEW k1 \in 1 .. d
        PROVE  LET v == HmacChain(kdf.password, kdf.method, kdf.salt, d, kdf.block_index)
                   w == ChainSum(v, d)
               IN  /\ v[k1] = Hmac(kdf.method, kdf.password,
                                   IF k1 = 1 THEN <<kdf.salt, kdf.block_index>>
                                   ELSE v[k1 - 1])
                   /\ w[k1] = IF k1 = 1 THEN v[1] ELSE Xor(w[k1 - 1], v[k1])
    BY ChainElements
  <2>2. QED
    BY <1>0, <2>1
<1>1. CASE HashSalt
  <2> DEFINE hash == Hmac(kdf.method, kdf.password, <<kdf.salt, kdf.block_index>>)
  <2>1. /\ kdf.pc = "block" /\ kdf.block_index <= kdf.number_of_blocks
        /\ kdf' = [kdf EXCEPT !.pc = "iterate", !.hash_buffer = hash,
                              !.block_buffer = hash, !.password_iterator = 1]
    BY <1>1 DEF HashSalt
  <2>2. KdfBounds /\ KdfDerived /\ KdfRecord /\ KdfRuns
    BY <2>1 DEF KdfInv, KdfRuns
  <2>3. 1 \in 1 .. c /\ u[1] = hash /\ t[1] = hash
    <3>1. c \in Nat /\ 1 \in 1 .. c
      BY <2>2 DEF KdfBounds
    <3> HIDE DEF u, t, c
    <3>2. QED
      BY <1>0, <3>1
  <2> HIDE DEF u, t, hash
  <2>4. /\ kdf'.pc = "iterate" /\ kdf'.password_iterator = 1
        /\ kdf'.hash_buffer = hash /\ kdf'.block_buffer = hash
        /\ kdf'.password = kdf.password /\ kdf'.method = kdf.method
        /\ kdf'.salt = kdf.salt
        /\ kdf'.number_of_iterations = kdf.number_of_iterations
        /\ kdf'.number_of_blocks = kdf.number_of_blocks
        /\ kdf'.block_index = kdf.block_index
        /\ kdf'.hash_size = kdf.hash_size
        /\ kdf'.output_data = kdf.output_data
        /\ kdf'.output_data_offset = kdf.output_data_offset
        /\ kdf'.output_data_size = kdf.output_data_size
    BY <2>1, <2>2 DEF KdfRecord
  <2>5. KdfRecord'
    BY <2>1, <2>2 DEF KdfRecord
  <2>6. KdfBounds'
    BY <2>1, <2>2, <2>4 DEF KdfBounds
  <2>7. KdfDerived'
    BY <2>2, <2>4 DEF KdfDerived
  <2>8. KdfBlock'
    BY <2>3, <2>4 DEF KdfBlock, u, t
  <2>9. QED
    BY <2>1, <2>2, <2>4, <2>5, <2>6, <2>7, <2>8
       DEF KdfInv, KdfRuns, KdfPlaces, KdfCallKept
<1>2. CASE Iterate
  <2> DEFINE i == kdf.password_iterator
             hash == Hmac(kdf.method, kdf.password, kdf.hash_buffer)
  <2>1. /\ kdf.pc = "iterate" /\ i < c
        /\ kdf' = [kdf EXCEPT !.hash_buffer = hash,
                              !.block_buffer = Xor(kdf.block_buffer, hash),
                              !.password_iterator = i + 1]
    BY <1>2 DEF Iterate
  <2>2. KdfBounds /\ KdfDerived /\ KdfRecord /\ KdfRuns /\ KdfBlock
    BY <2>1 DEF KdfInv, KdfRuns
  <2>3. i + 1 \in 1 .. c /\ u[i + 1] = hash /\ t[i + 1] = Xor(kdf.block_buffer, hash)
    <3>1. c \in Nat /\ i + 1 \in 1 .. c /\ (i + 1) - 1 = i /\ i + 1 # 1
      BY <2>1, <2>2 DEF KdfBounds, KdfBlock
    <3>2. /\ u[i + 1] = Hmac(kdf.method, kdf.password, u[i])
          /\ t[i + 1] = Xor(t[i], u[i + 1])
      <4> HIDE DEF u, t, c, i
      <4>1. QED
        BY <1>0, <3>1
    <3>3. u[i] = kdf.hash_buffer /\ t[i] = kdf.block_buffer
      BY <2>2 DEF KdfBlock
    <3>4. QED
      BY <3>1, <3>2, <3>3
  <2> HIDE DEF u, t, hash
  <2>4. /\ kdf'.pc = "iterate" /\ kdf'.password_iterator = i + 1
        /\ kdf'.hash_buffer = hash /\ kdf'.block_buffer = Xor(kdf.block_buffer, hash)
        /\ kdf'.password = kdf.password /\ kdf'.method = kdf.method
        /\ kdf'.salt = kdf.salt
        /\ kdf'.number_of_iterations = kdf.number_of_iterations
        /\ kdf'.number_of_blocks = kdf.number_of_blocks
        /\ kdf'.block_index = kdf.block_index
        /\ kdf'.hash_size = kdf.hash_size
        /\ kdf'.output_data = kdf.output_data
        /\ kdf'.output_data_offset = kdf.output_data_offset
        /\ kdf'.output_data_size = kdf.output_data_size
    BY <2>1, <2>2 DEF KdfRecord
  <2>5. KdfRecord'
    BY <2>1, <2>2 DEF KdfRecord
  <2>6. KdfBounds'
    BY <2>1, <2>2, <2>4 DEF KdfBounds
  <2>7. KdfDerived'
    BY <2>2, <2>4 DEF KdfDerived
  <2>8. KdfBlock'
    BY <2>3, <2>4 DEF KdfBlock, u, t
  <2>9. QED
    BY <2>1, <2>2, <2>4, <2>5, <2>6, <2>7, <2>8
       DEF KdfInv, KdfRuns, KdfPlaces, KdfCallKept
<1>3. CASE CopyBlock
  <2> DEFINE from == kdf.output_data_offset
             size == Smaller(kdf.hash_size, kdf.output_data_size)
             copied == [i \in DOMAIN kdf.output_data |->
                           IF i \in (from + 1) .. (from + size)
                           THEN kdf.block_buffer[i - from]
                           ELSE kdf.output_data[i]]
             b == kdf.block_index
  <2>1. /\ kdf.pc = "iterate" /\ kdf.password_iterator >= c
        /\ kdf' = [kdf EXCEPT
                     !.pc = "block", !.output_data = copied,
                     !.output_data_offset = from + size,
                     !.output_data_size = kdf.output_data_size - size,
                     !.hash_size = size, !.block_index = b + 1]
    BY <1>3 DEF CopyBlock
  <2>2. KdfBounds /\ KdfDerived /\ KdfRecord /\ KdfRuns /\ KdfBlock
    BY <2>1 DEF KdfInv, KdfRuns
  <2>3. /\ h \in {5, 7, 8, 16} /\ n \in Nat /\ from \in Nat
        /\ b \in Nat \ {0} /\ b <= kdf.number_of_blocks
        /\ from = (b - 1) * h /\ kdf.hash_size = h /\ kdf.output_data_size > 0
        /\ kdf.output_data_size \in Nat
        /\ kdf.number_of_blocks = NumberOfBlocks(n, h)
        /\ IsSequenceOf(kdf.output_data, n)
        /\ kdf.method \in HashMethods /\ c \in Nat \ {0}
    <3>1. kdf.method \in HashMethods
      BY <2>2 DEF KdfBounds
    <3>2. h \in {5, 7, 8, 16}
      BY <3>1, DigestSizes
    <3>3. kdf.block_index <= kdf.number_of_blocks
      BY <2>1, <2>2 DEF KdfBounds
    <3>4. QED
      BY <2>1, <2>2, <3>2, <3>3 DEF KdfBounds
  <2>4. kdf.block_buffer = Pbkdf2Block(kdf.password, kdf.method, kdf.salt, c, b)
    <3>1. kdf.password_iterator = c
      BY <2>1, <2>2, <2>3 DEF KdfBlock
    <3>2. QED
      BY <2>2, <3>1 DEF KdfBlock, Pbkdf2Block
  <2>5. /\ size \in 1 .. h /\ size <= kdf.output_data_size
        /\ size = h \/ size = kdf.output_data_size
        /\ from + size <= n
    BY <2>3 DEF Smaller
  <2> HIDE DEF u, t, size, copied, h
  <2>6. /\ b + 1 <= NumberOfBlocks(n, h) =>
              size = h /\ from + size = ((b + 1) - 1) * h /\ kdf.output_data_size - size > 0
        /\ b + 1 > NumberOfBlocks(n, h) => kdf.output_data_size - size = 0
        /\ NumberOfBlocks(n, h) \in Nat
    <3>1. /\ NumberOfBlocks(n, h) \in Nat
          /\ b + 1 <= NumberOfBlocks(n, h) <=> ((b + 1) - 1) * h < n
      <4>1. b + 1 \in Nat \ {0}
        BY <2>3
      <4>2. QED
        BY <2>3, <4>1, BlocksOfKey
    <3>2. (b + 1 - 1) * h = from + h
      BY <2>3
    <3>3. QED
      BY <2>3, <2>5, <3>1, <3>2 DEF size, Smaller
  <2>7. /\ IsSequenceOf(copied, n)
        /\ \A i \in 1 .. n : copied[i] = IF i \in (from + 1) .. (from + size)
                                         THEN kdf.block_buffer[i - from]
                                         ELSE kdf.output_data[i]
    <3>1. DOMAIN kdf.output_data = 1 .. n
      BY <2>3 DEF IsSequenceOf
    <3>2. QED
      BY <3>1 DEF copied, IsSequenceOf
  <2>8. /\ kdf'.pc = "block" /\ kdf'.password = kdf.password
        /\ kdf'.method = kdf.method /\ kdf'.salt = kdf.salt
        /\ kdf'.number_of_iterations = kdf.number_of_iterations
        /\ kdf'.number_of_blocks = kdf.number_of_blocks
        /\ kdf'.block_index = b + 1 /\ kdf'.hash_size = size
        /\ kdf'.output_data = copied /\ kdf'.output_data_offset = from + size
        /\ kdf'.output_data_size = kdf.output_data_size - size
    BY <2>1, <2>2 DEF KdfRecord
  <2>9. kdf'.output_data_offset + kdf'.output_data_size = n
    BY <2>3, <2>5, <2>8
  <2>10. KdfRecord'
    BY <2>1, <2>2 DEF KdfRecord
  <2>11. KdfBounds'
    <3>1. kdf'.output_data_offset \in Nat /\ kdf'.output_data_size \in Nat
      BY <2>3, <2>5, <2>8
    <3>2. IsSequenceOf(kdf'.output_data, kdf'.output_data_offset + kdf'.output_data_size)
      BY <2>7, <2>8, <2>9
    <3>3. kdf'.number_of_blocks
            = NumberOfBlocks(kdf'.output_data_offset + kdf'.output_data_size,
                             HashSize[kdf'.method])
      BY <2>3, <2>8, <2>9 DEF h
    <3>4. kdf'.block_index \in 1 .. kdf'.number_of_blocks + 1
      BY <2>3, <2>6, <2>8
    <3>5. kdf'.block_index <= kdf'.number_of_blocks =>
            /\ kdf'.output_data_offset = (kdf'.block_index - 1) * HashSize[kdf'.method]
            /\ kdf'.output_data_size > 0
            /\ kdf'.hash_size = HashSize[kdf'.method]
      BY <2>3, <2>6, <2>8 DEF h
    <3>6. kdf'.block_index > kdf'.number_of_blocks => kdf'.output_data_size = 0
      BY <2>3, <2>6, <2>8
    <3>7. kdf'.method \in HashMethods /\ kdf'.number_of_iterations \in Nat \ {0}
      BY <2>3, <2>8
    <3>8. kdf'.pc # "iterate" /\ kdf'.pc # "done"
      BY <2>8
    <3>9. QED
      BY <3>1, <3>2, <3>3, <3>4, <3>5, <3>6, <3>7, <3>8 DEF KdfBounds
  <2>12. KdfDerived'
    <3> DEFINE key == DerivedKey(kdf.password, kdf.method, kdf.salt, c, n)
    <3>1. ASSUME NEW j \in 1 .. from + size PROVE copied[j] = key[j]
      <4>1. j \in 1 .. n
        BY <2>3, <2>5
      <4>2. CASE j \in 1 .. from
        <5>1. kdf.output_data[j] = key[j]
          BY <2>2, <4>2 DEF KdfDerived
        <5>2. j \notin (from + 1) .. (from + size)
          BY <2>3, <4>2
        <5>3. QED
          BY <2>7, <4>1, <5>1, <5>2
      <4>3. CASE j \notin 1 .. from
        <5>1. j \in (from + 1) .. (from + size) /\ j - from \in 1 .. h
          BY <2>3, <2>5, <4>3
        <5>2. copied[j] = kdf.block_buffer[j - from]
          BY <2>7, <4>1, <5>1
        <5>4. ((j - 1) \div h) + 1 = b /\ ((j - 1) % h) + 1 = j - from
          <6>1. j \in Nat /\ j - ((b - 1) * h) \in 1 .. h
            BY <2>3, <4>1, <5>1
          <6>2. ((j - 1) \div h) + 1 = b /\ ((j - 1) % h) + 1 = j - ((b - 1) * h)
            <7> HIDE DEF b
            <7>1. QED
              BY <2>3, <6>1, CellOfBlock
          <6>3. QED
            BY <2>3, <6>2
        <5>5. key[j] = Pbkdf2Block(kdf.password, kdf.method, kdf.salt, c,
                                   ((j - 1) \div h) + 1)[((j - 1) % h) + 1]
          BY <4>1 DEF DerivedKey, h
        <5>6. QED
          BY <2>4, <5>2, <5>4, <5>5
      <4>4. QED
        BY <4>2, <4>3
    <3> HIDE DEF key
    <3>2. QED
      BY <2>8, <2>9, <3>1 DEF KdfDerived, key
  <2>13. QED
    BY <2>1, <2>2, <2>8, <2>9, <2>10, <2>11, <2>12
       DEF KdfInv, KdfRuns, KdfPlaces, KdfCallKept
<1>4. CASE Pbkdf2Returns
  <2>1. /\ kdf.pc = "block" /\ kdf.block_index > kdf.number_of_blocks
        /\ kdf' = [kdf EXCEPT !.pc = "done"]
    BY <1>4 DEF Pbkdf2Returns
  <2>2. KdfBounds /\ KdfDerived /\ KdfRecord /\ KdfRuns
    BY <2>1 DEF KdfInv, KdfRuns
  <2>3. /\ kdf'.pc = "done" /\ kdf'.password = kdf.password
        /\ kdf'.method = kdf.method /\ kdf'.salt = kdf.salt
        /\ kdf'.number_of_iterations = kdf.number_of_iterations
        /\ kdf'.number_of_blocks = kdf.number_of_blocks
        /\ kdf'.block_index = kdf.block_index
        /\ kdf'.hash_size = kdf.hash_size
        /\ kdf'.output_data = kdf.output_data
        /\ kdf'.output_data_offset = kdf.output_data_offset
        /\ kdf'.output_data_size = kdf.output_data_size
    BY <2>1, <2>2 DEF KdfRecord
  <2>4. KdfRecord'
    BY <2>1, <2>2 DEF KdfRecord
  <2>5. KdfBounds'
    BY <2>1, <2>2, <2>3 DEF KdfBounds
  <2>6. KdfDerived'
    BY <2>2, <2>3 DEF KdfDerived
  <2>7. QED
    BY <2>1, <2>2, <2>3, <2>4, <2>5, <2>6 DEF KdfInv, KdfRuns, KdfPlaces, KdfCallKept
<1>5. CASE Pbkdf2Fails
  <2>1. kdf.pc \in {"block", "iterate"} /\ kdf' = [KdfIdle EXCEPT !.pc = "failed"]
    BY <1>5 DEF Pbkdf2Fails
  <2>2. QED
    BY <2>1 DEF KdfInv, KdfRecord, KdfIdle, KdfPlaces, KdfRuns
<1>6. QED
  BY <1>1, <1>2, <1>3, <1>4, <1>5 DEF Pbkdf2Step

\* What the invariant says of the properties of the function.
LEMMA KdfProperties ==
    ASSUME KdfInv
    PROVE  OutputIsFilled /\ DerivesKey
<1>1. CASE ~ KdfRuns
  <2>1. kdf = [KdfIdle EXCEPT !.pc = kdf.pc] /\ kdf.pc # "done" /\ kdf.pc # "iterate"
    BY <1>1 DEF KdfInv, KdfRuns
  <2>2. /\ kdf.output_data = <<>> /\ kdf.output_data_offset = 0
        /\ kdf.output_data_size = 0
    BY <2>1 DEF KdfIdle
  <2>3. Len(<<>>) = 0
    OBVIOUS
  <2>4. QED
    BY <2>1, <2>2, <2>3 DEF OutputIsFilled, DerivesKey
<1>2. CASE KdfRuns
  <2> DEFINE n == kdf.output_data_offset + kdf.output_data_size
             key == DerivedKey(kdf.password, kdf.method, kdf.salt,
                               kdf.number_of_iterations, n)
  <2>1. KdfBounds /\ KdfDerived
    BY <1>2 DEF KdfInv
  <2>2. Len(kdf.output_data) = n /\ n \in Nat
    <3>1. n \in Nat /\ IsSequenceOf(kdf.output_data, n)
      BY <2>1 DEF KdfBounds
    <3> HIDE DEF n
    <3>2. QED
      BY <3>1, SequenceLength
  <2>3. OutputIsFilled
    BY <2>1, <2>2 DEF OutputIsFilled, KdfBounds
  <2>4. ASSUME kdf.pc = "done" PROVE kdf.output_data = key
    <3>1. kdf.output_data_size = 0 /\ kdf.output_data_offset = n
      BY <2>1, <2>4 DEF KdfBounds
    <3>2. IsSequenceOf(kdf.output_data, n) /\ IsSequenceOf(key, n)
      BY <2>1, DerivedKeyIsSequence DEF KdfBounds
    <3>3. \A j \in 1 .. n : kdf.output_data[j] = key[j]
      BY <2>1, <3>1 DEF KdfDerived
    <3>4. QED
      BY <3>2, <3>3, SequencesEqual
  <2>5. QED
    BY <2>2, <2>3, <2>4 DEF DerivesKey
<1>3. QED
  BY <1>1, <1>2
=============================================================================
