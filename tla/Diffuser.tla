------------------------------ MODULE Diffuser ------------------------------
(***************************************************************************)
(* libluksde_diffuser_merge and libluksde_diffuser_diffuse                 *)
(* (libluksde/libluksde_diffuser.c): the master key from the stripes that  *)
(* the anti-forensic splitter made of it.                                  *)
(*                                                                         *)
(* The locals of the two functions are the fields of merge.  A step adds   *)
(* one stripe to the data, or hashes one block of the data in place.       *)
(***************************************************************************)
EXTENDS Cells

VARIABLE merge

MergeIdle ==
    [pc |-> "idle", split_data |-> <<>>, split_data_offset |-> 0,
     number_of_stripes |-> 0, stripe_iterator |-> 0, method |-> "none",
     data |-> <<>>, data_offset |-> 0, data_size |-> 0, block_index |-> 0]

MergeInit == merge = MergeIdle

\* The checks of the arguments of merge, and the data set to zero.
Merge(split_data, size, stripes, method) ==
    /\ merge.pc = "idle"
    /\ merge' = IF /\ size \in 1 .. Len(split_data)
                   /\ stripes \in 1 .. (Len(split_data) \div size)
                THEN [MergeIdle EXCEPT
                        !.pc = "stripe", !.split_data = split_data,
                        !.number_of_stripes = stripes, !.method = method,
                        !.data = Zeros(size)]
                ELSE [MergeIdle EXCEPT !.pc = "failed"]

\* The data with the next stripe added to them.
StripeAdded ==
    [i \in DOMAIN merge.data |->
        Xor(<<merge.data[i]>>,
            <<merge.split_data[merge.split_data_offset + i]>>)[1]]

\* Mutant of MergeStripe: the last stripe is diffused as well.
MergeEveryStripe ==
    /\ merge.pc = "stripe"
    /\ merge.stripe_iterator < merge.number_of_stripes
    /\ merge' = IF merge.method \in HashMethods
                THEN [merge EXCEPT
                        !.pc = "diffuse", !.data = StripeAdded,
                        !.split_data_offset = @ + Len(merge.data),
                        !.data_offset = 0, !.data_size = Len(merge.data),
                        !.block_index = 0]
                ELSE [MergeIdle EXCEPT !.pc = "failed"]

\* A stripe but the last is added, and diffuse is called: it fails for a
\* method it has no digest for.
MergeStripe ==
    /\ merge.pc = "stripe"
    /\ merge.stripe_iterator < merge.number_of_stripes - 1
    /\ merge' = IF merge.method \in HashMethods
                THEN [merge EXCEPT
                        !.pc = "diffuse", !.data = StripeAdded,
                        !.split_data_offset = @ + Len(merge.data),
                        !.data_offset = 0, !.data_size = Len(merge.data),
                        !.block_index = 0]
                ELSE [MergeIdle EXCEPT !.pc = "failed"]

\* Mutant of DiffuseBlock: a digest is taken of the whole data, not of the
\* block it replaces.
DiffuseWholeData ==
    /\ merge.pc = "diffuse"
    /\ merge.data_size > 0
    /\ LET from == merge.data_offset
           read_size == Smaller(merge.data_size, HashSize[merge.method])
           hash == Digest(merge.method, <<merge.block_index, merge.data>>)
       IN  merge' = [merge EXCEPT
                       !.data = [i \in DOMAIN @ |->
                                    IF i \in (from + 1) .. (from + read_size)
                                    THEN hash[i - from] ELSE @[i]],
                       !.data_offset = @ + read_size,
                       !.data_size = @ - read_size,
                       !.block_index = @ + 1]

\* One round of the loop of diffuse: a block of the data is replaced by its
\* digest, cut to the size of the block.
DiffuseBlock ==
    /\ merge.pc = "diffuse"
    /\ merge.data_size > 0
    /\ LET from == merge.data_offset
           read_size == Smaller(merge.data_size, HashSize[merge.method])
           block == SubSeq(merge.data, from + 1, from + read_size)
           hash == Digest(merge.method, <<merge.block_index, block>>)
       IN  merge' = [merge EXCEPT
                       !.data = [i \in DOMAIN @ |->
                                    IF i \in (from + 1) .. (from + read_size)
                                    THEN hash[i - from] ELSE @[i]],
                       !.data_offset = @ + read_size,
                       !.data_size = @ - read_size,
                       !.block_index = @ + 1]

DiffuseReturns ==
    /\ merge.pc = "diffuse"
    /\ merge.data_size = 0
    /\ merge' = [merge EXCEPT !.pc = "stripe", !.stripe_iterator = @ + 1]

\* The last stripe is added and not diffused.
MergeLastStripe ==
    /\ merge.pc = "stripe"
    /\ merge.stripe_iterator >= merge.number_of_stripes - 1
    /\ merge' = [merge EXCEPT !.pc = "done", !.data = StripeAdded,
                              !.split_data_offset = @ + Len(merge.data)]

\* A digest context cannot be made, updated, finalized or freed: diffuse
\* frees what it has, and merge fails with it.
DiffuseFails ==
    /\ LibraryFaults
    /\ merge.pc = "diffuse"
    /\ merge.data_size > 0
    /\ merge' = [MergeIdle EXCEPT !.pc = "failed"]

MergeStep ==
    MergeStripe \/ DiffuseBlock \/ DiffuseReturns \/ MergeLastStripe \/ DiffuseFails

-----------------------------------------------------------------------------
(* The splitter (Fruhwirth, section 2.4), of which merge is the inverse    *)

\* H1: every block of the data is replaced by the digest of its number and
\* itself; the last is cut.
Diffused(method, data) ==
    LET block(j) == (j - 1) \div HashSize[method]
        first(j) == block(j) * HashSize[method]
        last(j) == Smaller(first(j) + HashSize[method], Len(data))
    IN  [j \in DOMAIN data |->
            Digest(method, <<block(j), SubSeq(data, first(j) + 1, last(j))>>)
                [j - first(j)]]

\* d_0 = 0 and d_k = H1(d_(k-1) xor s_k).
SplitChain(method, size, random) ==
    LET d[k \in 0 .. Len(random)] ==
            IF k = 0 THEN Zeros(size)
            ELSE Diffused(method, Xor(d[k - 1], random[k]))
    IN  d

\* The stripes one after the other; the last is d_(n-1) xor key.
SplitKey(method, key, random) ==
    LET d == SplitChain(method, Len(key), random)
        stripe(k) == IF k <= Len(random) THEN random[k]
                     ELSE Xor(d[Len(random)], key)
    IN  [i \in 1 .. (Len(key) * (Len(random) + 1)) |->
            stripe(((i - 1) \div Len(key)) + 1)[((i - 1) % Len(key)) + 1]]

-----------------------------------------------------------------------------
MergePlaces == {"idle", "stripe", "diffuse", "done", "failed"}

\* The two offsets stay inside their buffers, and the blocks of a stripe
\* cover it (lines 110-371 and 491-527): what is read of the split data is
\* whole stripes, as many as were added.
OffsetsInBuffers ==
    /\ merge.data_offset \in 0 .. Len(merge.data)
    /\ merge.pc = "diffuse" =>
          merge.data_offset + merge.data_size = Len(merge.data)
    /\ merge.split_data_offset \in 0 .. Len(merge.split_data)
    /\ merge.pc = "stripe" =>
          /\ merge.split_data_offset = merge.stripe_iterator * Len(merge.data)
          /\ merge.split_data_offset + Len(merge.data) <= Len(merge.split_data)
=============================================================================
