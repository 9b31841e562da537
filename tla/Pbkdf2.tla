------------------------------- MODULE Pbkdf2 -------------------------------
(***************************************************************************)
(* libluksde_password_pbkdf2 (libluksde/libluksde_password.c): the user    *)
(* key from a password, and the validation hash from a master key.         *)
(*                                                                         *)
(* The locals of the function are the fields of kdf.  A step is one HMAC,  *)
(* or the copy of a finished block to the output.                          *)
(***************************************************************************)
EXTENDS Cells

VARIABLE kdf

KdfIdle ==
    [pc |-> "idle", password |-> <<>>, method |-> "none", salt |-> "none",
     number_of_iterations |-> 0, number_of_blocks |-> 0, block_index |-> 0,
     password_iterator |-> 0, hash_size |-> 0, hash_buffer |-> <<>>,
     block_buffer |-> <<>>, output_data |-> <<>>,
     output_data_offset |-> 0, output_data_size |-> 0]

KdfInit == kdf = KdfIdle

\* Mutant of NumberOfBlocks: no block for what is left of the last digest.
NumberOfBlocksFloor(size, hash_size) == size \div hash_size

NumberOfBlocks(size, hash_size) ==
    (size \div hash_size) + IF size % hash_size # 0 THEN 1 ELSE 0

\* The checks of the arguments, and the buffers before the first block.
Pbkdf2(password, method, salt, iterations, size) ==
    /\ kdf.pc = "idle"
    /\ kdf' = IF method \in HashMethods /\ iterations # 0
              THEN [KdfIdle EXCEPT
                      !.pc = "block", !.password = password,
                      !.method = method, !.salt = salt,
                      !.number_of_iterations = iterations,
                      !.number_of_blocks =
                          NumberOfBlocks(size, HashSize[method]),
                      !.block_index = 1,
                      !.hash_size = HashSize[method],
                      !.output_data = Zeros(size),
                      !.output_data_size = size]
              ELSE [KdfIdle EXCEPT !.pc = "failed"]

\* The first HMAC of a block, over the salt and the number of the block.
HashSalt ==
    /\ kdf.pc = "block"
    /\ kdf.block_index <= kdf.number_of_blocks
    /\ LET hash == Hmac(kdf.method, kdf.password, <<kdf.salt, kdf.block_index>>)
       IN  kdf' = [kdf EXCEPT !.pc = "iterate", !.hash_buffer = hash,
                              !.block_buffer = hash, !.password_iterator = 1]

\* Mutant of Iterate: the block is what is hashed again.
IterateBlockBuffer ==
    /\ kdf.pc = "iterate"
    /\ kdf.password_iterator < kdf.number_of_iterations
    /\ LET hash == Hmac(kdf.method, kdf.password, kdf.block_buffer)
       IN  kdf' = [kdf EXCEPT !.hash_buffer = hash,
                              !.block_buffer = Xor(@, hash),
                              !.password_iterator = @ + 1]

\* The HMAC of the last HMAC, added to the block.
Iterate ==
    /\ kdf.pc = "iterate"
    /\ kdf.password_iterator < kdf.number_of_iterations
    /\ LET hash == Hmac(kdf.method, kdf.password, kdf.hash_buffer)
       IN  kdf' = [kdf EXCEPT !.hash_buffer = hash,
                              !.block_buffer = Xor(@, hash),
                              !.password_iterator = @ + 1]

\* A finished block is copied, of the last one what there is room for.
CopyBlock ==
    /\ kdf.pc = "iterate"
    /\ kdf.password_iterator >= kdf.number_of_iterations
    /\ LET size == Smaller(kdf.hash_size, kdf.output_data_size)
           from == kdf.output_data_offset
       IN  kdf' = [kdf EXCEPT
                     !.pc = "block",
                     !.output_data =
                         [i \in DOMAIN @ |->
                             IF i \in (from + 1) .. (from + size)
                             THEN kdf.block_buffer[i - from] ELSE @[i]],
                     !.output_data_offset = @ + size,
                     !.output_data_size = @ - size,
                     !.hash_size = size,
                     !.block_index = @ + 1]

Pbkdf2Returns ==
    /\ kdf.pc = "block"
    /\ kdf.block_index > kdf.number_of_blocks
    /\ kdf' = [kdf EXCEPT !.pc = "done"]

\* An allocation, a copy or an HMAC fails.
Pbkdf2Fails ==
    /\ LibraryFaults
    /\ kdf.pc \in {"block", "iterate"}
    /\ kdf' = [KdfIdle EXCEPT !.pc = "failed"]

Pbkdf2Step == HashSalt \/ Iterate \/ CopyBlock \/ Pbkdf2Returns \/ Pbkdf2Fails

-----------------------------------------------------------------------------
(* What the function should compute (PKCS #5, section 5.2)                 *)

\* U_1 to U_c of block i.
HmacChain(password, method, salt, iterations, i) ==
    LET u[n \in 1 .. iterations] ==
            Hmac(method, password, IF n = 1 THEN <<salt, i>> ELSE u[n - 1])
    IN  u

\* The exclusive or of the first n of a chain.
ChainSum(chain, iterations) ==
    LET sum[n \in 1 .. iterations] ==
            IF n = 1 THEN chain[1] ELSE Xor(sum[n - 1], chain[n])
    IN  sum

\* A block of the key.
Pbkdf2Block(password, method, salt, iterations, i) ==
    ChainSum(HmacChain(password, method, salt, iterations, i), iterations)
        [iterations]

\* The blocks one after the other, cut to the size that is asked for.
DerivedKey(password, method, salt, iterations, size) ==
    [j \in 1 .. size |->
        Pbkdf2Block(password, method, salt, iterations,
                    ((j - 1) \div HashSize[method]) + 1)
            [((j - 1) % HashSize[method]) + 1]]

-----------------------------------------------------------------------------
KdfPlaces == {"idle", "block", "iterate", "done", "failed"}

\* The copies stay inside the output and fill it: what is left of it is what
\* the blocks that are left will fill, the last with a part of a digest
\* (lines 209-216 and 463-482).
OutputIsFilled ==
    /\ kdf.output_data_offset + kdf.output_data_size = Len(kdf.output_data)
    /\ kdf.output_data_offset \in Nat
    /\ kdf.output_data_size \in Nat
    /\ kdf.pc = "iterate" => kdf.output_data_size > 0
    /\ kdf.pc = "done" => kdf.output_data_size = 0

\* The function returns the key that PBKDF2 defines, for keys shorter and
\* longer than a digest and any number of iterations (lines 306-483).
DerivesKey ==
    kdf.pc = "done" =>
        kdf.output_data = DerivedKey(kdf.password, kdf.method, kdf.salt,
                                     kdf.number_of_iterations,
                                     Len(kdf.output_data))
=============================================================================
