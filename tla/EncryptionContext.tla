------------------------- MODULE EncryptionContext --------------------------
(***************************************************************************)
(* libluksde_encryption_context (libluksde_encryption_context.c): the      *)
(* cipher contexts it makes and frees, their keys, and the initialization  *)
(* vector of a sector.                                                     *)
(*                                                                         *)
(* A sector that is encrypted is a record of what it was encrypted under   *)
(* and of its plaintext.  A vector has two halves of eight bytes, with the *)
(* number each holds and the order of its bytes; numbers have WordSize     *)
(* values where the code has 2^32 and LongSize where it has 2^64.          *)
(***************************************************************************)
EXTENDS Cells

CONSTANTS
    WordSize,        \* 2^32 in the code
    LongSize,        \* 2^64 in the code
    NoKey            \* a cipher context without a key, or NULL

VARIABLES
    context,         \* the encryption context
    ciphers          \* the cipher contexts of libcaes and libfcrypto alive

contextVars == <<context, ciphers>>

NoContext ==
    [pc |-> "idle", encryption_mode |-> "none",
     initialization_vector_mode |-> "UNKNOWN",
     essiv_hashing_method |-> "UNKNOWN", key |-> NoKey, key_size |-> 0,
     decryption |-> NoKey, encryption |-> NoKey, essiv |-> NoKey]

ContextInit ==
    /\ context = NoContext
    /\ ciphers = {}

-----------------------------------------------------------------------------
(* libluksde_encryption_context_initialize, libluksde_encryption_context_free *)

\* The modes that a method and a chaining mode make; other pairs are refused.
EncryptionMode(method, chaining) ==
    CASE method = "aes" /\ chaining = "cbc" -> "AES_CBC"
      [] method = "aes" /\ chaining = "ecb" -> "AES_ECB"
      [] method = "aes" /\ chaining = "xts" -> "AES_XTS"
      [] method = "arc4" /\ chaining = "cbc" -> "RC4_CBC"
      [] method = "arc4" /\ chaining = "ecb" -> "RC4_ECB"
      [] method = "blowfish" /\ chaining = "cbc" -> "BLOWFISH_CBC"
      [] method = "blowfish" /\ chaining = "ecb" -> "BLOWFISH_ECB"
      [] method = "serpent" /\ chaining = "cbc" -> "SERPENT_CBC"
      [] method = "serpent" /\ chaining = "ecb" -> "SERPENT_ECB"
      [] OTHER -> "none"

InitializeContext(method, chaining, vector, essiv_hash) ==
    /\ context.pc = "idle"
    /\ context' = IF EncryptionMode(method, chaining) = "none"
                  THEN [NoContext EXCEPT !.pc = "failed"]
                  ELSE [NoContext EXCEPT
                          !.pc = "make_decryption",
                          !.encryption_mode = EncryptionMode(method, chaining),
                          !.initialization_vector_mode = vector,
                          !.essiv_hashing_method = essiv_hash]
    /\ UNCHANGED ciphers

MakeDecryption ==
    /\ context.pc = "make_decryption"
    /\ context' = [context EXCEPT !.pc = "make_encryption"]
    /\ ciphers' = ciphers \cup {"decryption"}

MakeEncryption ==
    /\ context.pc = "make_encryption"
    /\ context' = [context EXCEPT
                     !.pc = IF context.initialization_vector_mode = "ESSIV"
                            THEN "make_essiv" ELSE "made"]
    /\ ciphers' = ciphers \cup {"encryption"}

\* There is a context for the sector salt with AES-CBC and AES-ECB only.
MakeEssiv ==
    /\ context.pc = "make_essiv"
    /\ context.encryption_mode \in {"AES_CBC", "AES_ECB"}
    /\ context' = [context EXCEPT !.pc = "made"]
    /\ ciphers' = ciphers \cup {"essiv"}

\* Mutant of FreeOnError: only the decryption context is freed.
FreeDecryptionOnly ==
    /\ context' = [NoContext EXCEPT !.pc = "failed"]
    /\ ciphers' = ciphers \ {"decryption"}

\* on_error of initialize: every cipher context that was made is freed.
FreeOnError ==
    /\ context' = [NoContext EXCEPT !.pc = "failed"]
    /\ ciphers' = ciphers \ {"decryption", "encryption"}

\* The memory or a cipher context cannot be had, or there is none for the
\* sector salt.
InitializeContextFails ==
    /\ \/ LibraryFaults
       \/ /\ context.pc = "make_essiv"
          /\ context.encryption_mode \notin {"AES_CBC", "AES_ECB"}
    /\ context.pc \in {"make_decryption", "make_encryption", "make_essiv"}
    /\ FreeOnError

FreeContext ==
    /\ context' = NoContext
    /\ ciphers' = {}

-----------------------------------------------------------------------------
(* libluksde_encryption_context_set_key                                    *)

SetContextKey(key) ==
    /\ context.pc = "made"
    /\ context' = [context EXCEPT !.pc = "decryption_key", !.key = key,
                                  !.key_size = Len(key)]
    /\ UNCHANGED ciphers

\* The sizes in cells that the ciphers take (libcaes and libfcrypto).
KeyFits(mode, size) ==
    \/ mode \in {"AES_CBC", "AES_ECB", "SERPENT_CBC", "SERPENT_ECB"}
       /\ size \in {4, 6, 8}
    \/ mode = "AES_XTS" /\ size \in {4, 8}
    \/ mode \in {"BLOWFISH_CBC", "BLOWFISH_ECB", "RC4_CBC", "RC4_ECB"}

\* XTS has two keys, each half of the volume's.
CipherKey(size) ==
    IF context.encryption_mode = "AES_XTS"
    THEN <<SubSeq(context.key, 1, size), SubSeq(context.key, size + 1, 2 * size)>>
    ELSE <<SubSeq(context.key, 1, size)>>

\* The size is halved once for both keys of both directions.
SetDecryptionKey ==
    /\ context.pc = "decryption_key"
    /\ LET size == IF context.encryption_mode = "AES_XTS"
                   THEN context.key_size \div 2 ELSE context.key_size
       IN  /\ KeyFits(context.encryption_mode, size)
           /\ context' = [context EXCEPT !.pc = "encryption_key",
                                         !.key_size = size,
                                         !.decryption = CipherKey(size)]
    /\ UNCHANGED ciphers

\* Mutant of SetEncryptionKey: the key of XTS is halved again.
SetEncryptionKeyHalved ==
    /\ context.pc = "encryption_key"
    /\ LET size == IF context.encryption_mode = "AES_XTS"
                   THEN context.key_size \div 2 ELSE context.key_size
       IN  context' = [context EXCEPT
                         !.pc = IF context.initialization_vector_mode = "ESSIV"
                                THEN "essiv_key" ELSE "ready",
                         !.encryption = CipherKey(size)]
    /\ UNCHANGED ciphers

SetEncryptionKey ==
    /\ context.pc = "encryption_key"
    /\ context' = [context EXCEPT
                     !.pc = IF context.initialization_vector_mode = "ESSIV"
                            THEN "essiv_key" ELSE "ready",
                     !.encryption = CipherKey(context.key_size)]
    /\ UNCHANGED ciphers

\* The key of the sector salt: the digest of the key in a buffer of 32 bytes
\* that was set to zero, as long as the key itself.
EssivKey ==
    SubSeq(Digest(context.essiv_hashing_method,
                  SubSeq(context.key, 1, context.key_size)) \o Zeros(8),
           1, context.key_size)

SetEssivKey ==
    /\ context.pc = "essiv_key"
    /\ context' = [context EXCEPT !.pc = "ready", !.essiv = <<EssivKey>>]
    /\ UNCHANGED ciphers

\* A cipher does not take the key; the caller frees the context.
SetContextKeyFails ==
    /\ context.pc \in {"decryption_key", "encryption_key", "essiv_key"}
    /\ \/ LibraryFaults
       \/ /\ context.pc = "decryption_key"
          /\ ~ KeyFits(context.encryption_mode,
                       IF context.encryption_mode = "AES_XTS"
                       THEN context.key_size \div 2 ELSE context.key_size)
    /\ context' = [context EXCEPT !.pc = "unkeyed"]
    /\ UNCHANGED ciphers

ContextStep ==
    \/ MakeDecryption \/ MakeEncryption \/ MakeEssiv \/ InitializeContextFails
    \/ SetDecryptionKey \/ SetEncryptionKey \/ SetEssivKey \/ SetContextKeyFails

-----------------------------------------------------------------------------
(* libluksde_encryption_context_crypt                                      *)

Half(order, number) == IF number = 0 THEN <<"le", 0>> ELSE <<order, number>>

Vector(first, second) == <<"bytes", <<>>, first, second>>

\* The vector modes crypt knows; it refuses lmk and modes without a name.
VectorIsKnown(mode) ==
    mode \in {"BENBI", "ESSIV", "NONE", "NULL", "PLAIN32", "PLAIN64"}

\* Mutant of SectorVector: plain64 is cut to 32 bits.
SectorVectorCut(mode, essiv, sector) ==
    CASE mode = "BENBI" ->
            Vector(Half("le", 0), Half("be", ((sector * 32) + 1) % LongSize))
      [] mode = "ESSIV" ->
            <<"salted", essiv, Half("le", sector), Half("le", 0)>>
      [] mode \in {"PLAIN32", "PLAIN64"} ->
            Vector(Half("le", sector % WordSize), Half("le", 0))
      [] OTHER -> Vector(Half("le", 0), Half("le", 0))

\* The 16 bytes crypt fills for a sector.
SectorVector(mode, essiv, sector) ==
    CASE mode = "BENBI" ->
            Vector(Half("le", 0), Half("be", ((sector * 32) + 1) % LongSize))
      [] mode = "ESSIV" ->
            <<"salted", essiv, Half("le", sector), Half("le", 0)>>
      [] mode = "PLAIN32" ->
            Vector(Half("le", sector % WordSize), Half("le", 0))
      [] mode = "PLAIN64" ->
            Vector(Half("le", sector % LongSize), Half("le", 0))
      [] OTHER -> Vector(Half("le", 0), Half("le", 0))

\* What a cipher is given of the vector: Blowfish the first half, ECB and RC4
\* nothing.
VectorOfMode(encryption_mode, vector) ==
    CASE encryption_mode \in {"AES_CBC", "AES_XTS", "SERPENT_CBC"} -> vector
      [] encryption_mode = "BLOWFISH_CBC" -> <<vector[1], vector[2], vector[3]>>
      [] OTHER -> <<>>

\* What a sector is encrypted or decrypted under.
Under(key, sector) ==
    <<context.encryption_mode, key,
      VectorOfMode(context.encryption_mode,
                   SectorVector(context.initialization_vector_mode,
                                context.essiv, sector))>>

Encrypt(plaintext, sector) ==
    [under |-> Under(context.encryption, sector), plaintext |-> plaintext]

\* A sector comes out right when it goes in under what it was encrypted with.
Decrypt(ciphertext, sector, garbage) ==
    IF ciphertext.under = Under(context.decryption, sector)
    THEN ciphertext.plaintext ELSE garbage

\* crypt refuses vectors it does not know.
CryptSucceeds == VectorIsKnown(context.initialization_vector_mode)

-----------------------------------------------------------------------------
ContextPlaces ==
    {"idle", "make_decryption", "make_encryption", "make_essiv", "made",
     "decryption_key", "encryption_key", "essiv_key", "ready", "unkeyed",
     "failed"}

\* Every cipher context that is alive belongs to the encryption context
\* (lines 165-368): one that could not be made leaves none behind, one that
\* has its keys has what its modes need.
CiphersBelongToContext ==
    /\ context.pc \in {"idle", "failed"} => ciphers = {}
    /\ context.pc = "ready" =>
          ciphers = {"decryption", "encryption"} \cup
              IF context.initialization_vector_mode = "ESSIV" THEN {"essiv"}
              ELSE {}

\* What a context encrypts it decrypts: both directions have the same keys
\* once set_key returns (lines 626-758).
DirectionsAgree(Sectors, plaintext, garbage) ==
    context.pc = "ready" =>
        \A s \in Sectors :
            Decrypt(Encrypt(plaintext, s), s, garbage) = plaintext
=============================================================================
