------------------------------- MODULE Cells --------------------------------
(***************************************************************************)
(* The data that the algorithms of libluksde work on, in symbols.          *)
(*                                                                         *)
(* A cell stands for four bytes, the greatest length of which all digests  *)
(* and keys are multiples.  Its value is a set of tokens: the exclusive or *)
(* of two cells is their symmetric difference, and the empty set is a cell *)
(* of zero bytes.  A digest of libhmac is a sequence of fresh tokens that  *)
(* name what was hashed, so that two digests are equal when their inputs   *)
(* are.                                                                    *)
(***************************************************************************)
EXTENDS Integers, Sequences, FiniteSetsExt

CONSTANT LibraryFaults   \* allocations and calls of other libraries may fail

ASSUME FaultsAssumption == LibraryFaults \in BOOLEAN

\* The methods libhmac is called for, and the sizes of their digests in cells.
HashMethods == {"sha1", "sha224", "sha256", "sha512"}

HashSize == [sha1 |-> 5, sha224 |-> 7, sha256 |-> 8, sha512 |-> 16]

Zeros(size) == [i \in 1 .. size |-> {}]

Xor(a, b) == [i \in DOMAIN a |-> SymDiff(a[i], b[i])]

Smaller(a, b) == IF a < b THEN a ELSE b

Digest(method, message) ==
    [i \in 1 .. HashSize[method] |-> {<<"hash", method, message, i>>}]

Hmac(method, key, message) ==
    [i \in 1 .. HashSize[method] |-> {<<"hmac", method, key, message, i>>}]
=============================================================================
