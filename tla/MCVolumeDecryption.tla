------------------------- MODULE MCVolumeDecryption -------------------------
(***************************************************************************)
(* A small instance of VolumeDecryption: every cipher, mode and vector     *)
(* with one way of hashing, and every way of hashing, size of key and      *)
(* number of stripes with one cipher.                                      *)
(***************************************************************************)
EXTENDS VolumeDecryption

Plain == [signature |-> "LUKS", format_version |-> 1,
          encryption_method |-> "aes",
          encryption_mode |-> [chaining |-> "cbc", options |-> "plain"],
          hashing_method |-> "sha1", master_key_size |-> 8,
          number_of_iterations |-> 2, number_of_stripes |-> 2,
          enabled_slot |-> 2]

\* An ECB mode has no options, the other modes have.
Modes ==
    {[chaining |-> c, options |-> o] :
        c \in {"cbc", "xts"},
        o \in {"plain", "plain64", "benbi", "essiv:sha1", "essiv:sha256",
               "lmk", "null", "plumb"}}
    \cup {[chaining |-> "ecb", options |-> ""], [chaining |-> "ecb", options |-> "plain"],
          [chaining |-> "cbc", options |-> ""], [chaining |-> "ctr", options |-> "plain"]}

CipherFormats ==
    {[Plain EXCEPT !.encryption_method = m, !.encryption_mode = c,
                   !.master_key_size = k] :
        m \in {"aes", "arc4", "blowfish", "serpent", "twofish", "anubis"},
        c \in Modes, k \in {4, 8}}

HashFormats ==
    {[Plain EXCEPT !.hashing_method = h, !.master_key_size = k,
                   !.number_of_stripes = n] :
        h \in {"sha1", "sha224", "sha256", "sha512", "ripemd160", "md5"},
        k \in {4, 8}, n \in {1, 2, 3}}
    \cup {[Plain EXCEPT !.number_of_stripes = n, !.number_of_iterations = i] :
            n \in {0, 1}, i \in {0, 1, 3}}

OtherFormats ==
    {[Plain EXCEPT !.signature = s, !.format_version = v, !.enabled_slot = e] :
        s \in {"LUKS", "SKUL", "none"}, v \in {1, 2, 3}, e \in {0, 1, 2}}
    \cup {[Plain EXCEPT !.encryption_mode = [chaining |-> "xts", options |-> o],
                        !.master_key_size = k] :
            o \in {"plain", "plain64"}, k \in {0, 16, 17}}

\* Key material is whole sectors.
MCFormats ==
    {f \in CipherFormats \cup HashFormats \cup OtherFormats :
        (f.master_key_size * f.number_of_stripes) % SectorCells = 0}
=============================================================================
