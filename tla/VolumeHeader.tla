---------------------------- MODULE VolumeHeader ----------------------------
(***************************************************************************)
(* Reading the volume header and its key slots                             *)
(* (libluksde/libluksde_volume_header.c and libluksde_key_slot.c).         *)
(*                                                                         *)
(* What is on the medium is a record, the layout of its bytes left out.    *)
(* The strings of the header that choose the cipher are kept as far as the *)
(* code tells them apart: the mode is a chaining mode and the options      *)
(* behind its dash, "" when the string ends there.                         *)
(***************************************************************************)
EXTENDS Cells

CONSTANTS
    NumberOfKeySlots,   \* 8 in the code
    IoFaults            \* the medium may fail to be read

VARIABLES
    volume_header,      \* the values read
    header_pc           \* how far reading it has come

headerVars == <<volume_header, header_pc>>

\* libluksde_volume_header_initialize: all values are 0.
NoHeader ==
    [format_version |-> 0, encryption_method |-> "UNKNOWN",
     encryption_chaining_mode |-> "UNKNOWN",
     initialization_vector_mode |-> "UNKNOWN",
     essiv_hashing_method |-> "UNKNOWN", hashing_method |-> "UNKNOWN",
     master_key_size |-> 0, master_key_validation_hash |-> <<>>,
     master_key_salt |-> "none", master_key_number_of_iterations |-> 0,
     key_slots_array |-> <<>>]

HeaderInit ==
    /\ volume_header = NoHeader
    /\ header_pc = "idle"

-----------------------------------------------------------------------------
(* The strings.  A string that is not known leaves the value as it is.     *)

\* Ciphers are named in upper and lower case alike.
ParseEncryptionMethod(string) ==
    IF string \in {"aes", "arc4", "blowfish", "cast5", "cast6", "serpent",
                   "twofish"}
    THEN string ELSE "UNKNOWN"

\* cbc and xts are known before a dash, ecb at the end of the string.
ChainingIsKnown(mode) ==
    \/ mode.chaining \in {"cbc", "xts"} /\ mode.options # ""
    \/ mode.chaining = "ecb" /\ mode.options = ""

ParseChainingMode(mode) ==
    IF ChainingIsKnown(mode) THEN mode.chaining ELSE "UNKNOWN"

\* Mutant of ParseVectorMode: plain64 is taken for the plain it begins with.
ParseVectorModePrefix(mode) ==
    CASE ~ ChainingIsKnown(mode) -> "UNKNOWN"
      [] mode.options \in {"plain", "plain64"} -> "PLAIN32"
      [] mode.options \in {"essiv:sha1", "essiv:sha256"} -> "ESSIV"
      [] mode.options = "benbi" -> "BENBI"
      [] mode.options = "lmk" -> "LMK"
      [] mode.options = "null" -> "NULL"
      [] OTHER -> "NONE"

\* Once the chaining mode is known the vector mode is none until its name is
\* known, and stays so for a name that is not.
ParseVectorMode(mode) ==
    CASE ~ ChainingIsKnown(mode) -> "UNKNOWN"
      [] mode.options = "plain" -> "PLAIN32"
      [] mode.options = "plain64" -> "PLAIN64"
      [] mode.options \in {"essiv:sha1", "essiv:sha256"} -> "ESSIV"
      [] mode.options = "benbi" -> "BENBI"
      [] mode.options = "lmk" -> "LMK"
      [] mode.options = "null" -> "NULL"
      [] OTHER -> "NONE"

ParseEssivHashingMethod(mode) ==
    CASE ~ ChainingIsKnown(mode) -> "UNKNOWN"
      [] mode.options = "essiv:sha1" -> "sha1"
      [] mode.options = "essiv:sha256" -> "sha256"
      [] OTHER -> "UNKNOWN"

ParseHashingMethod(string) ==
    IF string \in {"ripemd160", "sha1", "sha224", "sha256", "sha512"}
    THEN string ELSE "UNKNOWN"

-----------------------------------------------------------------------------
(* Reading                                                                 *)

\* What the checks of the values refuse: the signature of neither header, a
\* version that is not known, an identifier that is no UUID.
IsRefused(medium) ==
    \/ medium.signature \notin {"LUKS", "SKUL"}
    \/ medium.format_version \notin {1, 2}
    \/ ~ medium.volume_identifier_is_uuid

\* The values of a version 1 header; of version 2 only the identifier is read.
HeaderValues(medium) ==
    IF medium.format_version = 2
    THEN [NoHeader EXCEPT !.format_version = 2]
    ELSE [NoHeader EXCEPT
            !.format_version = 1,
            !.master_key_size = medium.master_key_size,
            !.master_key_validation_hash = medium.master_key_validation_hash,
            !.master_key_salt = medium.master_key_salt,
            !.master_key_number_of_iterations =
                medium.master_key_number_of_iterations]

WithParsedStrings(header, medium) ==
    [header EXCEPT
        !.encryption_method = ParseEncryptionMethod(medium.encryption_method),
        !.encryption_chaining_mode = ParseChainingMode(medium.encryption_mode),
        !.initialization_vector_mode = ParseVectorMode(medium.encryption_mode),
        !.essiv_hashing_method =
            ParseEssivHashingMethod(medium.encryption_mode),
        !.hashing_method = ParseHashingMethod(medium.hashing_method)]

\* A header is read in one piece and checked, then its strings are parsed.
ReadHeader(medium) ==
    /\ header_pc = "idle"
    /\ ~ IsRefused(medium)
    /\ volume_header' = IF medium.format_version = 1
                        THEN WithParsedStrings(HeaderValues(medium), medium)
                        ELSE HeaderValues(medium)
    /\ header_pc' = IF medium.format_version = 1 THEN "slots" ELSE "done"

\* Less than the header is read, a check fails or the identifier cannot be
\* made: nothing was appended yet.
ReadHeaderFails(medium) ==
    /\ header_pc = "idle"
    /\ IsRefused(medium) \/ IoFaults \/ LibraryFaults
    /\ volume_header' = NoHeader
    /\ header_pc' = "failed"

\* libluksde_key_slot_read_data
ReadKeySlotData(slot) ==
    [state |-> slot.state, number_of_iterations |-> slot.number_of_iterations,
     salt |-> slot.salt, key_material_offset |-> slot.start_sector,
     number_of_stripes |-> slot.number_of_stripes]

\* The next key slot is read and appended.
ReadKeySlot(medium) ==
    /\ header_pc = "slots"
    /\ LET read == Len(volume_header.key_slots_array) + 1
       IN  /\ volume_header' =
                 [volume_header EXCEPT
                     !.key_slots_array =
                         Append(@, ReadKeySlotData(medium.key_slots[read]))]
           /\ header_pc' = IF read < NumberOfKeySlots THEN "slots" ELSE "done"

\* Mutant of ReadKeySlotFails: the slots that were read stay.
ReadKeySlotFailsKeepingSlots ==
    /\ LibraryFaults
    /\ header_pc = "slots"
    /\ header_pc' = "failed"
    /\ UNCHANGED volume_header

\* A key slot cannot be made or appended: the array is emptied, the header
\* freed by open_read.
ReadKeySlotFails ==
    /\ LibraryFaults
    /\ header_pc = "slots"
    /\ volume_header' = NoHeader
    /\ header_pc' = "failed"

HeaderPlaces == {"idle", "slots", "done", "failed"}
=============================================================================
