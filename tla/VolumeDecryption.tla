-------------------------- MODULE VolumeDecryption --------------------------
(***************************************************************************)
(* From the bytes of a header to the bytes of a sector: the components     *)
(* VolumeHeader, Pbkdf2, EncryptionContext and Diffuser put together the   *)
(* way libluksde_internal_volume_open_read,                                *)
(* libluksde_internal_volume_open_read_keys and                            *)
(* libluksde_sector_data_read_file_io_handle call them.                    *)
(*                                                                         *)
(* A medium was formatted from a master key and a password, by the         *)
(* definition of the format and not by this code (FormatMedium).  It has   *)
(* at most one enabled key slot, with key material of whole sectors; how   *)
(* several slots, calls and volumes share the handle is in VolumeKeys.     *)
(***************************************************************************)
EXTENDS Pbkdf2, Diffuser, EncryptionContext, VolumeHeader

CONSTANTS
    Formats,        \* the choices a volume may be formatted with
    Sectors,        \* the numbers of the sectors that are read
    SectorCells     \* bytes_per_sector, in cells

VARIABLES
    format,                    \* what the medium was formatted with
    stage,                     \* how far open_read_keys has come
    key_slot,                  \* its local variables
    key_material_data_offset,
    split_master_key_data,
    user_key,
    master_key,                \* of the volume
    volume_master_key_is_set,
    user_password,             \* the cells of the password, or NoKey
    sector_data                \* what was read last: sector and plaintext

keyVars == <<stage, key_slot, key_material_data_offset, split_master_key_data,
             user_key, master_key, volume_master_key_is_set>>
vars == <<kdf, merge, contextVars, headerVars, format, keyVars,
          user_password, sector_data>>

-----------------------------------------------------------------------------
(* The medium.  KeyOf, PasswordOf and SaltOf are symbols of its choice.    *)

Token(name, size) == [i \in 1 .. size |-> {<<name, i>>}]

PasswordCells(name) == <<{<<"password", name>>}>>

MasterKeyOf(f) == Token("key", f.master_key_size)

UserKeyOf(f) ==
    DerivedKey(PasswordCells("right"), f.hashing_method, "slot_salt",
               f.number_of_iterations, f.master_key_size)

\* The vectors the format's description names (documentation, Initialization
\* vector modes): benbi counts cipher blocks, eight bytes of Blowfish, and
\* essiv encrypts with the hash of the key.
FormatVector(f, key, sector) ==
    LET narrow == f.encryption_method = "blowfish"
    IN  CASE f.encryption_mode.options = "plain" ->
                Vector(Half("le", sector % WordSize), Half("le", 0))
          [] f.encryption_mode.options = "plain64" ->
                Vector(Half("le", sector), Half("le", 0))
          [] f.encryption_mode.options = "benbi" ->
                IF narrow
                THEN Vector(Half("be", (sector * 64) + 1), Half("le", 0))
                ELSE Vector(Half("le", 0), Half("be", (sector * 32) + 1))
          [] f.encryption_mode.options = "essiv:sha1" ->
                <<"salted", <<Digest("sha1", key)>>, Half("le", sector), Half("le", 0)>>
          [] f.encryption_mode.options = "essiv:sha256" ->
                <<"salted", <<Digest("sha256", key)>>, Half("le", sector), Half("le", 0)>>
          [] OTHER -> Vector(Half("le", 0), Half("le", 0))

\* A sector as a volume of the format has it on the medium.
FormatSector(f, key, sector, plaintext) ==
    LET mode == EncryptionMode(f.encryption_method, f.encryption_mode.chaining)
        half == f.master_key_size \div 2
        keys == IF mode = "AES_XTS"
                THEN <<SubSeq(key, 1, half), SubSeq(key, half + 1, 2 * half)>>
                ELSE <<key>>
    IN  [under |-> <<mode, keys, VectorOfMode(mode, FormatVector(f, key, sector))>>,
         plaintext |-> plaintext]

PlainSector(sector) == <<"plaintext", sector>>

RandomStripes(f) ==
    [s \in 1 .. (f.number_of_stripes - 1) |->
        [i \in 1 .. f.master_key_size |-> {<<"random", s, i>>}]]

KeyMaterialSize(f) == f.master_key_size * f.number_of_stripes

\* The key material, encrypted sector by sector with the user key.
KeyMaterial(f, sector) ==
    FormatSector(f, UserKeyOf(f), sector,
        SubSeq(SplitKey(f.hashing_method, MasterKeyOf(f), RandomStripes(f)),
               (sector * SectorCells) + 1, (sector + 1) * SectorCells))

\* The sizes of the code, and formats with key material of whole sectors.  A
\* sector has a number far below 2^59: its offset fits 63 bits.
ASSUME SizesAssumption ==
    /\ SectorCells \in Nat \ {0}
    /\ NumberOfKeySlots \in Nat \ {0}
    /\ WordSize \in Nat \ {0}
    /\ LongSize \in Nat \ {0}
    /\ \A s \in Sectors : s \in Nat /\ (s * 32) + 1 < LongSize

ASSUME FormatsAssumption ==
    \A f \in Formats :
        /\ f.master_key_size \in Nat
        /\ f.number_of_iterations \in Nat
        /\ f.number_of_stripes \in Nat
        /\ \E n \in 0 .. KeyMaterialSize(f) :
               KeyMaterialSize(f) = n * SectorCells /\ n * 32 < LongSize

ASSUME NoKeyAssumption == NoKey # PasswordCells("right")

FormatMedium(f) ==
    [signature |-> f.signature, format_version |-> f.format_version,
     volume_identifier_is_uuid |-> TRUE,
     encryption_method |-> f.encryption_method,
     encryption_mode |-> f.encryption_mode,
     hashing_method |-> f.hashing_method,
     master_key_size |-> f.master_key_size,
     master_key_validation_hash |->
        IF f.hashing_method \in HashMethods /\ f.number_of_iterations > 0
        THEN DerivedKey(MasterKeyOf(f), f.hashing_method, "key_salt",
                        f.number_of_iterations, 5)
        ELSE <<>>,
     master_key_salt |-> "key_salt",
     master_key_number_of_iterations |-> f.number_of_iterations,
     key_slots |->
        [s \in 1 .. NumberOfKeySlots |->
            [state |-> IF s = f.enabled_slot THEN "enabled" ELSE "disabled",
             number_of_iterations |-> f.number_of_iterations,
             salt |-> "slot_salt", start_sector |-> 8,
             number_of_stripes |-> f.number_of_stripes]]]

-----------------------------------------------------------------------------
Garbage(size) == [i \in 1 .. size |-> {<<"garbage", i>>}]

Fail ==
    /\ stage' = "failed"
    /\ FreeContext
    /\ UNCHANGED <<key_slot, key_material_data_offset, split_master_key_data,
                   user_key, master_key, volume_master_key_is_set>>

\* A volume is opened with a key, a password, both or neither; with a password
\* only when its keys fit the 32 bytes that open_read_keys has for a user key.
Init ==
    /\ KdfInit
    /\ MergeInit
    /\ ContextInit
    /\ HeaderInit
    /\ format \in Formats
    /\ stage = "header"
    /\ key_slot = 0
    /\ key_material_data_offset = 0
    /\ split_master_key_data = <<>>
    /\ user_key = <<>>
    /\ sector_data = <<>>
    /\ user_password \in {NoKey, PasswordCells("right"), PasswordCells("wrong")}
    /\ \/ master_key = Zeros(format.master_key_size) /\ volume_master_key_is_set = FALSE
       \/ /\ master_key \in {MasterKeyOf(format), Token("other", format.master_key_size)}
          /\ volume_master_key_is_set = TRUE
    /\ format.master_key_size > 8 => user_password = NoKey

-----------------------------------------------------------------------------
(* The header                                                              *)

medium == FormatMedium(format)

components == <<kdf, merge, contextVars, headerVars>>
others == <<format, user_password, sector_data>>

HeaderStep ==
    /\ stage = "header"
    /\ ReadHeader(medium) \/ ReadHeaderFails(medium) \/ ReadKeySlot(medium)
       \/ ReadKeySlotFails
    /\ UNCHANGED <<kdf, merge, contextVars, keyVars, others>>

\* Keys of no or more than 64 bytes are refused, also those of a version 2
\* header, which were not read.
CheckHeader ==
    /\ stage = "header"
    /\ header_pc = "done"
    /\ volume_header.master_key_size \in 1 .. 16
    /\ stage' = IF volume_master_key_is_set THEN "check_key" ELSE "next_slot"
    /\ UNCHANGED <<components, others, key_slot, key_material_data_offset,
                   split_master_key_data, user_key, master_key,
                   volume_master_key_is_set>>

\* Reading failed, or the medium ends before the sector its data start at.
CheckHeaderFails ==
    /\ stage = "header"
    /\ \/ header_pc = "failed"
       \/ /\ header_pc = "done"
          /\ volume_header.master_key_size \notin 1 .. 16 \/ IoFaults
    /\ Fail
    /\ UNCHANGED <<kdf, merge, headerVars, others>>

-----------------------------------------------------------------------------
(* Key derivation, for the validation hash and the user key                *)

KdfStep ==
    /\ Pbkdf2Step
    /\ UNCHANGED <<merge, contextVars, headerVars, keyVars, others>>

\* The first 20 bytes of what is derived from a master key.
HashMasterKey ==
    /\ stage \in {"check_key", "check_slot"}
    /\ Pbkdf2(master_key, volume_header.hashing_method,
              volume_header.master_key_salt,
              volume_header.master_key_number_of_iterations, 5)
    /\ UNCHANGED <<merge, contextVars, headerVars, keyVars, others>>

\* Mutant of KeyValidates: the hashes are not compared.
KeyValidatesAlways == TRUE

KeyValidates == kdf.output_data = volume_header.master_key_validation_hash

\* A key that was set is kept when it validates; without one the password is
\* tried on the key slots.
CheckKey ==
    /\ stage = "check_key"
    /\ kdf.pc = "done"
    /\ volume_master_key_is_set' = KeyValidates
    /\ stage' = IF KeyValidates \/ user_password = NoKey THEN "context" ELSE "next_slot"
    /\ kdf' = KdfIdle
    /\ UNCHANGED <<merge, contextVars, headerVars, others, key_slot,
                   key_material_data_offset, split_master_key_data, user_key,
                   master_key>>

Slot == volume_header.key_slots_array[key_slot + 1]

\* Mutant of NextSlot: a disabled slot is not passed over.
NextSlotStays ==
    /\ stage = "next_slot"
    /\ IF user_password = NoKey \/ key_slot = NumberOfKeySlots
       THEN stage' = "context"
       ELSE stage' = IF Slot.state = "enabled" THEN "user_key" ELSE stage
    /\ UNCHANGED <<components, others, key_slot, key_material_data_offset,
                   split_master_key_data, user_key, master_key,
                   volume_master_key_is_set>>

\* A disabled slot is passed over; without a password there is no search.
NextSlot ==
    /\ stage = "next_slot"
    /\ IF user_password = NoKey \/ key_slot = NumberOfKeySlots
       THEN stage' = "context" /\ UNCHANGED key_slot
       ELSE IF Slot.state = "enabled"
            THEN stage' = "user_key" /\ UNCHANGED key_slot
            ELSE key_slot' = key_slot + 1 /\ UNCHANGED stage
    /\ UNCHANGED <<components, others, key_material_data_offset,
                   split_master_key_data, user_key, master_key,
                   volume_master_key_is_set>>

DeriveUserKey ==
    /\ stage = "user_key"
    /\ Pbkdf2(user_password, volume_header.hashing_method, Slot.salt,
              Slot.number_of_iterations, volume_header.master_key_size)
    /\ UNCHANGED <<merge, contextVars, headerVars, keyVars, others>>

-----------------------------------------------------------------------------
(* The key material of a slot                                              *)

\* The key material is read and a context made for the user key.
UserKeyContext ==
    /\ stage = "user_key"
    /\ kdf.pc = "done"
    /\ Slot.number_of_stripes # 0
    /\ user_key' = kdf.output_data
    /\ kdf' = KdfIdle
    /\ stage' = "material"
    /\ InitializeContext(volume_header.encryption_method,
                         volume_header.encryption_chaining_mode,
                         volume_header.initialization_vector_mode,
                         volume_header.essiv_hashing_method)
    /\ UNCHANGED <<merge, headerVars, others, key_slot, master_key,
                   key_material_data_offset, split_master_key_data,
                   volume_master_key_is_set>>

ContextSteps ==
    /\ ContextStep
    /\ UNCHANGED <<kdf, merge, headerVars, keyVars, others>>

\* The key a context is given where open_read_keys makes one.
SetKeyOfContext ==
    /\ stage \in {"material", "volume_context"}
    /\ SetContextKey(IF stage = "material" THEN user_key ELSE master_key)
    /\ UNCHANGED <<kdf, merge, headerVars, keyVars, others>>

MaterialSize == volume_header.master_key_size * Slot.number_of_stripes

\* Mutant of DecryptMaterialSector: every sector is decrypted as the first.
DecryptMaterialAsFirstSector ==
    /\ stage = "material"
    /\ context.pc = "ready"
    /\ key_material_data_offset < MaterialSize
    /\ CryptSucceeds
    /\ LET sector == key_material_data_offset \div SectorCells
       IN  split_master_key_data' =
              split_master_key_data \o
                  Decrypt(KeyMaterial(format, sector), 0, Garbage(SectorCells))
    /\ key_material_data_offset' = key_material_data_offset + SectorCells
    /\ UNCHANGED <<components, others, stage, key_slot, user_key, master_key,
                   volume_master_key_is_set>>

\* One sector of the key material; the sectors are numbered from 0.
DecryptMaterialSector ==
    /\ stage = "material"
    /\ context.pc = "ready"
    /\ key_material_data_offset < MaterialSize
    /\ CryptSucceeds
    /\ LET sector == key_material_data_offset \div SectorCells
       IN  split_master_key_data' =
              split_master_key_data \o
                  Decrypt(KeyMaterial(format, sector), sector, Garbage(SectorCells))
    /\ key_material_data_offset' = key_material_data_offset + SectorCells
    /\ UNCHANGED <<components, others, stage, key_slot, user_key, master_key,
                   volume_master_key_is_set>>

\* Mutant of MergeMaterial: the user key's context is left.
MergeMaterialKeepingContext ==
    /\ stage = "material"
    /\ context.pc = "ready"
    /\ key_material_data_offset >= MaterialSize
    /\ Merge(split_master_key_data, volume_header.master_key_size,
             Slot.number_of_stripes, volume_header.hashing_method)
    /\ stage' = "merge"
    /\ UNCHANGED <<kdf, contextVars, headerVars, others, key_slot, user_key,
                   master_key, key_material_data_offset, split_master_key_data,
                   volume_master_key_is_set>>

\* The user key's context is freed and the stripes are merged.
MergeMaterial ==
    /\ stage = "material"
    /\ context.pc = "ready"
    /\ key_material_data_offset >= MaterialSize
    /\ FreeContext
    /\ Merge(split_master_key_data, volume_header.master_key_size,
             Slot.number_of_stripes, volume_header.hashing_method)
    /\ stage' = "merge"
    /\ UNCHANGED <<kdf, headerVars, others, key_slot, user_key, master_key,
                   key_material_data_offset, split_master_key_data,
                   volume_master_key_is_set>>

MergeSteps ==
    /\ MergeStep
    /\ UNCHANGED <<kdf, contextVars, headerVars, keyVars, others>>

MasterKeyMerged ==
    /\ stage = "merge"
    /\ merge.pc = "done"
    /\ master_key' = merge.data
    /\ split_master_key_data' = <<>>
    /\ merge' = MergeIdle
    /\ stage' = "check_slot"
    /\ UNCHANGED <<kdf, contextVars, headerVars, others, key_slot, user_key,
                   key_material_data_offset, volume_master_key_is_set>>

\* The search ends with the slot whose key validates.
CheckSlot ==
    /\ stage = "check_slot"
    /\ kdf.pc = "done"
    /\ kdf' = KdfIdle
    /\ volume_master_key_is_set' = KeyValidates
    /\ stage' = IF KeyValidates THEN "context" ELSE "next_slot"
    /\ key_slot' = IF KeyValidates THEN key_slot ELSE key_slot + 1
    /\ UNCHANGED <<merge, contextVars, headerVars, others, user_key, master_key,
                   key_material_data_offset, split_master_key_data>>

-----------------------------------------------------------------------------
(* The context of the volume, and its sectors                              *)

VolumeContext ==
    /\ stage = "context"
    /\ volume_master_key_is_set
    /\ stage' = "volume_context"
    /\ InitializeContext(volume_header.encryption_method,
                         volume_header.encryption_chaining_mode,
                         volume_header.initialization_vector_mode,
                         volume_header.essiv_hashing_method)
    /\ UNCHANGED <<kdf, merge, headerVars, others, key_slot, user_key,
                   master_key, key_material_data_offset, split_master_key_data,
                   volume_master_key_is_set>>

StaysLocked ==
    /\ stage = "context"
    /\ ~ volume_master_key_is_set
    /\ stage' = "locked"
    /\ UNCHANGED <<components, others, key_slot, user_key, master_key,
                   key_material_data_offset, split_master_key_data,
                   volume_master_key_is_set>>

Unlocked ==
    /\ stage = "volume_context"
    /\ context.pc = "ready"
    /\ stage' = "unlocked"
    /\ UNCHANGED <<components, others, key_slot, user_key, master_key,
                   key_material_data_offset, split_master_key_data,
                   volume_master_key_is_set>>

\* A sector is read from the medium and decrypted by its number.
ReadSector(sector) ==
    /\ stage = "unlocked"
    /\ sector_data' =
          <<sector,
            IF CryptSucceeds
            THEN Decrypt(FormatSector(format, MasterKeyOf(format), sector,
                                      PlainSector(sector)),
                         sector, <<"garbage">>)
            ELSE <<"error">> >>
    /\ UNCHANGED <<components, keyVars, format, user_password>>

\* A component has failed, a slot has no stripes, the key material cannot be
\* read, or crypt does not know the vector mode.
KeysFail ==
    /\ stage \notin {"header", "failed", "locked", "unlocked"}
    /\ \/ "failed" \in {kdf.pc, merge.pc, context.pc}
       \/ context.pc = "unkeyed"
       \/ stage = "user_key" /\ kdf.pc = "done"
          /\ (Slot.number_of_stripes = 0 \/ IoFaults)
       \/ stage = "material" /\ context.pc = "ready"
          /\ key_material_data_offset < MaterialSize /\ ~ CryptSucceeds
    /\ Fail
    /\ kdf' = KdfIdle
    /\ merge' = MergeIdle
    /\ UNCHANGED <<headerVars, others>>

\* The application asks for no more.
Finished ==
    /\ stage \in {"failed", "locked", "unlocked"}
    /\ UNCHANGED vars

OpenStep ==
    \/ HeaderStep \/ CheckHeader \/ CheckHeaderFails
    \/ KdfStep \/ HashMasterKey \/ CheckKey \/ NextSlot \/ DeriveUserKey
    \/ UserKeyContext \/ ContextSteps \/ SetKeyOfContext
    \/ DecryptMaterialSector \/ MergeMaterial \/ MergeSteps \/ MasterKeyMerged
    \/ CheckSlot \/ VolumeContext \/ StaysLocked \/ Unlocked \/ KeysFail

Next ==
    \/ OpenStep
    \/ \E s \in Sectors : ReadSector(s)
    \/ Finished

Spec == Init /\ [][Next]_vars

\* open runs in the thread of its caller and waits for nothing.
FairSpec == Spec /\ WF_vars(OpenStep)

-----------------------------------------------------------------------------
(* Properties                                                              *)

Stages ==
    {"header", "check_key", "next_slot", "user_key", "material", "merge",
     "check_slot", "context", "volume_context", "locked", "unlocked", "failed"}

\* Each component is at one of its places, and runs only where open_read_keys
\* waits for it (lines 1306-1775 of libluksde_volume.c).
TypeOK ==
    /\ stage \in Stages
    /\ kdf.pc \in KdfPlaces
    /\ merge.pc \in MergePlaces
    /\ context.pc \in ContextPlaces
    /\ header_pc \in HeaderPlaces
    /\ key_slot \in 0 .. NumberOfKeySlots
    /\ Len(master_key) = format.master_key_size
    /\ kdf.pc # "idle" => stage \in {"check_key", "user_key", "check_slot"}
    /\ merge.pc # "idle" => stage = "merge"
    /\ context.pc # "idle" => stage \in {"material", "volume_context", "unlocked"}
    /\ ciphers \subseteq {"decryption", "encryption", "essiv"}

\* Outside of its reading a header has all its key slots or none, whatever
\* failed in between (lines 1128-1202 of libluksde_volume_header.c).
HeaderIsWhole ==
    header_pc # "slots" =>
        Len(volume_header.key_slots_array) \in {0, NumberOfKeySlots}

\* Formats of which the description and the code have the same vectors.  Of
\* the others, benbi counts blocks of 16 bytes whatever the cipher, and the
\* key of a sector salt is cut or filled to the size of the volume's key; the
\* key stream of RC4 is libfcrypto's affair.
KnownFormat(f) ==
    LET mode == EncryptionMode(f.encryption_method, f.encryption_mode.chaining)
        size == IF mode = "AES_XTS" THEN f.master_key_size \div 2
                ELSE f.master_key_size
        options == f.encryption_mode.options
    IN  /\ f.signature \in {"LUKS", "SKUL"}
        /\ f.format_version = 1
        /\ f.hashing_method \in HashMethods
        /\ f.number_of_stripes > 0
        /\ f.number_of_iterations > 0
        /\ mode \notin {"none", "RC4_CBC", "RC4_ECB"}
        /\ KeyFits(mode, size)
        /\ \/ f.encryption_mode.chaining = "ecb" /\ options = ""
           \/ /\ f.encryption_mode.chaining # "ecb"
              /\ \/ options \in {"null", "plain", "plain64"}
                 \/ options = "benbi" /\ f.encryption_method # "blowfish"
                 \/ options = "essiv:sha256" /\ mode = "AES_CBC" /\ size = 8

\* A sector of a volume comes out as it was written, for every format of which
\* code and description agree: strings, mode, vector and both sizes of XTS keys
\* fit together (lines 73-296 and 945-1024 of libluksde_encryption_context.c).
KnownFormatIsRead ==
    sector_data # <<>> /\ KnownFormat(format) =>
        sector_data[2] = PlainSector(sector_data[1])

\* The right password opens the enabled slot of such a volume: open may fail,
\* but does not find the volume locked (lines 1352-1728 of libluksde_volume.c).
RightPasswordIsEnough ==
    /\ KnownFormat(format)
    /\ format.enabled_slot \in 1 .. NumberOfKeySlots
    /\ user_password = PasswordCells("right")
    => stage # "locked"

\* A volume is read only with the master key it was formatted with, whatever
\* key was set and whatever a wrong password makes of the key material
\* (lines 1340-1350 and 1719-1727 of libluksde_volume.c).
OnlyVolumeKeyOpens ==
    stage \in {"context", "volume_context", "unlocked"} /\ volume_master_key_is_set =>
        master_key = MasterKeyOf(format)

\* Merging is the inverse of splitting, for keys that are no multiple of a
\* digest, and any number of stripes (lines 36-528 of libluksde_diffuser.c).
MergeUndoesSplit ==
    merge.pc = "done"
    /\ merge.split_data = SplitKey(format.hashing_method, MasterKeyOf(format),
                                   RandomStripes(format))
    => merge.data = MasterKeyOf(format)

\* set_key gives both directions of a context the same keys.
ContextDirectionsAgree == DirectionsAgree(Sectors, <<"plaintext">>, <<"garbage">>)

\* open returns, whatever the header says.
OpenReturns == <>(stage \in {"failed", "locked", "unlocked"})
=============================================================================
