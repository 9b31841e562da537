----------------------------- MODULE VolumeKeys -----------------------------
(***************************************************************************)
(* How a volume handle of libluksde (libluksde/libluksde_volume.c) comes   *)
(* by the key that decrypts the volume: the keys and passwords an          *)
(* application supplies, the open and unlock calls that look for the       *)
(* volume master key in the key slots of the header, and close.            *)
(*                                                                         *)
(* open and unlock hold the volume's write lock from start to end, so      *)
(* their steps interleave with no other call that changes the handle; they *)
(* are split where the code can fail, loop or take a decision.             *)
(*                                                                         *)
(* Data are abstracted to what tells the outcomes apart.  A key is a model *)
(* value with a size; what key derivation, decryption and merging make of  *)
(* wrong inputs is Garbage, a key that validates nowhere.  Two different   *)
(* keys never have the same validation hash.                               *)
(***************************************************************************)
EXTENDS Integers

CONSTANTS
    Volumes,            \* the storage media an application may open
    NoVolume,           \* NULL, for the header and the file IO handle
    Keys,               \* the keys an application may supply
    KeySize,            \* their sizes in bytes
    MasterKeyOf,        \* the master key a volume is encrypted with
    Garbage,            \* the bytes a failed recovery leaves in master_key
    Zeroed,             \* master_key after memory_set to 0
    Passwords,          \* the passwords an application may supply
    NoPassword,         \* user_password is NULL
    Unconvertible,      \* a string that is not valid in its encoding
    NumberOfKeySlots,   \* 8 in the code
    KeySlots,           \* per volume, the key slots of its header
    DamagedVolumes,     \* volumes whose header does not pass the checks
    NoContext,          \* encryption_context is NULL
    IoFaults,           \* reads of the storage medium may fail
    LibraryFaults       \* allocations and cryptographic calls may fail

SlotIndexes == 0 .. (NumberOfKeySlots - 1)

KeySlot == [enabled: BOOLEAN, password: Passwords, number_of_stripes: Nat]

ASSUME KeysAssumption ==
    /\ KeySize \in [Keys -> {16, 32}]
    /\ MasterKeyOf \in [Volumes -> Keys]
    /\ Garbage \notin Keys
    /\ Zeroed \notin Keys
    /\ NoContext \notin Keys

ASSUME SlotsAssumption ==
    /\ NumberOfKeySlots \in Nat \ {0}
    /\ KeySlots \in [Volumes -> [SlotIndexes -> KeySlot]]
    /\ DamagedVolumes \subseteq Volumes

ASSUME SentinelsAssumption ==
    /\ NoVolume \notin Volumes
    /\ NoPassword \notin Passwords
    /\ Unconvertible \notin Passwords
    /\ IoFaults \in BOOLEAN
    /\ LibraryFaults \in BOOLEAN

VARIABLES
    file_io_handle,           \* the volume the handle is open on
    volume_header,            \* the volume whose header is in memory
    key_material_scale,       \* per slot: how often key_material_offset was
                              \* multiplied by bytes_per_sector (2: too often)
    sector_data_vector,       \* TRUE when it was allocated
    encryption_context,       \* the key it was given, or NoContext
    is_locked,
    master_key,               \* the contents of the master_key buffer
    master_key_size,
    volume_master_key_is_set,
    user_password,
    user_password_is_set,
    call,                     \* the call that holds the write lock
    pc,                       \* how far it has come
    key_slot_index,           \* local variables of open_read_keys
    key_material_data_offset,
    result                    \* what the last call returned

handle  == <<file_io_handle, volume_header, key_material_scale,
             sector_data_vector, encryption_context, is_locked>>
secrets == <<master_key, master_key_size, volume_master_key_is_set>>
password == <<user_password, user_password_is_set>>
scan    == <<key_slot_index, key_material_data_offset>>
frame   == <<call, pc, result>>
vars    == <<handle, secrets, password, scan, frame>>

Init ==
    /\ file_io_handle = NoVolume
    /\ volume_header = NoVolume
    /\ key_material_scale = [s \in SlotIndexes |-> 0]
    /\ sector_data_vector = FALSE
    /\ encryption_context = NoContext
    /\ is_locked = TRUE
    /\ master_key = Zeroed
    /\ master_key_size = 0
    /\ volume_master_key_is_set = FALSE
    /\ user_password = NoPassword
    /\ user_password_is_set = FALSE
    /\ call = "none"
    /\ pc = "idle"
    /\ key_slot_index = 0
    /\ key_material_data_offset = 0
    /\ result = 1

-----------------------------------------------------------------------------
(* Returning to the application                                            *)

Return(value) ==
    /\ call' = "none"
    /\ pc' = "idle"
    /\ result' = value

\* Mutant of Fail: open returns without freeing what it allocated.
FailWithoutCleanup ==
    /\ Return(-1)
    /\ UNCHANGED <<file_io_handle, volume_header, sector_data_vector,
                   encryption_context, is_locked>>

\* The error exit of a call in progress.  open_read frees what it allocated
\* and leaves is_locked as it is; unlock frees nothing.
Fail ==
    /\ Return(-1)
    /\ volume_header' = IF call = "open" THEN NoVolume ELSE volume_header
    /\ sector_data_vector' = (sector_data_vector /\ call # "open")
    /\ encryption_context' = IF call = "open" THEN NoContext
                                              ELSE encryption_context
    /\ UNCHANGED <<file_io_handle, is_locked>>

-----------------------------------------------------------------------------
(* Supplying keys and passwords                                            *)

StoreMasterKey(key) ==
    /\ pc = "idle"
    /\ master_key' = key
    /\ master_key_size' = KeySize[key]
    /\ volume_master_key_is_set' = TRUE
    /\ Return(1)
    /\ UNCHANGED <<handle, password, scan>>

SetKey(key)  == KeySize[key] \in {16, 32, 64} /\ StoreMasterKey(key)

SetKeys(key) == KeySize[key] \in {16, 32} /\ StoreMasterKey(key)

\* The previous password is freed before the new string is converted; when
\* the conversion fails user_password_is_set keeps its value.
SetPassword(string) ==
    /\ pc = "idle"
    /\ \/ /\ string \in Passwords
          /\ user_password' = string
          /\ user_password_is_set' = TRUE
          /\ Return(1)
       \/ /\ string = Unconvertible \/ LibraryFaults
          /\ user_password' = NoPassword
          /\ UNCHANGED user_password_is_set
          /\ Return(-1)
    /\ UNCHANGED <<handle, secrets, scan>>

SetUtf8Password(string)  == SetPassword(string)

SetUtf16Password(string) == SetPassword(string)

-----------------------------------------------------------------------------
(* Opening: the volume header                                              *)

OpenRefused ==
    /\ pc = "idle"
    /\ \/ file_io_handle # NoVolume
       \/ volume_header # NoVolume
       \/ sector_data_vector
    /\ Return(-1)
    /\ UNCHANGED <<handle, secrets, password, scan>>

CanOpen ==
    /\ pc = "idle"
    /\ file_io_handle = NoVolume
    /\ volume_header = NoVolume
    /\ ~sector_data_vector

OpenReadHeader(volume) ==
    /\ CanOpen
    /\ volume \notin DamagedVolumes
    /\ volume_header' = volume
    /\ key_material_scale' = [s \in SlotIndexes |-> 0]
    /\ master_key_size' = KeySize[MasterKeyOf[volume]]
    /\ call' = "open"
    /\ pc' = "validate"
    /\ UNCHANGED <<file_io_handle, sector_data_vector, encryption_context,
                   is_locked, master_key, volume_master_key_is_set, password,
                   scan, result>>

\* The header cannot be read, or one of its values is out of bounds.  The
\* start sector is checked after master_key_size was taken from the header.
OpenReadHeaderFails(volume) ==
    /\ CanOpen
    /\ volume \in DamagedVolumes \/ IoFaults \/ LibraryFaults
    /\ encryption_context' = NoContext
    /\ master_key_size' \in {master_key_size, KeySize[MasterKeyOf[volume]]}
    /\ Return(-1)
    /\ UNCHANGED <<file_io_handle, volume_header, key_material_scale,
                   sector_data_vector, is_locked, master_key,
                   volume_master_key_is_set, password, scan>>

-----------------------------------------------------------------------------
(* Unlocking a volume that was opened without a fitting key                *)

UnlockBegin ==
    /\ pc = "idle"
    /\ is_locked
    /\ volume_header # NoVolume
    /\ call' = "unlock"
    /\ pc' = "validate"
    /\ UNCHANGED <<handle, secrets, password, scan, result>>

\* Nothing is looked for when the volume is not locked; without a header
\* there is nothing to look in.
UnlockReturnsAtOnce ==
    /\ pc = "idle"
    /\ \/ ~is_locked /\ Return(1)
       \/ is_locked /\ volume_header = NoVolume /\ Return(-1)
    /\ UNCHANGED <<handle, secrets, password, scan>>

-----------------------------------------------------------------------------
(* Looking for the master key, part of both open and unlock                *)

\* Whether the validation hash of the master_key buffer is the header's.
MasterKeyValidates(key) ==
    /\ key = MasterKeyOf[volume_header]
    /\ master_key_size = KeySize[key]

\* Mutant of ValidateMasterKey: a key that was set is taken as it is.
ValidateNothing ==
    /\ pc = "validate"
    /\ pc' = IF ~volume_master_key_is_set /\ user_password_is_set
             THEN "slot"
             ELSE "context"
    /\ key_slot_index' = 0
    /\ key_material_data_offset' = 0
    /\ UNCHANGED <<handle, secrets, password, call, result>>

\* Mutant of ValidateMasterKey: slots are only tried when no key was set.
ValidateElseTrySlots ==
    /\ pc = "validate"
    /\ volume_master_key_is_set' =
           (volume_master_key_is_set /\ MasterKeyValidates(master_key))
    /\ pc' = IF ~volume_master_key_is_set /\ user_password_is_set
             THEN "slot"
             ELSE "context"
    /\ key_slot_index' = 0
    /\ key_material_data_offset' = 0
    /\ UNCHANGED <<handle, master_key, master_key_size, password, call, result>>

\* A key that was set or found earlier is kept only when it validates
\* against this header.  Slots are tried when there is no key left and a
\* password was set.
ValidateMasterKey ==
    /\ pc = "validate"
    /\ volume_master_key_is_set' =
           (volume_master_key_is_set /\ MasterKeyValidates(master_key))
    /\ pc' = IF ~volume_master_key_is_set' /\ user_password_is_set
             THEN "slot"
             ELSE "context"
    /\ key_slot_index' = 0
    /\ key_material_data_offset' = 0
    /\ UNCHANGED <<handle, master_key, master_key_size, password, call, result>>

ValidateMasterKeyFails ==
    /\ pc = "validate"
    /\ LibraryFaults
    /\ volume_master_key_is_set
    /\ Fail
    /\ UNCHANGED <<key_material_scale, secrets, password, scan>>

CurrentSlot == KeySlots[volume_header][key_slot_index]

\* Mutant of NextSlot: the loop runs once too often.
NextSlotOffByOne ==
    /\ key_slot_index' = key_slot_index + 1
    /\ pc' = IF key_slot_index = NumberOfKeySlots THEN "context" ELSE "slot"

NextSlot ==
    /\ key_slot_index' = key_slot_index + 1
    /\ pc' = IF key_slot_index + 1 = NumberOfKeySlots THEN "context" ELSE "slot"

\* Mutant of SkipKeySlot: the index is only advanced for enabled slots.
SkipKeySlotWithoutAdvancing ==
    /\ pc = "slot"
    /\ ~CurrentSlot.enabled
    /\ UNCHANGED <<handle, secrets, password, scan, frame>>

SkipKeySlot ==
    /\ pc = "slot"
    /\ ~CurrentSlot.enabled
    /\ NextSlot
    /\ UNCHANGED <<handle, secrets, password, key_material_data_offset,
                   call, result>>

\* The sector number that the header holds becomes a byte offset in place,
\* and is multiplied again on every later attempt on the same slot.
Scaled(scale) == IF scale = 0 THEN 1 ELSE 2

ScaleKeyMaterialOffset ==
    key_material_scale' =
        [key_material_scale EXCEPT ![key_slot_index] = Scaled(@)]

KeyMaterialSize == master_key_size * CurrentSlot.number_of_stripes

\* The key material is read from the slot's own place, and is decrypted from
\* its first byte on, which leaves nothing of the fresh buffer undefined.
KeyMaterialIsRead == Scaled(key_material_scale[key_slot_index]) = 1

KeyMaterialIsDecrypted == key_material_data_offset = 0

\* What merging the decrypted key material leaves in master_key.
Recovered ==
    IF /\ KeyMaterialIsRead
       /\ KeyMaterialIsDecrypted
       /\ user_password = CurrentSlot.password
       /\ master_key_size = KeySize[MasterKeyOf[volume_header]]
    THEN MasterKeyOf[volume_header]
    ELSE Garbage

TryKeySlot ==
    /\ pc = "slot"
    /\ CurrentSlot.enabled
    /\ user_password # NoPassword
    /\ CurrentSlot.number_of_stripes # 0
    /\ ScaleKeyMaterialOffset
    /\ key_material_data_offset' =
           IF key_material_data_offset < KeyMaterialSize
           THEN KeyMaterialSize
           ELSE key_material_data_offset
    /\ master_key' = Recovered
    /\ volume_master_key_is_set' = MasterKeyValidates(Recovered)
    /\ IF volume_master_key_is_set'
       THEN pc' = "context" /\ UNCHANGED key_slot_index
       ELSE NextSlot
    /\ UNCHANGED <<file_io_handle, volume_header, sector_data_vector,
                   encryption_context, is_locked, master_key_size, password,
                   call, result>>

\* Deriving the user key from a missing password fails, and so may the
\* cryptographic library, before the offset is scaled.
DeriveUserKeyFails ==
    /\ pc = "slot"
    /\ CurrentSlot.enabled
    /\ user_password = NoPassword \/ LibraryFaults
    /\ Fail
    /\ UNCHANGED <<key_material_scale, secrets, password, scan>>

\* A slot without stripes, a short read, or a failing allocation.
ReadKeyMaterialFails ==
    /\ pc = "slot"
    /\ CurrentSlot.enabled
    /\ user_password # NoPassword
    /\ \/ CurrentSlot.number_of_stripes = 0
       \/ ~KeyMaterialIsRead
       \/ IoFaults
       \/ LibraryFaults
    /\ ScaleKeyMaterialOffset
    /\ Fail
    /\ UNCHANGED <<secrets, password, scan>>

\* Decryption, merging or the validation of the result fails: merging may
\* have overwritten master_key by then, wholly or in part.
RecoverMasterKeyFails ==
    /\ pc = "slot"
    /\ CurrentSlot.enabled
    /\ user_password # NoPassword
    /\ CurrentSlot.number_of_stripes # 0
    /\ LibraryFaults
    /\ ScaleKeyMaterialOffset
    /\ master_key' \in {master_key, Garbage, Recovered}
    /\ Fail
    /\ UNCHANGED <<master_key_size, volume_master_key_is_set, password, scan>>

\* The end of open_read_keys and of unlock: open goes on, unlock returns.
SetContext ==
    /\ pc = "context"
    /\ encryption_context' =
           IF volume_master_key_is_set /\ encryption_context = NoContext
           THEN master_key
           ELSE encryption_context
    /\ is_locked' = (is_locked /\ encryption_context' = NoContext)
    /\ IF call = "open"
       THEN pc' = "vector" /\ UNCHANGED <<call, result>>
       ELSE Return(IF encryption_context' = NoContext THEN 0 ELSE 1)
    /\ UNCHANGED <<file_io_handle, volume_header, key_material_scale,
                   sector_data_vector, secrets, password, scan>>

SetContextFails ==
    /\ pc = "context"
    /\ LibraryFaults
    /\ volume_master_key_is_set
    /\ encryption_context = NoContext
    /\ Fail
    /\ UNCHANGED <<key_material_scale, secrets, password, scan>>

-----------------------------------------------------------------------------
(* The end of open                                                         *)

OpenReadVector ==
    /\ pc = "vector"
    /\ sector_data_vector' = TRUE
    /\ file_io_handle' = volume_header
    /\ Return(1)
    /\ UNCHANGED <<volume_header, key_material_scale, encryption_context,
                   is_locked, secrets, password, scan>>

OpenReadVectorFails ==
    /\ pc = "vector"
    /\ LibraryFaults
    /\ Fail
    /\ UNCHANGED <<key_material_scale, secrets, password, scan>>

-----------------------------------------------------------------------------
(* Closing                                                                 *)

\* Mutant of Close: master_key is not cleared.
CloseKeepingKey ==
    /\ pc = "idle"
    /\ file_io_handle # NoVolume
    /\ file_io_handle' = NoVolume
    /\ is_locked' = TRUE
    /\ volume_header' = NoVolume
    /\ sector_data_vector' = FALSE
    /\ encryption_context' = NoContext
    /\ Return(0)
    /\ UNCHANGED <<key_material_scale, secrets, password, scan>>

\* volume_master_key_is_set, master_key_size and the password survive.
Close ==
    /\ pc = "idle"
    /\ file_io_handle # NoVolume
    /\ file_io_handle' = NoVolume
    /\ is_locked' = TRUE
    /\ volume_header' = NoVolume
    /\ master_key' = Zeroed
    /\ sector_data_vector' = FALSE
    /\ encryption_context' = NoContext
    /\ Return(0)
    /\ UNCHANGED <<key_material_scale, master_key_size,
                   volume_master_key_is_set, password, scan>>

CloseRefused ==
    /\ pc = "idle"
    /\ file_io_handle = NoVolume
    /\ Return(-1)
    /\ UNCHANGED <<handle, secrets, password, scan>>

-----------------------------------------------------------------------------
Supply ==
    \/ \E key \in Keys : SetKey(key) \/ SetKeys(key)
    \/ \E string \in Passwords \cup {Unconvertible} :
           SetUtf8Password(string) \/ SetUtf16Password(string)

Begin ==
    \/ \E volume \in Volumes :
           OpenReadHeader(volume) \/ OpenReadHeaderFails(volume)
    \/ OpenRefused
    \/ UnlockBegin
    \/ UnlockReturnsAtOnce
    \/ Close
    \/ CloseRefused

\* The steps of a call in progress.
Proceed ==
    \/ ValidateMasterKey
    \/ ValidateMasterKeyFails
    \/ SkipKeySlot
    \/ TryKeySlot
    \/ DeriveUserKeyFails
    \/ ReadKeyMaterialFails
    \/ RecoverMasterKeyFails
    \/ SetContext
    \/ SetContextFails
    \/ OpenReadVector
    \/ OpenReadVectorFails

Next == Supply \/ Begin \/ Proceed

Spec == Init /\ [][Next]_vars

\* A call in progress runs on one thread of the application, which is
\* scheduled until the call returns.
FairSpec == Spec /\ WF_vars(Proceed)

-----------------------------------------------------------------------------
(* Properties                                                              *)

\* The types of the variables of the volume handle and of the call frame.
TypeOK ==
    /\ file_io_handle \in Volumes \cup {NoVolume}
    /\ volume_header \in Volumes \cup {NoVolume}
    /\ key_material_scale \in [SlotIndexes -> 0 .. 2]
    /\ sector_data_vector \in BOOLEAN
    /\ encryption_context \in Keys \cup {Garbage, Zeroed, NoContext}
    /\ is_locked \in BOOLEAN
    /\ master_key \in Keys \cup {Garbage, Zeroed}
    /\ master_key_size \in {0, 16, 32}
    /\ volume_master_key_is_set \in BOOLEAN
    /\ user_password \in Passwords \cup {NoPassword}
    /\ user_password_is_set \in BOOLEAN
    /\ call \in {"none", "open", "unlock"}
    /\ pc \in {"idle", "validate", "slot", "context", "vector"}
    /\ key_slot_index \in 0 .. NumberOfKeySlots
    /\ (pc = "slot" => key_slot_index \in SlotIndexes)
    /\ key_material_data_offset \in Nat
    /\ result \in {-1, 0, 1}

\* Whatever keys and passwords were set before, and on whatever volumes the
\* handle was open before, sectors are only ever decrypted with the master
\* key of the volume whose header is in memory: a key that was set, kept
\* from an earlier volume, zeroed by close or left behind by a failed slot
\* never reaches libluksde_encryption_context_set_key of the volume.
ContextKeyIsVolumeKey ==
    encryption_context # NoContext =>
        /\ volume_header # NoVolume
        /\ encryption_context = MasterKeyOf[volume_header]

\* Between calls the parts of the handle agree: header and sector data
\* vector exist exactly while the volume is open.  An open that failed at
\* any point can therefore be retried, and does not meet the "already set"
\* errors of open_read.
PartsAgreeWhenIdle ==
    pc = "idle" =>
        /\ volume_header = file_io_handle
        /\ sector_data_vector = (file_io_handle # NoVolume)
        /\ (file_io_handle = NoVolume => encryption_context = NoContext)

\* is_locked tells the application whether sectors can be decrypted.  It
\* does as long as no allocation or cryptographic call fails: an open that
\* fails after the volume was unlocked frees the context and not the flag.
IsLockedAgreesWithContext ==
    (pc = "idle" /\ file_io_handle # NoVolume) =>
        (is_locked <=> encryption_context = NoContext)

OpensSlot(pass, volume, slot) ==
    /\ KeySlots[volume][slot].enabled
    /\ KeySlots[volume][slot].password = pass

OpensSomeSlot(pass, volume) ==
    \E slot \in SlotIndexes : OpensSlot(pass, volume, slot)

FirstEnabledSlot(volume, slot) ==
    /\ KeySlots[volume][slot].enabled
    /\ KeySlots[volume][slot].number_of_stripes # 0
    /\ \A s \in 0 .. (slot - 1) : ~KeySlots[volume][s].enabled

\* The search that follows the first use of a header finds the master key
\* with the password of the first enabled slot, whatever keys were supplied,
\* found or validated before, and on whatever volume.
FirstTryFindsKey ==
    \A slot \in SlotIndexes :
        (/\ pc = "context"
         /\ user_password_is_set
         /\ FirstEnabledSlot(volume_header, slot)
         /\ OpensSlot(user_password, volume_header, slot)
         /\ key_material_scale[slot] < 2
         /\ master_key_size = KeySize[MasterKeyOf[volume_header]])
        => volume_master_key_is_set

\* The handle keeps the promises of VolumeAccess.  The volume counts as
\* unlocked from the moment the encryption context has its key.
Access == INSTANCE VolumeAccess WITH
    NoKey <- Garbage,
    OpensSlotOf <- OpensSomeSlot,
    volume <- file_io_handle,
    unlocked <- file_io_handle # NoVolume /\ encryption_context # NoContext,
    key <- IF master_key \in Keys THEN master_key ELSE Garbage,
    password <- user_password

ImplementsVolumeAccess == Access!Spec

\* Every open and unlock returns to the application.
CallsReturn == (pc # "idle") ~> (pc = "idle")

-----------------------------------------------------------------------------
(* What the comments of the code say and the code does not do              *)

\* libluksde_volume.c, "Unlocks the volume.  Returns 1 if the volume is
\* unlocked, 0 if not": when the application has set the password of the
\* only enabled slot, and nothing fails, unlock unlocks.
UnlockWithFittingPassword ==
    [][(/\ pc # "idle"
        /\ call = "unlock"
        /\ pc' = "idle"
        /\ \E slot \in SlotIndexes :
              /\ FirstEnabledSlot(volume_header, slot)
              /\ OpensSlot(user_password, volume_header, slot)
        /\ master_key_size = KeySize[MasterKeyOf[volume_header]])
       => result' = 1]_vars

\* open_read_keys goes through the slots for one the password opens: a
\* password that opens any enabled slot unlocks the volume.
AnySlotOpens ==
    (/\ pc = "vector"
     /\ user_password_is_set
     /\ OpensSomeSlot(user_password, volume_header))
    => encryption_context # NoContext
=============================================================================
