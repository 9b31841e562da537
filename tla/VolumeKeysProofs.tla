-------------------------- MODULE VolumeKeysProofs --------------------------
(***************************************************************************)
(* Proofs about VolumeKeys, for every set of volumes, keys, passwords and  *)
(* key slots: typing, the agreement of the parts of the handle, and that   *)
(* sectors are only ever decrypted with the volume's own master key.       *)
(***************************************************************************)
EXTENDS VolumeKeys, TLAPS

USE KeysAssumption, SlotsAssumption, SentinelsAssumption

-----------------------------------------------------------------------------
(* Typing                                                                  *)

\* The key material of a slot has a size, whatever its stripes are.
LEMMA KeyMaterialSizeType ==
    ASSUME TypeOK, pc = "slot", volume_header \in Volumes
    PROVE  KeyMaterialSize \in Nat
<1>1. CurrentSlot.number_of_stripes \in Nat
  BY DEF TypeOK, CurrentSlot, KeySlot
<1>2. CASE master_key_size = 0
  BY <1>1, <1>2 DEF KeyMaterialSize
<1>3. CASE master_key_size = 16
  BY <1>1, <1>3 DEF KeyMaterialSize
<1>4. CASE master_key_size = 32
  BY <1>1, <1>4 DEF KeyMaterialSize
<1> QED BY <1>2, <1>3, <1>4 DEF TypeOK

\* Where a call stands, and what it has of the handle by then.
CallInv ==
    /\ (pc = "idle" <=> call = "none")
    /\ (pc # "idle" => volume_header # NoVolume)
    /\ (pc = "vector" => call = "open")
    /\ (call = "open" => file_io_handle = NoVolume /\ ~sector_data_vector)
    /\ (call = "open" /\ pc # "vector" => encryption_context = NoContext)
    /\ (call = "unlock" => /\ file_io_handle = volume_header
                           /\ sector_data_vector)

\* Slots are only tried without a master key, and what is about to be used
\* as one is the volume's.
KeyInv ==
    /\ (pc = "slot" => ~volume_master_key_is_set)
    /\ (pc = "context" /\ volume_master_key_is_set
           => master_key = MasterKeyOf[volume_header])

IInv ==
    /\ TypeOK
    /\ CallInv
    /\ KeyInv
    /\ ContextKeyIsVolumeKey
    /\ PartsAgreeWhenIdle

LEMMA InitIInv == Init => IInv
<1> SUFFICES ASSUME Init PROVE IInv
  OBVIOUS
<1> USE DEF Init
<1>1. [s \in SlotIndexes |-> 0] \in [SlotIndexes -> 0 .. 2]
  OBVIOUS
<1>2. 0 \in 0 .. NumberOfKeySlots
  OBVIOUS
<1>3. TypeOK
  BY <1>1, <1>2 DEF TypeOK
<1>4. CallInv /\ KeyInv /\ ContextKeyIsVolumeKey /\ PartsAgreeWhenIdle
  BY DEF CallInv, KeyInv, ContextKeyIsVolumeKey, PartsAgreeWhenIdle
<1> QED BY <1>3, <1>4 DEF IInv

\* The error exit, from any state of a call in progress.
LEMMA FailIInv ==
    ASSUME IInv, pc # "idle", Fail,
           key_material_scale' \in [SlotIndexes -> 0 .. 2],
           master_key' \in Keys \cup {Garbage, Zeroed},
           UNCHANGED <<master_key_size, volume_master_key_is_set,
                       password, scan>>
    PROVE  IInv'
<1> USE DEF IInv, Fail, Return, password, scan
<1>1. TypeOK'
  BY DEF TypeOK
<1>2. CallInv' /\ KeyInv'
  BY DEF CallInv, KeyInv, TypeOK
<1>3. ContextKeyIsVolumeKey'
  BY DEF CallInv, ContextKeyIsVolumeKey, TypeOK
<1>4. PartsAgreeWhenIdle'
  BY DEF CallInv, PartsAgreeWhenIdle, TypeOK
<1> QED BY <1>1, <1>2, <1>3, <1>4

\* Scaling a slot's offset keeps the type of the header's slots.
LEMMA ScaleType ==
    ASSUME TypeOK, ScaleKeyMaterialOffset
    PROVE  key_material_scale' \in [SlotIndexes -> 0 .. 2]
<1>1. \A n \in 0 .. 2 : Scaled(n) \in 0 .. 2
  BY DEF Scaled
<1> QED BY <1>1 DEF TypeOK, ScaleKeyMaterialOffset

\* What a slot recovers is a key or the bytes of a failed recovery.
LEMMA RecoveredType ==
    ASSUME volume_header \in Volumes
    PROVE  /\ Recovered \in Keys \cup {Garbage, Zeroed}
           /\ MasterKeyValidates(Recovered)
                 => Recovered = MasterKeyOf[volume_header]
BY DEF Recovered, MasterKeyValidates

-----------------------------------------------------------------------------
(* The inductive step                                                      *)

LEMMA SupplyIInv == IInv /\ Supply => IInv'
<1> SUFFICES ASSUME IInv, Supply PROVE IInv'
  OBVIOUS
<1> USE DEF IInv, Return, handle, scan
<1>1. ASSUME NEW key \in Keys, StoreMasterKey(key) PROVE IInv'
  <2> USE <1>1 DEF StoreMasterKey, password
  <2>1. TypeOK'
    <3>1. KeySize[key] \in {16, 32}
      OBVIOUS
    <3> QED BY <3>1 DEF TypeOK
  <2>2. CallInv' /\ KeyInv' /\ ContextKeyIsVolumeKey' /\ PartsAgreeWhenIdle'
    BY DEF CallInv, KeyInv, ContextKeyIsVolumeKey, PartsAgreeWhenIdle
  <2> QED BY <2>1, <2>2
<1>2. ASSUME NEW string \in Passwords \cup {Unconvertible}, SetPassword(string)
      PROVE IInv'
  <2> USE <1>2 DEF SetPassword, secrets
  <2>1. user_password' \in Passwords \cup {NoPassword}
    OBVIOUS
  <2>2. user_password_is_set' \in BOOLEAN
    BY DEF TypeOK
  <2>3. TypeOK'
    BY <2>1, <2>2 DEF TypeOK
  <2>4. CallInv' /\ KeyInv' /\ ContextKeyIsVolumeKey' /\ PartsAgreeWhenIdle'
    BY DEF CallInv, KeyInv, ContextKeyIsVolumeKey, PartsAgreeWhenIdle
  <2> QED BY <2>3, <2>4
<1> QED
  BY <1>1, <1>2 DEF Supply, SetKey, SetKeys, SetUtf8Password, SetUtf16Password

LEMMA BeginIInv == IInv /\ Begin => IInv'
<1> SUFFICES ASSUME IInv, Begin PROVE IInv'
  OBVIOUS
<1> USE DEF IInv, Return
<1>1. ASSUME NEW volume \in Volumes, OpenReadHeader(volume) PROVE IInv'
  <2> USE <1>1 DEF OpenReadHeader, CanOpen, password, scan
  <2>1. TypeOK'
    BY DEF TypeOK, SlotIndexes
  <2>2. CallInv' /\ KeyInv'
    BY DEF CallInv, KeyInv, PartsAgreeWhenIdle, TypeOK
  <2>3. ContextKeyIsVolumeKey' /\ PartsAgreeWhenIdle'
    BY DEF ContextKeyIsVolumeKey, PartsAgreeWhenIdle
  <2> QED BY <2>1, <2>2, <2>3
<1>2. ASSUME NEW volume \in Volumes, OpenReadHeaderFails(volume) PROVE IInv'
  <2> USE <1>2 DEF OpenReadHeaderFails, CanOpen, password, scan
  <2>1. TypeOK'
    <3>1. KeySize[MasterKeyOf[volume]] \in {16, 32}
      OBVIOUS
    <3> QED BY <3>1 DEF TypeOK
  <2>2. CallInv' /\ KeyInv' /\ ContextKeyIsVolumeKey' /\ PartsAgreeWhenIdle'
    BY DEF CallInv, KeyInv, ContextKeyIsVolumeKey, PartsAgreeWhenIdle
  <2> QED BY <2>1, <2>2
<1>3. CASE OpenRefused \/ UnlockReturnsAtOnce \/ CloseRefused
  <2> USE <1>3 DEF OpenRefused, UnlockReturnsAtOnce, CloseRefused,
                   handle, secrets, password, scan
  <2>1. TypeOK'
    BY DEF TypeOK
  <2>2. CallInv' /\ KeyInv' /\ ContextKeyIsVolumeKey' /\ PartsAgreeWhenIdle'
    BY DEF CallInv, KeyInv, ContextKeyIsVolumeKey, PartsAgreeWhenIdle
  <2> QED BY <2>1, <2>2
<1>4. CASE UnlockBegin
  <2> USE <1>4 DEF UnlockBegin, handle, secrets, password, scan
  <2>1. TypeOK'
    BY DEF TypeOK
  <2>2. CallInv' /\ KeyInv' /\ ContextKeyIsVolumeKey' /\ PartsAgreeWhenIdle'
    BY DEF CallInv, KeyInv, ContextKeyIsVolumeKey, PartsAgreeWhenIdle
  <2> QED BY <2>1, <2>2
<1>5. CASE Close
  <2> USE <1>5 DEF Close, password, scan
  <2>1. TypeOK'
    BY DEF TypeOK
  <2>2. CallInv' /\ KeyInv' /\ ContextKeyIsVolumeKey' /\ PartsAgreeWhenIdle'
    BY DEF CallInv, KeyInv, ContextKeyIsVolumeKey, PartsAgreeWhenIdle
  <2> QED BY <2>1, <2>2
<1> QED BY <1>1, <1>2, <1>3, <1>4, <1>5 DEF Begin

LEMMA ProceedIInv == IInv /\ Proceed => IInv'
<1> SUFFICES ASSUME IInv, Proceed PROVE IInv'
  OBVIOUS
<1> USE DEF IInv
<1>0. pc # "idle" => volume_header \in Volumes
  BY DEF TypeOK, CallInv
<1>1. CASE ValidateMasterKey
  <2> USE <1>1 DEF ValidateMasterKey, handle, password
  <2>1. TypeOK'
    BY DEF TypeOK, SlotIndexes
  <2>2. CallInv' /\ KeyInv'
    BY <1>0 DEF CallInv, KeyInv, MasterKeyValidates
  <2>3. ContextKeyIsVolumeKey' /\ PartsAgreeWhenIdle'
    BY DEF ContextKeyIsVolumeKey, PartsAgreeWhenIdle
  <2> QED BY <2>1, <2>2, <2>3
<1>2. CASE \/ ValidateMasterKeyFails
           \/ DeriveUserKeyFails
           \/ SetContextFails
           \/ OpenReadVectorFails
  BY <1>2, FailIInv
     DEF ValidateMasterKeyFails, DeriveUserKeyFails, SetContextFails,
         OpenReadVectorFails, TypeOK, secrets
<1>3. CASE SkipKeySlot
  <2> USE <1>3 DEF SkipKeySlot, NextSlot, handle, secrets, password
  <2>1. TypeOK'
    BY DEF TypeOK, SlotIndexes
  <2>2. CallInv'
    BY DEF CallInv
  <2>3. KeyInv'
    BY DEF KeyInv
  <2>4. ContextKeyIsVolumeKey' /\ PartsAgreeWhenIdle'
    BY DEF ContextKeyIsVolumeKey, PartsAgreeWhenIdle
  <2> QED BY <2>1, <2>2, <2>3, <2>4
<1>4. CASE TryKeySlot
  <2> USE <1>4, <1>0 DEF TryKeySlot, NextSlot, password
  <2>1. TypeOK'
    BY KeyMaterialSizeType, ScaleType, RecoveredType
       DEF TypeOK, SlotIndexes, MasterKeyValidates
  <2>2. CallInv'
    BY DEF CallInv
  <2>3. KeyInv'
    BY RecoveredType DEF KeyInv
  <2>4. ContextKeyIsVolumeKey' /\ PartsAgreeWhenIdle'
    BY DEF ContextKeyIsVolumeKey, PartsAgreeWhenIdle
  <2> QED BY <2>1, <2>2, <2>3, <2>4
<1>5. CASE ReadKeyMaterialFails
  BY <1>5, FailIInv, ScaleType DEF ReadKeyMaterialFails, TypeOK, secrets
<1>6. CASE RecoverMasterKeyFails
  <2>1. master_key' \in Keys \cup {Garbage, Zeroed}
    BY <1>0, <1>6, RecoveredType DEF RecoverMasterKeyFails, TypeOK
  <2> QED BY <1>6, <2>1, FailIInv, ScaleType DEF RecoverMasterKeyFails
<1>7. CASE SetContext
  <2> USE <1>0, <1>7 DEF SetContext, Return, secrets, password, scan
  <2>1. TypeOK'
    BY DEF TypeOK
  <2>2. CallInv' /\ KeyInv'
    BY DEF CallInv, KeyInv
  <2>3. ContextKeyIsVolumeKey'
    BY DEF ContextKeyIsVolumeKey, KeyInv, CallInv
  <2>4. PartsAgreeWhenIdle'
    BY DEF PartsAgreeWhenIdle, CallInv, TypeOK
  <2> QED BY <2>1, <2>2, <2>3, <2>4
<1>8. CASE OpenReadVector
  <2> USE <1>0, <1>8 DEF OpenReadVector, Return, secrets, password, scan
  <2>1. TypeOK'
    BY DEF TypeOK
  <2>2. CallInv' /\ KeyInv'
    BY DEF CallInv, KeyInv
  <2>3. ContextKeyIsVolumeKey' /\ PartsAgreeWhenIdle'
    BY DEF ContextKeyIsVolumeKey, PartsAgreeWhenIdle
  <2> QED BY <2>1, <2>2, <2>3
<1> QED BY <1>1, <1>2, <1>3, <1>4, <1>5, <1>6, <1>7, <1>8 DEF Proceed

LEMMA StutterIInv == IInv /\ UNCHANGED vars => IInv'
BY DEF IInv, TypeOK, CallInv, KeyInv, ContextKeyIsVolumeKey,
       PartsAgreeWhenIdle, vars, handle, secrets, password, scan, frame

LEMMA NextIInv == IInv /\ [Next]_vars => IInv'
BY SupplyIInv, BeginIInv, ProceedIInv, StutterIInv DEF Next

\* The invariant the theorems below follow from.
LEMMA AlwaysIInv == Spec => []IInv
BY InitIInv, NextIInv, PTL DEF Spec

-----------------------------------------------------------------------------
(* Theorems                                                                *)

\* Every variable keeps its type; in particular the slot loop of
\* open_read_keys never looks at a slot beyond the last.
THEOREM TypeCorrect == Spec => []TypeOK
<1>1. IInv => TypeOK
  BY DEF IInv
<1> QED BY <1>1, AlwaysIInv, PTL

\* Sectors are decrypted with the master key of the open volume only.
THEOREM ContextKeyCorrect == Spec => []ContextKeyIsVolumeKey
<1>1. IInv => ContextKeyIsVolumeKey
  BY DEF IInv
<1> QED BY <1>1, AlwaysIInv, PTL

\* Between calls the header and the sector data vector exist exactly while
\* the volume is open, whatever failed in between.
THEOREM PartsAgree == Spec => []PartsAgreeWhenIdle
<1>1. IInv => PartsAgreeWhenIdle
  BY DEF IInv
<1> QED BY <1>1, AlwaysIInv, PTL

-----------------------------------------------------------------------------
(* The locked flag, when no allocation and no cryptographic call fails     *)

LockInv == is_locked <=> encryption_context = NoContext

LEMMA InitLockInv == Init => LockInv
BY DEF Init, LockInv

LEMMA NextLockInv ==
    ASSUME ~LibraryFaults, IInv, LockInv, [Next]_vars
    PROVE  LockInv'
<1> USE DEF LockInv, handle
<1>0. TypeOK /\ CallInv /\ KeyInv /\ PartsAgreeWhenIdle
  BY DEF IInv
<1>1. CASE Supply
  BY <1>1 DEF Supply, SetKey, SetKeys, StoreMasterKey, SetUtf8Password,
              SetUtf16Password, SetPassword
<1>2. CASE Begin
  <2>1. ASSUME NEW volume \in Volumes, OpenReadHeader(volume) PROVE LockInv'
    BY <2>1 DEF OpenReadHeader
  <2>2. ASSUME NEW volume \in Volumes, OpenReadHeaderFails(volume)
        PROVE LockInv'
    BY <1>0, <2>2 DEF OpenReadHeaderFails, CanOpen, PartsAgreeWhenIdle
  <2>3. CASE \/ OpenRefused
             \/ UnlockBegin
             \/ UnlockReturnsAtOnce
             \/ CloseRefused
    BY <2>3 DEF OpenRefused, UnlockBegin, UnlockReturnsAtOnce, CloseRefused
  <2>4. CASE Close
    BY <2>4 DEF Close
  <2> QED BY <1>2, <2>1, <2>2, <2>3, <2>4 DEF Begin
<1>3. CASE ValidateMasterKey \/ SkipKeySlot
  BY <1>3 DEF ValidateMasterKey, SkipKeySlot
<1>4. CASE TryKeySlot
  BY <1>4 DEF TryKeySlot
<1>5. CASE DeriveUserKeyFails \/ ReadKeyMaterialFails
  BY <1>0, <1>5 DEF DeriveUserKeyFails, ReadKeyMaterialFails, Fail, CallInv
<1>6. CASE SetContext
  BY <1>0, <1>6 DEF SetContext, TypeOK
<1>7. CASE OpenReadVector
  BY <1>7 DEF OpenReadVector
<1>8. CASE \/ ValidateMasterKeyFails
           \/ RecoverMasterKeyFails
           \/ SetContextFails
           \/ OpenReadVectorFails
  BY <1>8 DEF ValidateMasterKeyFails, RecoverMasterKeyFails, SetContextFails,
              OpenReadVectorFails
<1>9. CASE UNCHANGED vars
  BY <1>9 DEF vars
<1> QED
  BY <1>1, <1>2, <1>3, <1>4, <1>5, <1>6, <1>7, <1>8, <1>9 DEF Next, Proceed

\* When no allocation and no cryptographic call fails, is_locked tells
\* whether sectors can be decrypted.  (When one does, a run shows that it
\* need not.)
THEOREM LockedFlagCorrect ==
    ASSUME ~LibraryFaults
    PROVE  Spec => []IsLockedAgreesWithContext
<1>1. LockInv => IsLockedAgreesWithContext
  BY DEF LockInv, IsLockedAgreesWithContext
<1>2. IInv /\ LockInv /\ [Next]_vars => LockInv'
  BY NextLockInv
<1> QED BY <1>1, <1>2, InitLockInv, AlwaysIInv, PTL DEF Spec

-----------------------------------------------------------------------------
(* The first search for the key                                            *)

\* The password in hand opens this slot, and no slot before it is enabled.
Fits(slot) ==
    /\ user_password_is_set
    /\ FirstEnabledSlot(volume_header, slot)
    /\ OpensSlot(user_password, volume_header, slot)
    /\ master_key_size = KeySize[MasterKeyOf[volume_header]]

\* Until the loop has tried the slot, it has decrypted nothing; once it has,
\* without success, the slot had been used before.
SearchInv ==
    /\ pc = "slot" =>
           \A slot \in SlotIndexes :
               Fits(slot) =>
                   \/ key_slot_index <= slot /\ key_material_data_offset = 0
                   \/ key_material_scale[slot] = 2
    /\ FirstTryFindsKey

LEMMA InitSearchInv == Init => SearchInv
BY DEF Init, SearchInv, FirstTryFindsKey

\* Trying the first enabled slot with its password.
LEMMA FirstTry ==
    ASSUME IInv, TryKeySlot, NEW slot \in SlotIndexes, Fits(slot),
           key_slot_index <= slot, key_material_data_offset = 0
    PROVE  volume_master_key_is_set' \/ key_material_scale'[slot] = 2
<1>0. /\ key_slot_index \in SlotIndexes
      /\ volume_header \in Volumes
      /\ key_material_scale \in [SlotIndexes -> 0 .. 2]
  BY DEF IInv, TypeOK, CallInv, TryKeySlot
<1>1. key_slot_index = slot
  BY <1>0 DEF TryKeySlot, CurrentSlot, Fits, FirstEnabledSlot, SlotIndexes
<1>2. CASE key_material_scale[slot] = 0
  <2>1. KeyMaterialIsRead /\ KeyMaterialIsDecrypted
    BY <1>1, <1>2 DEF KeyMaterialIsRead, KeyMaterialIsDecrypted, Scaled
  <2>2. user_password = CurrentSlot.password
    BY <1>1 DEF CurrentSlot, Fits, OpensSlot
  <2>3. Recovered = MasterKeyOf[volume_header]
    BY <2>1, <2>2 DEF Recovered, Fits
  <2> QED BY <2>3 DEF TryKeySlot, MasterKeyValidates, Fits
<1>3. CASE key_material_scale[slot] # 0
  BY <1>0, <1>1, <1>3 DEF TryKeySlot, ScaleKeyMaterialOffset, Scaled
<1> QED BY <1>2, <1>3

LEMMA ProceedSearchInv ==
    ASSUME IInv, SearchInv, Proceed
    PROVE  SearchInv'
<1> USE DEF IInv
<1>0. pc = "slot" => key_slot_index \in SlotIndexes
  BY DEF TypeOK
<1>1. CASE ValidateMasterKey
  <2> USE <1>1 DEF ValidateMasterKey, handle, password
  <2>1. ASSUME pc' = "slot", NEW slot \in SlotIndexes
        PROVE  key_slot_index' <= slot /\ key_material_data_offset' = 0
    BY DEF SlotIndexes
  <2>2. FirstTryFindsKey'
    BY DEF FirstTryFindsKey
  <2> QED BY <2>1, <2>2 DEF SearchInv
<1>2. CASE SkipKeySlot
  <2> USE <1>0, <1>2 DEF SkipKeySlot, NextSlot, handle, secrets, password
  <2>1. ASSUME NEW slot \in SlotIndexes, Fits(slot), key_slot_index <= slot
        PROVE  key_slot_index + 1 <= slot
    BY <2>1 DEF Fits, FirstEnabledSlot, CurrentSlot, SlotIndexes
  <2>2. ASSUME NEW slot \in SlotIndexes, Fits(slot)'
        PROVE  Fits(slot)
    BY <2>2 DEF Fits, FirstEnabledSlot, OpensSlot
  <2>3. ASSUME pc' = "slot", NEW slot \in SlotIndexes, Fits(slot)'
        PROVE  \/ key_slot_index' <= slot /\ key_material_data_offset' = 0
               \/ key_material_scale'[slot] = 2
    BY <2>1, <2>2, <2>3 DEF SearchInv
  <2>4. ASSUME pc' = "context", NEW slot \in SlotIndexes, Fits(slot)'
        PROVE  key_material_scale'[slot] = 2
    <3>1. ~(key_slot_index + 1 <= slot)
      BY <2>4 DEF SlotIndexes
    <3> QED BY <2>1, <2>2, <2>4, <3>1 DEF SearchInv
  <2>5. FirstTryFindsKey'
    BY <2>4 DEF FirstTryFindsKey, Fits
  <2> QED BY <2>3, <2>5 DEF SearchInv
<1>3. CASE TryKeySlot
  <2> USE <1>0, <1>3 DEF TryKeySlot, password
  <2>1. ASSUME NEW slot \in SlotIndexes, Fits(slot)'
        PROVE  Fits(slot)
    BY <2>1 DEF Fits, FirstEnabledSlot, OpensSlot
  <2>2. ASSUME NEW slot \in SlotIndexes, Fits(slot),
               key_material_scale[slot] = 2
        PROVE  key_material_scale'[slot] = 2
    BY <2>2 DEF ScaleKeyMaterialOffset, Scaled, TypeOK
  <2>3. ASSUME NEW slot \in SlotIndexes, Fits(slot)'
        PROVE  volume_master_key_is_set' \/ key_material_scale'[slot] = 2
    BY <2>1, <2>2, <2>3, FirstTry DEF SearchInv
  <2>4. pc' = "slot" => ~volume_master_key_is_set'
    OBVIOUS
  <2>5. FirstTryFindsKey'
    BY <2>3 DEF FirstTryFindsKey, Fits
  <2> QED BY <2>3, <2>4, <2>5 DEF SearchInv
<1>4. CASE pc' \notin {"slot", "context"}
  BY <1>4 DEF SearchInv, FirstTryFindsKey
<1> QED
  BY <1>1, <1>2, <1>3, <1>4
     DEF Proceed, ValidateMasterKeyFails, DeriveUserKeyFails,
         ReadKeyMaterialFails, RecoverMasterKeyFails, SetContext,
         SetContextFails, OpenReadVector, OpenReadVectorFails, Fail, Return

LEMMA NextSearchInv == IInv /\ SearchInv /\ [Next]_vars => SearchInv'
<1> SUFFICES ASSUME IInv, SearchInv, [Next]_vars PROVE SearchInv'
  OBVIOUS
<1>1. CASE Supply \/ Begin
  <2>1. pc' \notin {"slot", "context"}
    BY <1>1 DEF Supply, Begin, SetKey, SetKeys, StoreMasterKey, SetPassword,
                SetUtf8Password, SetUtf16Password, OpenReadHeader,
                OpenReadHeaderFails, OpenRefused, UnlockBegin,
                UnlockReturnsAtOnce, Close, CloseRefused, Return
  <2> QED BY <2>1 DEF SearchInv, FirstTryFindsKey
<1>2. CASE Proceed
  BY <1>2, ProceedSearchInv
<1>3. CASE UNCHANGED vars
  BY <1>3 DEF SearchInv, Fits, FirstTryFindsKey, FirstEnabledSlot, OpensSlot,
              vars, handle, secrets, password, scan, frame
<1> QED BY <1>1, <1>2, <1>3 DEF Next

\* The first search with the password of the first enabled slot finds the
\* master key, for any number of slots and whatever the handle was used for
\* before: keys set or left over never stand in the way of the password.
THEOREM FirstTryCorrect == Spec => []FirstTryFindsKey
<1>1. SearchInv => FirstTryFindsKey
  BY DEF SearchInv
<1> QED BY <1>1, InitSearchInv, NextSearchInv, AlwaysIInv, PTL DEF Spec

-----------------------------------------------------------------------------
(* The promises of VolumeAccess                                            *)

\* A locked volume has no context, an unlock only runs on a locked volume,
\* and a context was made from the key that is still in master_key when open
\* comes to its end.
AccessInv ==
    /\ (is_locked => encryption_context = NoContext)
    /\ (call = "unlock" => is_locked)
    /\ (pc = "vector" /\ encryption_context # NoContext
          => master_key = MasterKeyOf[volume_header])

LEMMA InitAccessInv == Init => AccessInv
BY DEF Init, AccessInv

LEMMA NextAccessInv == IInv /\ AccessInv /\ [Next]_vars => AccessInv'
<1> SUFFICES ASSUME IInv, AccessInv, [Next]_vars PROVE AccessInv'
  OBVIOUS
<1> USE DEF AccessInv, handle, secrets
<1>0. TypeOK /\ CallInv /\ KeyInv /\ PartsAgreeWhenIdle
  BY DEF IInv
<1>1. CASE Supply
  BY <1>1 DEF Supply, SetKey, SetKeys, StoreMasterKey, SetUtf8Password,
              SetUtf16Password, SetPassword, Return
<1>2. CASE Begin
  <2>1. ASSUME NEW volume \in Volumes, OpenReadHeader(volume) PROVE AccessInv'
    BY <2>1 DEF OpenReadHeader
  <2>2. ASSUME NEW volume \in Volumes, OpenReadHeaderFails(volume)
        PROVE AccessInv'
    BY <2>2 DEF OpenReadHeaderFails, Return
  <2>3. CASE \/ OpenRefused
             \/ UnlockBegin
             \/ UnlockReturnsAtOnce
             \/ CloseRefused
    BY <2>3 DEF OpenRefused, UnlockBegin, UnlockReturnsAtOnce, CloseRefused,
                Return
  <2>4. CASE Close
    BY <2>4 DEF Close, Return
  <2> QED BY <1>2, <2>1, <2>2, <2>3, <2>4 DEF Begin
<1>3. CASE ValidateMasterKey \/ SkipKeySlot
  BY <1>3 DEF ValidateMasterKey, SkipKeySlot, NextSlot
<1>4. CASE TryKeySlot
  BY <1>4 DEF TryKeySlot, NextSlot
<1>5. CASE \/ ValidateMasterKeyFails
           \/ DeriveUserKeyFails
           \/ ReadKeyMaterialFails
           \/ RecoverMasterKeyFails
           \/ SetContextFails
           \/ OpenReadVectorFails
  BY <1>0, <1>5
     DEF ValidateMasterKeyFails, DeriveUserKeyFails, ReadKeyMaterialFails,
         RecoverMasterKeyFails, SetContextFails, OpenReadVectorFails,
         Fail, Return
<1>6. CASE SetContext
  BY <1>0, <1>6 DEF SetContext, Return, CallInv, KeyInv, TypeOK
<1>7. CASE OpenReadVector
  BY <1>0, <1>7 DEF OpenReadVector, Return, CallInv
<1>8. CASE UNCHANGED vars
  BY <1>8 DEF vars, frame
<1> QED
  BY <1>1, <1>2, <1>3, <1>4, <1>5, <1>6, <1>7, <1>8 DEF Next, Proceed

\* The master key in hand and the access to the open volume, as VolumeAccess
\* sees them.
InHand == IF master_key \in Keys THEN master_key ELSE Garbage
Unlocked == file_io_handle # NoVolume /\ encryption_context # NoContext

AccessUnchanged ==
    /\ file_io_handle' = file_io_handle
    /\ Unlocked' = Unlocked
    /\ InHand' = InHand
    /\ user_password' = user_password

LEMMA AccessStutters == AccessUnchanged => UNCHANGED Access!vars
BY DEF AccessUnchanged, Access!vars, InHand, Unlocked

LEMMA InitAccess == Init => Access!Init
BY DEF Init, Access!Init

\* A slot that yields the master key was opened by the password in hand.
LEMMA RecoveredByPassword ==
    ASSUME IInv, AccessInv, pc = "slot", CurrentSlot.enabled,
           master_key' \in {master_key, Garbage, Recovered},
           UNCHANGED <<file_io_handle, user_password>>,
           encryption_context' = encryption_context \/ file_io_handle = NoVolume
    PROVE  Access!FindKey \/ UNCHANGED Access!vars
<1> USE DEF IInv
<1>1. /\ volume_header \in Volumes
      /\ file_io_handle \in {volume_header, NoVolume}
      /\ ~Unlocked
      /\ ~Unlocked'
      /\ key_slot_index \in SlotIndexes
  BY DEF TypeOK, CallInv, AccessInv, Unlocked
<1>2. CASE master_key' = master_key
  BY <1>1, <1>2, AccessStutters DEF AccessUnchanged, InHand, Unlocked
<1>3. CASE master_key' = Garbage
  BY <1>1, <1>3 DEF Access!FindKey, Unlocked
<1>4. CASE master_key' = Recovered /\ Recovered # Garbage
  <2>1. /\ user_password = CurrentSlot.password
        /\ Recovered = MasterKeyOf[volume_header]
    BY <1>4 DEF Recovered
  <2>2. OpensSomeSlot(user_password, volume_header)
    BY <1>1, <2>1 DEF OpensSomeSlot, OpensSlot, CurrentSlot
  <2>3. MasterKeyOf[volume_header] \in Keys
    BY <1>1
  <2> QED BY <1>1, <1>4, <2>1, <2>2, <2>3 DEF Access!FindKey, Unlocked
<1> QED BY <1>2, <1>3, <1>4

LEMMA NextAccess ==
    ASSUME IInv, AccessInv, [Next]_vars
    PROVE  Access!Next \/ UNCHANGED Access!vars
<1> USE DEF handle, secrets, password
<1>0. TypeOK /\ CallInv /\ KeyInv /\ PartsAgreeWhenIdle /\ ContextKeyIsVolumeKey
  BY DEF IInv
<1>1. ASSUME NEW key \in Keys, StoreMasterKey(key) PROVE Access!SupplyKey
  BY <1>1 DEF StoreMasterKey, Access!SupplyKey
<1>2. ASSUME NEW string \in Passwords \cup {Unconvertible}, SetPassword(string)
      PROVE Access!SupplyPassword
  BY <1>2 DEF SetPassword, Access!SupplyPassword
<1>3. CASE Begin
  <2>1. ASSUME NEW volume \in Volumes, OpenReadHeader(volume)
        PROVE  AccessUnchanged
    BY <2>1 DEF OpenReadHeader, AccessUnchanged, InHand, Unlocked
  <2>2. ASSUME NEW volume \in Volumes, OpenReadHeaderFails(volume)
        PROVE  AccessUnchanged
    BY <2>2 DEF OpenReadHeaderFails, CanOpen, AccessUnchanged, InHand, Unlocked
  <2>3. CASE \/ OpenRefused
             \/ UnlockBegin
             \/ UnlockReturnsAtOnce
             \/ CloseRefused
    <3>1. AccessUnchanged
      BY <2>3 DEF OpenRefused, UnlockBegin, UnlockReturnsAtOnce, CloseRefused,
                  AccessUnchanged, InHand, Unlocked
    <3> QED BY <3>1, AccessStutters
  <2>4. CASE Close
    BY <2>4 DEF Close, Access!Close, Access!Next
  <2> QED BY <1>3, <2>1, <2>2, <2>3, <2>4, AccessStutters DEF Begin
<1>4. CASE ValidateMasterKey \/ SkipKeySlot
  <2>1. AccessUnchanged
    BY <1>4 DEF ValidateMasterKey, SkipKeySlot, AccessUnchanged, InHand, Unlocked
  <2> QED BY <2>1, AccessStutters
<1>5. CASE TryKeySlot
  BY <1>5, RecoveredByPassword DEF TryKeySlot, Access!Next
<1>6. CASE RecoverMasterKeyFails
  <2>1. encryption_context' = encryption_context \/ file_io_handle = NoVolume
    BY <1>0, <1>6 DEF RecoverMasterKeyFails, Fail, CallInv
  <2> QED
    BY <1>6, <2>1, RecoveredByPassword
       DEF RecoverMasterKeyFails, Fail, Access!Next
<1>7. CASE \/ ValidateMasterKeyFails
           \/ DeriveUserKeyFails
           \/ ReadKeyMaterialFails
           \/ SetContextFails
           \/ OpenReadVectorFails
  <2>1. AccessUnchanged
    BY <1>0, <1>7
       DEF ValidateMasterKeyFails, DeriveUserKeyFails, ReadKeyMaterialFails,
           SetContextFails, OpenReadVectorFails, Fail, CallInv,
           AccessUnchanged, InHand, Unlocked
  <2> QED BY <2>1, AccessStutters
<1>8. CASE SetContext
  <2>1. CASE encryption_context' = encryption_context \/ call = "open"
    <3>1. AccessUnchanged
      BY <1>0, <1>8, <2>1
         DEF SetContext, AccessUnchanged, InHand, Unlocked, CallInv
    <3> QED BY <3>1, AccessStutters
  <2>2. CASE encryption_context' # encryption_context /\ call # "open"
    <3>1. /\ call = "unlock"
          /\ file_io_handle = volume_header
          /\ volume_header \in Volumes
          /\ master_key = MasterKeyOf[volume_header]
          /\ master_key \in Keys
          /\ encryption_context' = master_key
      BY <1>0, <1>8, <2>2 DEF SetContext, CallInv, KeyInv, TypeOK
    <3> QED BY <1>8, <3>1 DEF SetContext, Access!Unlock, Access!Next
  <2> QED BY <2>1, <2>2
<1>9. CASE OpenReadVector
  <2>1. /\ volume_header \in Volumes
        /\ file_io_handle = NoVolume
        /\ encryption_context # NoContext
             => master_key = MasterKeyOf[volume_header]
        /\ MasterKeyOf[volume_header] \in Keys
    BY <1>0, <1>9 DEF OpenReadVector, CallInv, TypeOK, AccessInv
  <2> QED BY <1>9, <2>1 DEF OpenReadVector, Access!Open, Access!Next
<1>10. CASE UNCHANGED vars
  <2>1. AccessUnchanged
    BY <1>10 DEF vars, AccessUnchanged, InHand, Unlocked
  <2> QED BY <2>1, AccessStutters
<1> QED
  BY <1>1, <1>2, <1>3, <1>4, <1>5, <1>6, <1>7, <1>8, <1>9, <1>10
     DEF Next, Supply, Proceed, SetKey, SetKeys, SetUtf8Password,
         SetUtf16Password, Access!Next

\* Every behaviour of the handle is one that VolumeAccess allows: a volume is
\* unlocked with its own master key only, which the application supplied or
\* the password in hand recovered, and close gives both up.
THEOREM AccessImplemented == Spec => ImplementsVolumeAccess
<1>1. IInv /\ AccessInv /\ [Next]_vars => [Access!Next]_(Access!vars)
  BY NextAccess
<1> QED
  BY <1>1, InitAccess, InitAccessInv, NextAccessInv, AlwaysIInv, PTL
     DEF Spec, ImplementsVolumeAccess, Access!Spec
=============================================================================
