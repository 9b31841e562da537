----------------------- MODULE VolumeDecryptionProofs -----------------------
(***************************************************************************)
(* The inductive invariant of VolumeDecryption and the theorems that       *)
(* follow from it: reading the header, deriving keys, merging the stripes  *)
(* and setting the keys of a context fit together, for every format, size  *)
(* of sector and number of key slots.                                      *)
(***************************************************************************)
EXTENDS VolumeDecryption, Pbkdf2Proofs, DiffuserProofs

-----------------------------------------------------------------------------
(* The header                                                              *)

SlotsRead(f, k) ==
    [s \in 1 .. k |-> ReadKeySlotData(FormatMedium(f).key_slots[s])]

\* A version 1 header of which k key slots were read.
HeaderRead(f, k) ==
    [WithParsedStrings(HeaderValues(FormatMedium(f)), FormatMedium(f))
        EXCEPT !.key_slots_array = SlotsRead(f, k)]

HeaderInv ==
    /\ header_pc \in HeaderPlaces
    /\ header_pc \in {"idle", "failed"} => volume_header = NoHeader
    /\ header_pc = "slots" =>
          /\ format.format_version = 1
          /\ \E k \in 0 .. (NumberOfKeySlots - 1) : volume_header = HeaderRead(format, k)
    /\ header_pc = "done" =>
          \/ volume_header = [NoHeader EXCEPT !.format_version = 2]
          \/ /\ format.format_version = 1
             /\ volume_header = HeaderRead(format, NumberOfKeySlots)

\* What open_read_keys looks at of a header whose key size it has checked.
HeaderOf(f) ==
    /\ f.master_key_size \in 1 .. 16
    /\ volume_header.encryption_method = ParseEncryptionMethod(f.encryption_method)
    /\ volume_header.encryption_chaining_mode = ParseChainingMode(f.encryption_mode)
    /\ volume_header.initialization_vector_mode = ParseVectorMode(f.encryption_mode)
    /\ volume_header.essiv_hashing_method = ParseEssivHashingMethod(f.encryption_mode)
    /\ volume_header.hashing_method = ParseHashingMethod(f.hashing_method)
    /\ volume_header.master_key_size = f.master_key_size
    /\ volume_header.master_key_validation_hash
          = FormatMedium(f).master_key_validation_hash
    /\ volume_header.master_key_salt = "key_salt"
    /\ volume_header.master_key_number_of_iterations = f.number_of_iterations
    /\ \A s \in 1 .. NumberOfKeySlots :
          /\ volume_header.key_slots_array[s].state
                = IF s = f.enabled_slot THEN "enabled" ELSE "disabled"
          /\ volume_header.key_slots_array[s].salt = "slot_salt"
          /\ volume_header.key_slots_array[s].number_of_iterations
                = f.number_of_iterations
          /\ volume_header.key_slots_array[s].number_of_stripes = f.number_of_stripes

-----------------------------------------------------------------------------
(* The components and the stages they run in                               *)

SlotStages == {"user_key", "material", "merge", "check_slot"}

StageInv ==
    /\ stage \in Stages
    /\ stage \notin {"header", "failed"} => HeaderOf(format)
    /\ key_slot \in 0 .. NumberOfKeySlots
    /\ stage \in SlotStages => key_slot < NumberOfKeySlots
    /\ kdf.pc # "idle" => stage \in {"check_key", "user_key", "check_slot"}
    /\ merge.pc # "idle" => stage = "merge"
    /\ context.pc # "idle" => stage \in {"material", "volume_context", "unlocked"}
    /\ stage \in {"material", "merge"} => format.number_of_stripes # 0

\* What pbkdf2 was called with.
KdfCalled ==
    KdfRuns =>
      LET size == kdf.output_data_offset + kdf.output_data_size
      IN  /\ kdf.method = ParseHashingMethod(format.hashing_method)
          /\ kdf.number_of_iterations = format.number_of_iterations
          /\ IF stage = "user_key"
             THEN /\ kdf.password = user_password /\ kdf.salt = "slot_salt"
                  /\ size = format.master_key_size
             ELSE kdf.password = master_key /\ kdf.salt = "key_salt" /\ size = 5

\* What merge was called with.
MergeCalled ==
    MergeRuns =>
      /\ merge.method = ParseHashingMethod(format.hashing_method)
      /\ merge.number_of_stripes = format.number_of_stripes
      /\ Len(merge.data) = format.master_key_size

\* The stripes of a volume are merged as its splitter made them.
MergeOfKey ==
    /\ MergeRuns
    /\ merge.split_data = SplitKey(format.hashing_method, MasterKeyOf(format),
                                   RandomStripes(format))
    => MergeFollows(format.hashing_method, format.master_key_size,
                    MasterKeyOf(format), RandomStripes(format))

-----------------------------------------------------------------------------
(* The encryption context                                                  *)

ContextRecord ==
    context = [pc |-> context.pc, encryption_mode |-> context.encryption_mode,
               initialization_vector_mode |-> context.initialization_vector_mode,
               essiv_hashing_method |-> context.essiv_hashing_method,
               key |-> context.key, key_size |-> context.key_size,
               decryption |-> context.decryption,
               encryption |-> context.encryption, essiv |-> context.essiv]

\* The cipher contexts that are alive at each place.
CiphersAt ==
    CASE context.pc \in {"idle", "failed", "make_decryption"} -> {}
      [] context.pc = "make_encryption" -> {"decryption"}
      [] context.pc = "make_essiv" -> {"decryption", "encryption"}
      [] OTHER -> {"decryption", "encryption"} \cup
                     IF context.initialization_vector_mode = "ESSIV" THEN {"essiv"}
                     ELSE {}

KeySizeOf(mode, size) == IF mode = "AES_XTS" THEN size \div 2 ELSE size

\* A context that has a key, and what set_key has made of it so far.
Keyed == context.pc \in {"decryption_key", "encryption_key", "essiv_key", "ready"}

ContextInv ==
    /\ ContextRecord
    /\ context.pc \in ContextPlaces
    /\ context.pc = "idle" => context = NoContext
    /\ ciphers = CiphersAt
    /\ context.pc \in {"make_essiv", "essiv_key"} =>
          context.initialization_vector_mode = "ESSIV"
    /\ context.pc = "decryption_key" => context.key_size = Len(context.key)
    /\ context.pc \in {"encryption_key", "essiv_key", "ready"} =>
          /\ context.key_size = KeySizeOf(context.encryption_mode, Len(context.key))
          /\ context.decryption = CipherKey(context.key_size)
    /\ context.pc \in {"essiv_key", "ready"} => context.encryption = context.decryption
    /\ context.pc = "ready" /\ context.initialization_vector_mode = "ESSIV" =>
          context.essiv = <<EssivKey>>

\* Whose context it is.
ContextCalled ==
    /\ context.pc \notin {"idle", "failed"} =>
          /\ context.encryption_mode =
                EncryptionMode(ParseEncryptionMethod(format.encryption_method),
                               ParseChainingMode(format.encryption_mode))
          /\ context.initialization_vector_mode = ParseVectorMode(format.encryption_mode)
          /\ context.essiv_hashing_method
                = ParseEssivHashingMethod(format.encryption_mode)
    /\ Keyed => context.key = IF stage = "material" THEN user_key ELSE master_key
    /\ stage = "unlocked" => context.pc = "ready"

-----------------------------------------------------------------------------
(* The keys                                                                *)

Searching == stage \in SlotStages \cup {"next_slot"}

\* A key that is set was found in the volume once it is checked, and none is set
\* while the key slots are searched.
KeyInv ==
    /\ IsSequenceOf(master_key, format.master_key_size)
    /\ \E j \in Nat : key_material_data_offset = j * SectorCells
    /\ \E n \in Nat : IsSequenceOf(split_master_key_data, n)
    /\ volume_master_key_is_set \in BOOLEAN
    /\ Searching => ~ volume_master_key_is_set
    /\ stage \in {"context", "volume_context", "unlocked"} /\ volume_master_key_is_set =>
          master_key = MasterKeyOf(format)
    /\ stage \in {"volume_context", "unlocked"} => volume_master_key_is_set
    /\ stage = "material" =>
          user_key = DerivedKey(user_password, ParseHashingMethod(format.hashing_method),
                                "slot_salt", format.number_of_iterations,
                                format.master_key_size)

SplitOf(f) == SplitKey(f.hashing_method, MasterKeyOf(f), RandomStripes(f))

\* The right password for a slot that is enabled.
RightPassword ==
    /\ KnownFormat(format)
    /\ format.enabled_slot \in 1 .. NumberOfKeySlots
    /\ user_password = PasswordCells("right")

\* What the search has of the key while it is under way.
RightInv ==
    RightPassword =>
      /\ Searching => key_slot < format.enabled_slot
      /\ stage \in {"header", "check_key"} => key_slot = 0
      /\ stage \in {"header", "check_key", "next_slot", "user_key"} =>
            key_material_data_offset = 0 /\ split_master_key_data = <<>>
      /\ stage = "material" =>
            /\ key_material_data_offset \in 0 .. KeyMaterialSize(format)
            /\ IsSequenceOf(split_master_key_data, key_material_data_offset)
            /\ \A i \in 1 .. key_material_data_offset :
                  split_master_key_data[i] = SplitOf(format)[i]
      /\ stage = "merge" /\ MergeRuns => merge.split_data = SplitOf(format)
      /\ stage = "check_slot" => master_key = MasterKeyOf(format)
      /\ stage = "context" => volume_master_key_is_set
      /\ stage # "locked"

SectorInv ==
    sector_data # <<>> /\ KnownFormat(format) =>
        sector_data[2] = PlainSector(sector_data[1])

IInv ==
    /\ format \in Formats
    /\ HeaderInv /\ StageInv
    /\ KdfInv /\ KdfCalled
    /\ MergeInv /\ MergeCalled /\ MergeOfKey
    /\ ContextInv /\ ContextCalled
    /\ KeyInv /\ RightInv /\ SectorInv

-----------------------------------------------------------------------------
(* Reading the header                                                      *)

LEMMA FormatFacts ==
    ASSUME NEW f \in Formats
    PROVE  /\ f.master_key_size \in Nat
           /\ f.number_of_iterations \in Nat
           /\ f.number_of_stripes \in Nat
           /\ KeyMaterialSize(f) \in Nat
           /\ \E n \in Nat : KeyMaterialSize(f) = n * SectorCells /\ n * 32 < LongSize
BY FormatsAssumption DEF KeyMaterialSize

\* The values of a version 1 header.
HasValuesOf(header, f) ==
    /\ header.format_version = 1
    /\ header.encryption_method = ParseEncryptionMethod(f.encryption_method)
    /\ header.encryption_chaining_mode = ParseChainingMode(f.encryption_mode)
    /\ header.initialization_vector_mode = ParseVectorMode(f.encryption_mode)
    /\ header.essiv_hashing_method = ParseEssivHashingMethod(f.encryption_mode)
    /\ header.hashing_method = ParseHashingMethod(f.hashing_method)
    /\ header.master_key_size = f.master_key_size
    /\ header.master_key_validation_hash = FormatMedium(f).master_key_validation_hash
    /\ header.master_key_salt = "key_salt"
    /\ header.master_key_number_of_iterations = f.number_of_iterations

LEMMA HeaderParsed ==
    ASSUME NEW f, f.format_version = 1,
           NEW header, header = WithParsedStrings(HeaderValues(FormatMedium(f)),
                                                  FormatMedium(f))
    PROVE  /\ HasValuesOf(header, f)
           /\ header = [header EXCEPT !.key_slots_array = <<>>]
           /\ header = [i \in DOMAIN header |-> header[i]]
           /\ DOMAIN header = DOMAIN NoHeader
<1> DEFINE m == FormatMedium(f)
           hash == m.master_key_validation_hash
           h == HeaderValues(m)
           e == ParseEncryptionMethod(f.encryption_method)
           c == ParseChainingMode(f.encryption_mode)
           v == ParseVectorMode(f.encryption_mode)
           x == ParseEssivHashingMethod(f.encryption_mode)
           d == ParseHashingMethod(f.hashing_method)
<1>1. /\ m.format_version = 1 /\ m.encryption_method = f.encryption_method
      /\ m.encryption_mode = f.encryption_mode
      /\ m.hashing_method = f.hashing_method
      /\ m.master_key_size = f.master_key_size
      /\ m.master_key_salt = "key_salt"
      /\ m.master_key_number_of_iterations = f.number_of_iterations
  BY DEF FormatMedium
<1> HIDE DEF m
<1>2. h = [NoHeader EXCEPT !.format_version = 1, !.master_key_size = f.master_key_size,
             !.master_key_validation_hash = hash, !.master_key_salt = "key_salt",
             !.master_key_number_of_iterations = f.number_of_iterations]
  BY <1>1 DEF HeaderValues
<1>3. header = [h EXCEPT !.encryption_method = e, !.encryption_chaining_mode = c,
                         !.initialization_vector_mode = v, !.essiv_hashing_method = x,
                         !.hashing_method = d]
  BY <1>1 DEF WithParsedStrings, m
<1> HIDE DEF hash, h, e, c, v, x, d
<1>4. /\ DOMAIN h = DOMAIN NoHeader /\ h = [i \in DOMAIN h |-> h[i]]
      /\ h.format_version = 1 /\ h.master_key_size = f.master_key_size
      /\ h.master_key_validation_hash = hash /\ h.master_key_salt = "key_salt"
      /\ h.master_key_number_of_iterations = f.number_of_iterations
      /\ h.key_slots_array = <<>>
  BY <1>2 DEF NoHeader
<1>5. DOMAIN NoHeader =
        {"format_version", "encryption_method", "encryption_chaining_mode",
         "initialization_vector_mode", "essiv_hashing_method", "hashing_method",
         "master_key_size", "master_key_validation_hash", "master_key_salt",
         "master_key_number_of_iterations", "key_slots_array"}
  BY DEF NoHeader
<1>6. DOMAIN header = DOMAIN NoHeader /\ header = [i \in DOMAIN header |-> header[i]]
  BY <1>3, <1>4
<1>10. /\ header.format_version = 1 /\ header.master_key_size = f.master_key_size
       /\ header.master_key_validation_hash = hash /\ header.master_key_salt = "key_salt"
       /\ header.master_key_number_of_iterations = f.number_of_iterations
       /\ header.key_slots_array = <<>>
  BY <1>3, <1>4, <1>5
<1>11. header.encryption_method = e /\ header.encryption_chaining_mode = c
  BY <1>3, <1>4, <1>5
<1>12. header.initialization_vector_mode = v /\ header.essiv_hashing_method = x
  BY <1>3, <1>4, <1>5
<1>13. header.hashing_method = d
  BY <1>3, <1>4, <1>5
<1>7. header = [header EXCEPT !.key_slots_array = <<>>]
  <2>1. header = [i \in DOMAIN header |-> header[i]] /\ header.key_slots_array = <<>>
    BY <1>6, <1>10
  <2>2. ASSUME NEW g, g = [i \in DOMAIN g |-> g[i]], g["key_slots_array"] = <<>>
        PROVE  g = [g EXCEPT !["key_slots_array"] = <<>>]
    BY <2>2
  <2>3. QED
    BY <2>1, <2>2
<1>8. HasValuesOf(header, f)
  BY <1>10, <1>11, <1>12, <1>13 DEF HasValuesOf, e, c, v, x, d, hash, m
<1>9. QED
  BY <1>6, <1>7, <1>8

\* The values of a header of which k key slots were read.
LEMMA HeaderFields ==
    ASSUME NEW f, f.format_version = 1, NEW k
    PROVE  /\ HasValuesOf(HeaderRead(f, k), f)
           /\ HeaderRead(f, k).key_slots_array = SlotsRead(f, k)
<1> DEFINE w == WithParsedStrings(HeaderValues(FormatMedium(f)), FormatMedium(f))
           slots == SlotsRead(f, k)
           header == HeaderRead(f, k)
<1>1. header = [w EXCEPT !.key_slots_array = slots]
  BY DEF HeaderRead
<1>2. HasValuesOf(w, f) /\ DOMAIN w = DOMAIN NoHeader
  BY HeaderParsed
<1> HIDE DEF w, slots, header
<1>3. /\ HasValuesOf(header, f)
      /\ header.key_slots_array = slots
  BY <1>1, <1>2 DEF HasValuesOf, NoHeader
<1>4. QED
  BY <1>3 DEF header, slots

LEMMA SlotsOfHeader ==
    ASSUME NEW f, NEW k \in Nat
    PROVE  /\ Len(SlotsRead(f, k)) = k
           /\ Append(SlotsRead(f, k), ReadKeySlotData(FormatMedium(f).key_slots[k + 1]))
                 = SlotsRead(f, k + 1)
<1> DEFINE slot(s) == ReadKeySlotData(FormatMedium(f).key_slots[s])
           R == {slot(s) : s \in 1 .. (k + 1)}
           x == SlotsRead(f, k)
           y == SlotsRead(f, k + 1)
<1>1. /\ x = [s \in 1 .. k |-> slot(s)] /\ y = [s \in 1 .. (k + 1) |-> slot(s)]
      /\ \A s \in 1 .. (k + 1) : slot(s) \in R
  BY DEF SlotsRead
<1> HIDE DEF slot, R, x, y
<1>2. x \in [1 .. k -> R] /\ y \in [1 .. (k + 1) -> R]
  BY <1>1
<1>3. x \in Seq(R) /\ Len(x) = k /\ y \in Seq(R) /\ Len(y) = k + 1
  BY <1>2
<1>4. slot(k + 1) \in R
  BY <1>1
<1>5. \A s \in 1 .. k : x[s] = y[s]
  BY <1>1
<1>6. y[k + 1] = slot(k + 1)
  BY <1>1
<1>7. Append(x, slot(k + 1)) \in Seq(R) /\ Len(Append(x, slot(k + 1))) = k + 1
  BY <1>3, <1>4
<1>8. \A s \in 1 .. (k + 1) : Append(x, slot(k + 1))[s] = y[s]
  BY <1>3, <1>4, <1>5, <1>6
<1>9. Append(x, slot(k + 1)) = y
  BY <1>3, <1>7, <1>8
<1>10. QED
  BY <1>3, <1>9 DEF x, y, slot

LEMMA HeaderStepKeeps ==
    ASSUME HeaderInv, HeaderStep
    PROVE  HeaderInv'
<1>0. format' = format
  BY DEF HeaderStep, others
<1>1. CASE ReadHeader(medium)
  <2>1. /\ ~ IsRefused(medium)
        /\ volume_header' = IF medium.format_version = 1
                            THEN WithParsedStrings(HeaderValues(medium), medium)
                            ELSE HeaderValues(medium)
        /\ header_pc' = IF medium.format_version = 1 THEN "slots" ELSE "done"
    BY <1>1 DEF ReadHeader
  <2>2. medium.format_version = format.format_version
    BY DEF medium, FormatMedium
  <2>3. CASE format.format_version = 1
    <3>1. volume_header' = WithParsedStrings(HeaderValues(medium), medium)
          /\ header_pc' = "slots"
      BY <2>1, <2>2, <2>3
    <3>2. SlotsRead(format, 0) = <<>>
      BY DEF SlotsRead
    <3>3. volume_header' = HeaderRead(format, 0)
      <4>1. HeaderRead(format, 0)
              = [WithParsedStrings(HeaderValues(medium), medium)
                   EXCEPT !.key_slots_array = <<>>]
        BY <3>2 DEF HeaderRead, medium
      <4> DEFINE w == WithParsedStrings(HeaderValues(medium), medium)
      <4>2. w = [w EXCEPT !.key_slots_array = <<>>]
        BY <2>3, HeaderParsed DEF medium
      <4>3. QED
        BY <3>1, <4>1, <4>2
    <3>4. 0 \in 0 .. (NumberOfKeySlots - 1)
      BY SizesAssumption
    <3>5. QED
      BY <1>0, <2>3, <3>1, <3>3, <3>4 DEF HeaderInv, HeaderPlaces
  <2>4. CASE format.format_version # 1
    <3>1. medium.format_version = 2
      BY <2>1, <2>2, <2>4 DEF IsRefused
    <3>2. header_pc' = "done" /\ volume_header' = HeaderValues(medium)
      BY <2>1, <3>1
    <3>3. volume_header' = [NoHeader EXCEPT !.format_version = 2]
      BY <3>1, <3>2 DEF HeaderValues
    <3>4. QED
      BY <3>2, <3>3 DEF HeaderInv, HeaderPlaces
  <2>5. QED
    BY <2>3, <2>4
<1>2. CASE ReadHeaderFails(medium)
  BY <1>2 DEF ReadHeaderFails, HeaderInv, HeaderPlaces
<1>3. CASE ReadKeySlot(medium)
  <2> DEFINE read == Len(volume_header.key_slots_array) + 1
  <2>1. /\ header_pc = "slots"
        /\ volume_header' =
              [volume_header EXCEPT
                 !.key_slots_array =
                     Append(volume_header.key_slots_array,
                            ReadKeySlotData(medium.key_slots[read]))]
        /\ header_pc' = IF read < NumberOfKeySlots THEN "slots" ELSE "done"
    BY <1>3 DEF ReadKeySlot
  <2>2. PICK k \in 0 .. (NumberOfKeySlots - 1) : volume_header = HeaderRead(format, k)
    BY <2>1 DEF HeaderInv
  <2>3. format.format_version = 1 /\ k \in Nat /\ NumberOfKeySlots \in Nat
    BY <2>1, SizesAssumption DEF HeaderInv
  <2>4. volume_header.key_slots_array = SlotsRead(format, k)
    BY <2>2, <2>3, HeaderFields DEF HasValuesOf
  <2>5. read = k + 1
    BY <2>3, <2>4, SlotsOfHeader
  <2>6. Append(volume_header.key_slots_array, ReadKeySlotData(medium.key_slots[read]))
          = SlotsRead(format, k + 1)
    BY <2>3, <2>4, <2>5, SlotsOfHeader DEF medium
  <2>7. volume_header' = HeaderRead(format, k + 1)
    <3>1. volume_header' = [HeaderRead(format, k) EXCEPT
                              !.key_slots_array = SlotsRead(format, k + 1)]
      BY <2>1, <2>2, <2>6
    <3>2. QED
      BY <3>1 DEF HeaderRead
  <2> HIDE DEF read
  <2>8. CASE read < NumberOfKeySlots
    <3>1. k + 1 \in 0 .. (NumberOfKeySlots - 1) /\ header_pc' = "slots"
      BY <2>1, <2>3, <2>5, <2>8
    <3>2. QED
      BY <1>0, <2>3, <2>7, <3>1 DEF HeaderInv, HeaderPlaces
  <2>9. CASE ~(read < NumberOfKeySlots)
    <3>1. k + 1 = NumberOfKeySlots /\ header_pc' = "done"
      BY <2>1, <2>2, <2>3, <2>5, <2>9
    <3>2. QED
      BY <1>0, <2>3, <2>7, <3>1 DEF HeaderInv, HeaderPlaces
  <2>10. QED
    BY <2>8, <2>9
<1>4. CASE ReadKeySlotFails
  BY <1>4 DEF ReadKeySlotFails, HeaderInv, HeaderPlaces
<1>5. QED
  BY <1>1, <1>2, <1>3, <1>4 DEF HeaderStep

\* A header that is read, with a size of key that is used, is that of the format.
LEMMA HeaderKnown ==
    ASSUME HeaderInv, header_pc = "done", volume_header.master_key_size \in 1 .. 16
    PROVE  HeaderOf(format)
<1>1. volume_header # [NoHeader EXCEPT !.format_version = 2]
  BY DEF NoHeader
<1>2. format.format_version = 1 /\ volume_header = HeaderRead(format, NumberOfKeySlots)
  BY <1>1 DEF HeaderInv
<1>3. volume_header.key_slots_array = SlotsRead(format, NumberOfKeySlots)
  BY <1>2, HeaderFields DEF HasValuesOf
<1>4. ASSUME NEW s \in 1 .. NumberOfKeySlots
      PROVE  /\ volume_header.key_slots_array[s].state
                   = IF s = format.enabled_slot THEN "enabled" ELSE "disabled"
             /\ volume_header.key_slots_array[s].salt = "slot_salt"
             /\ volume_header.key_slots_array[s].number_of_iterations
                   = format.number_of_iterations
             /\ volume_header.key_slots_array[s].number_of_stripes
                   = format.number_of_stripes
  <2>1. volume_header.key_slots_array[s]
          = ReadKeySlotData(FormatMedium(format).key_slots[s])
    BY <1>3 DEF SlotsRead
  <2>2. FormatMedium(format).key_slots[s]
          = [state |-> IF s = format.enabled_slot THEN "enabled" ELSE "disabled",
             number_of_iterations |-> format.number_of_iterations,
             salt |-> "slot_salt", start_sector |-> 8,
             number_of_stripes |-> format.number_of_stripes]
    BY DEF FormatMedium
  <2>3. QED
    BY <2>1, <2>2 DEF ReadKeySlotData
<1>5. /\ volume_header.encryption_method = ParseEncryptionMethod(format.encryption_method)
      /\ volume_header.encryption_chaining_mode = ParseChainingMode(format.encryption_mode)
      /\ volume_header.initialization_vector_mode = ParseVectorMode(format.encryption_mode)
      /\ volume_header.essiv_hashing_method
            = ParseEssivHashingMethod(format.encryption_mode)
      /\ volume_header.hashing_method = ParseHashingMethod(format.hashing_method)
      /\ volume_header.master_key_size = format.master_key_size
      /\ volume_header.master_key_validation_hash
            = FormatMedium(format).master_key_validation_hash
      /\ volume_header.master_key_salt = "key_salt"
      /\ volume_header.master_key_number_of_iterations = format.number_of_iterations
  BY <1>2, HeaderFields DEF HasValuesOf
<1>6. QED
  BY <1>4, <1>5 DEF HeaderOf

\* What the invariant says of the key slots of a header.
LEMMA HeaderProperty ==
    ASSUME HeaderInv
    PROVE  HeaderIsWhole
<1>1. NumberOfKeySlots \in Nat /\ Len(<<>>) = 0
  BY SizesAssumption
<1>2. CASE header_pc \in {"idle", "failed"}
  <2>1. volume_header.key_slots_array = <<>>
    BY <1>2 DEF HeaderInv, NoHeader
  <2>2. QED
    BY <1>1, <2>1 DEF HeaderIsWhole
<1>3. CASE header_pc = "done"
  <2>1. CASE volume_header = [NoHeader EXCEPT !.format_version = 2]
    <3>1. volume_header.key_slots_array = <<>>
      BY <2>1 DEF NoHeader
    <3>2. QED
      BY <1>1, <3>1 DEF HeaderIsWhole
  <2>2. CASE /\ format.format_version = 1
             /\ volume_header = HeaderRead(format, NumberOfKeySlots)
    <3>1. volume_header.key_slots_array = SlotsRead(format, NumberOfKeySlots)
      BY <2>2, HeaderFields DEF HasValuesOf
    <3>2. QED
      BY <1>1, <3>1, SlotsOfHeader DEF HeaderIsWhole
  <2>3. QED
    BY <1>3, <2>1, <2>2 DEF HeaderInv
<1>4. QED
  BY <1>2, <1>3 DEF HeaderInv, HeaderPlaces, HeaderIsWhole

-----------------------------------------------------------------------------
(* The encryption context                                                  *)

LEMMA ContextInitInv ==
    ASSUME context = NoContext, ciphers = {}
    PROVE  ContextInv
BY DEF ContextInv, ContextRecord, NoContext, ContextPlaces, CiphersAt

LEMMA ContextFreed ==
    ASSUME FreeContext
    PROVE  ContextInv'
BY DEF FreeContext, ContextInv, ContextRecord, NoContext, ContextPlaces, CiphersAt

\* A call of initialize fails or begins.
LEMMA ContextStarts ==
    ASSUME ContextInv, NEW method, NEW chaining, NEW vector, NEW essiv_hash,
           InitializeContext(method, chaining, vector, essiv_hash)
    PROVE  /\ ContextInv'
           /\ \/ context'.pc = "failed"
              \/ /\ context'.pc = "make_decryption"
                 /\ context'.encryption_mode = EncryptionMode(method, chaining)
                 /\ context'.initialization_vector_mode = vector
                 /\ context'.essiv_hashing_method = essiv_hash
<1>1. context.pc = "idle" /\ ciphers' = {}
  BY DEF InitializeContext, ContextInv, CiphersAt
<1>2. CASE EncryptionMode(method, chaining) = "none"
  <2>1. context' = [NoContext EXCEPT !.pc = "failed"]
    BY <1>2 DEF InitializeContext
  <2>2. QED
    BY <1>1, <2>1 DEF ContextInv, ContextRecord, NoContext, ContextPlaces, CiphersAt
<1>3. CASE EncryptionMode(method, chaining) # "none"
  <2>1. context' = [NoContext EXCEPT
                      !.pc = "make_decryption",
                      !.encryption_mode = EncryptionMode(method, chaining),
                      !.initialization_vector_mode = vector,
                      !.essiv_hashing_method = essiv_hash]
    BY <1>3 DEF InitializeContext
  <2>2. /\ context'.pc = "make_decryption"
        /\ context'.encryption_mode = EncryptionMode(method, chaining)
        /\ context'.initialization_vector_mode = vector
        /\ context'.essiv_hashing_method = essiv_hash
    BY <2>1 DEF NoContext
  <2>3. ContextRecord'
    BY <2>1 DEF ContextRecord, NoContext
  <2>4. QED
    BY <1>1, <2>2, <2>3 DEF ContextInv, ContextPlaces, CiphersAt
<1>4. QED
  BY <1>2, <1>3

\* What the steps of a context leave as it was initialized.
ContextKept ==
    /\ context'.encryption_mode = context.encryption_mode
    /\ context'.initialization_vector_mode = context.initialization_vector_mode
    /\ context'.essiv_hashing_method = context.essiv_hashing_method

LEMMA ContextKeyIsSet ==
    ASSUME ContextInv, NEW key, SetContextKey(key)
    PROVE  /\ ContextInv'
           /\ context.pc = "made" /\ context'.pc = "decryption_key"
           /\ context'.key = key /\ ContextKept
<1>1. /\ context.pc = "made" /\ ciphers' = ciphers
      /\ context' = [context EXCEPT !.pc = "decryption_key", !.key = key,
                                    !.key_size = Len(key)]
  BY DEF SetContextKey
<1>2. ContextRecord
  BY DEF ContextInv
<1>3. /\ context'.pc = "decryption_key" /\ context'.key = key
      /\ context'.key_size = Len(key) /\ ContextKept
  BY <1>1, <1>2 DEF ContextRecord, ContextKept
<1>4. ContextRecord'
  BY <1>1, <1>2 DEF ContextRecord
<1>5. ciphers' = CiphersAt'
  BY <1>1, <1>3 DEF ContextInv, CiphersAt, ContextKept
<1>6. QED
  BY <1>1, <1>3, <1>4, <1>5 DEF ContextInv, ContextPlaces

\* The steps of a context keep its invariant, its modes and its key.
LEMMA ContextStepKeeps ==
    ASSUME ContextInv, ContextStep
    PROVE  /\ ContextInv'
           /\ context.pc \notin {"idle", "failed", "made", "ready", "unkeyed"}
           /\ context'.pc # "idle"
           /\ \/ context'.pc = "failed"
              \/ /\ ContextKept
                 /\ Keyed' => Keyed /\ context'.key = context.key
<1>0. ContextRecord
  BY DEF ContextInv
<1>1. CASE MakeDecryption
  <2>1. /\ context.pc = "make_decryption"
        /\ context' = [context EXCEPT !.pc = "make_encryption"]
        /\ ciphers' = ciphers \cup {"decryption"}
    BY <1>1 DEF MakeDecryption
  <2>2. /\ context'.pc = "make_encryption"
        /\ context'.encryption_mode = context.encryption_mode
        /\ context'.initialization_vector_mode = context.initialization_vector_mode
        /\ context'.essiv_hashing_method = context.essiv_hashing_method
        /\ context'.key = context.key
        /\ context'.key_size = context.key_size
        /\ context'.decryption = context.decryption
        /\ context'.encryption = context.encryption
        /\ context'.essiv = context.essiv
    BY <1>0, <2>1 DEF ContextRecord
  <2>3. ContextRecord'
    BY <1>0, <2>1 DEF ContextRecord
  <2>4. ciphers' = CiphersAt'
    BY <2>1, <2>2 DEF ContextInv, CiphersAt
  <2>5. QED
    BY <2>1, <2>2, <2>3, <2>4
       DEF ContextInv, ContextPlaces, ContextKept, Keyed, CipherKey, EssivKey, KeySizeOf
<1>2. CASE MakeEncryption
  <2>1. /\ context.pc = "make_encryption"
        /\ context' = [context EXCEPT
                       !.pc = IF context.initialization_vector_mode = "ESSIV"
                              THEN "make_essiv" ELSE "made"]
        /\ ciphers' = ciphers \cup {"encryption"}
    BY <1>2 DEF MakeEncryption
  <2>2. /\ context'.pc = IF context.initialization_vector_mode = "ESSIV"
                        THEN "make_essiv" ELSE "made"
        /\ context'.encryption_mode = context.encryption_mode
        /\ context'.initialization_vector_mode = context.initialization_vector_mode
        /\ context'.essiv_hashing_method = context.essiv_hashing_method
        /\ context'.key = context.key
        /\ context'.key_size = context.key_size
        /\ context'.decryption = context.decryption
        /\ context'.encryption = context.encryption
        /\ context'.essiv = context.essiv
    BY <1>0, <2>1 DEF ContextRecord
  <2>3. ContextRecord'
    BY <1>0, <2>1 DEF ContextRecord
  <2>4. ciphers' = CiphersAt'
    BY <2>1, <2>2 DEF ContextInv, CiphersAt
  <2>5. QED
    BY <2>1, <2>2, <2>3, <2>4
       DEF ContextInv, ContextPlaces, ContextKept, Keyed, CipherKey, EssivKey, KeySizeOf
<1>3. CASE MakeEssiv
  <2>1. /\ context.pc = "make_essiv"
        /\ context' = [context EXCEPT !.pc = "made"]
        /\ ciphers' = ciphers \cup {"essiv"}
    BY <1>3 DEF MakeEssiv
  <2>2. /\ context'.pc = "made"
        /\ context'.encryption_mode = context.encryption_mode
        /\ context'.initialization_vector_mode = context.initialization_vector_mode
        /\ context'.essiv_hashing_method = context.essiv_hashing_method
        /\ context'.key = context.key
        /\ context'.key_size = context.key_size
        /\ context'.decryption = context.decryption
        /\ context'.encryption = context.encryption
        /\ context'.essiv = context.essiv
    BY <1>0, <2>1 DEF ContextRecord
  <2>3. ContextRecord'
    BY <1>0, <2>1 DEF ContextRecord
  <2>4. ciphers' = CiphersAt'
    BY <2>1, <2>2 DEF ContextInv, CiphersAt
  <2>5. QED
    BY <2>1, <2>2, <2>3, <2>4
       DEF ContextInv, ContextPlaces, ContextKept, Keyed, CipherKey, EssivKey, KeySizeOf
<1>4. CASE SetEncryptionKey
  <2>1. /\ context.pc = "encryption_key"
        /\ context' = [context EXCEPT
                       !.pc = IF context.initialization_vector_mode = "ESSIV"
                              THEN "essiv_key" ELSE "ready",
                       !.encryption = CipherKey(context.key_size)]
        /\ ciphers' = ciphers
    BY <1>4 DEF SetEncryptionKey
  <2>2. /\ context'.pc = IF context.initialization_vector_mode = "ESSIV"
                        THEN "essiv_key" ELSE "ready"
        /\ context'.encryption_mode = context.encryption_mode
        /\ context'.initialization_vector_mode = context.initialization_vector_mode
        /\ context'.essiv_hashing_method = context.essiv_hashing_method
        /\ context'.key = context.key
        /\ context'.key_size = context.key_size
        /\ context'.decryption = context.decryption
        /\ context'.encryption = CipherKey(context.key_size)
        /\ context'.essiv = context.essiv
    BY <1>0, <2>1 DEF ContextRecord
  <2>3. ContextRecord'
    BY <1>0, <2>1 DEF ContextRecord
  <2>4. ciphers' = CiphersAt'
    BY <2>1, <2>2 DEF ContextInv, CiphersAt
  <2>5. CipherKey(context.key_size)' = CipherKey(context.key_size)
    BY <2>2 DEF CipherKey
  <2>6. /\ context.key_size = KeySizeOf(context.encryption_mode, Len(context.key))
        /\ context.decryption = CipherKey(context.key_size)
    BY <2>1 DEF ContextInv
  <2>7. /\ context'.key_size = KeySizeOf(context'.encryption_mode, Len(context'.key))
        /\ context'.decryption = CipherKey(context.key_size)'
        /\ context'.encryption = context'.decryption
    BY <2>2, <2>5, <2>6
  <2>8. context'.pc = "essiv_key" => context'.initialization_vector_mode = "ESSIV"
    BY <2>2
  <2>9. context'.pc = "ready" => context'.initialization_vector_mode # "ESSIV"
    BY <2>2
  <2>10. context'.pc \in {"essiv_key", "ready"}
    BY <2>2
  <2>11. ContextInv'
    BY <2>3, <2>4, <2>7, <2>8, <2>9, <2>10 DEF ContextInv, ContextPlaces
  <2>12. QED
    BY <2>1, <2>2, <2>11 DEF ContextKept, Keyed
<1>5. CASE SetEssivKey
  <2>1. /\ context.pc = "essiv_key"
        /\ context' = [context EXCEPT !.pc = "ready", !.essiv = <<EssivKey>>]
        /\ ciphers' = ciphers
    BY <1>5 DEF SetEssivKey
  <2>2. /\ context'.pc = "ready"
        /\ context'.encryption_mode = context.encryption_mode
        /\ context'.initialization_vector_mode = context.initialization_vector_mode
        /\ context'.essiv_hashing_method = context.essiv_hashing_method
        /\ context'.key = context.key
        /\ context'.key_size = context.key_size
        /\ context'.decryption = context.decryption
        /\ context'.encryption = context.encryption
        /\ context'.essiv = <<EssivKey>>
    BY <1>0, <2>1 DEF ContextRecord
  <2>3. ContextRecord'
    BY <1>0, <2>1 DEF ContextRecord
  <2>4. ciphers' = CiphersAt'
    BY <2>1, <2>2 DEF ContextInv, CiphersAt
  <2>5. QED
    BY <2>1, <2>2, <2>3, <2>4
       DEF ContextInv, ContextPlaces, ContextKept, Keyed, CipherKey, EssivKey, KeySizeOf
<1>6. CASE SetContextKeyFails
  <2>1. /\ context.pc \in {"decryption_key", "encryption_key", "essiv_key"}
        /\ context' = [context EXCEPT !.pc = "unkeyed"]
        /\ ciphers' = ciphers
    BY <1>6 DEF SetContextKeyFails
  <2>2. /\ context'.pc = "unkeyed"
        /\ context'.encryption_mode = context.encryption_mode
        /\ context'.initialization_vector_mode = context.initialization_vector_mode
        /\ context'.essiv_hashing_method = context.essiv_hashing_method
        /\ context'.key = context.key
        /\ context'.key_size = context.key_size
        /\ context'.decryption = context.decryption
        /\ context'.encryption = context.encryption
        /\ context'.essiv = context.essiv
    BY <1>0, <2>1 DEF ContextRecord
  <2>3. ContextRecord'
    BY <1>0, <2>1 DEF ContextRecord
  <2>4. ciphers' = CiphersAt'
    BY <2>1, <2>2 DEF ContextInv, CiphersAt
  <2>5. QED
    BY <2>1, <2>2, <2>3, <2>4
       DEF ContextInv, ContextPlaces, ContextKept, Keyed, CipherKey, EssivKey, KeySizeOf
<1>7. CASE SetDecryptionKey
  <2> DEFINE size == KeySizeOf(context.encryption_mode, context.key_size)
  <2>1. /\ context.pc = "decryption_key"
        /\ context' = [context EXCEPT !.pc = "encryption_key", !.key_size = size,
                                      !.decryption = CipherKey(size)]
        /\ ciphers' = ciphers
    BY <1>7 DEF SetDecryptionKey, KeySizeOf
  <2> HIDE DEF size
  <2>2. /\ context'.pc = "encryption_key"
        /\ context'.encryption_mode = context.encryption_mode
        /\ context'.initialization_vector_mode = context.initialization_vector_mode
        /\ context'.essiv_hashing_method = context.essiv_hashing_method
        /\ context'.key = context.key
        /\ context'.key_size = size
        /\ context'.decryption = CipherKey(size)
        /\ context'.encryption = context.encryption
        /\ context'.essiv = context.essiv
    BY <1>0, <2>1 DEF ContextRecord
  <2>3. ContextRecord'
    BY <1>0, <2>1 DEF ContextRecord
  <2>4. ciphers' = CiphersAt'
    BY <2>1, <2>2 DEF ContextInv, CiphersAt
  <2>5. size = KeySizeOf(context.encryption_mode, Len(context.key))
    BY <2>1 DEF ContextInv, size
  <2>6. QED
    BY <2>1, <2>2, <2>3, <2>4, <2>5
       DEF ContextInv, ContextPlaces, ContextKept, Keyed, CipherKey
<1>8. CASE InitializeContextFails
  <2>1. /\ context.pc \in {"make_decryption", "make_encryption", "make_essiv"}
        /\ context' = [NoContext EXCEPT !.pc = "failed"]
        /\ ciphers' = ciphers \ {"decryption", "encryption"}
    BY <1>8 DEF InitializeContextFails, FreeOnError
  <2>2. ciphers' = {}
    BY <2>1 DEF ContextInv, CiphersAt
  <2>3. QED
    BY <2>1, <2>2 DEF ContextInv, ContextRecord, NoContext, ContextPlaces, CiphersAt
<1>9. QED
  BY <1>1, <1>2, <1>3, <1>4, <1>5, <1>6, <1>7, <1>8 DEF ContextStep

\* What the invariant says of the cipher contexts, and of the two directions.
LEMMA ContextProperties ==
    ASSUME ContextInv
    PROVE  CiphersBelongToContext /\ ContextDirectionsAgree
<1>1. CiphersBelongToContext
  BY DEF ContextInv, CiphersAt, CiphersBelongToContext
<1>2. ContextDirectionsAgree
  BY DEF ContextInv, ContextDirectionsAgree, DirectionsAgree, Decrypt, Encrypt, Under
<1>3. QED
  BY <1>1, <1>2

\* A context that is ready, made for a format and a key.
ContextOf(f, key) ==
    /\ context.pc = "ready"
    /\ context.encryption_mode =
          EncryptionMode(ParseEncryptionMethod(f.encryption_method),
                         ParseChainingMode(f.encryption_mode))
    /\ context.initialization_vector_mode = ParseVectorMode(f.encryption_mode)
    /\ context.essiv_hashing_method = ParseEssivHashingMethod(f.encryption_mode)
    /\ context.key = key

\* The strings of a known format are known to the code.
LEMMA KnownStrings ==
    ASSUME NEW f, KnownFormat(f)
    PROVE  /\ ParseEncryptionMethod(f.encryption_method) = f.encryption_method
           /\ ChainingIsKnown(f.encryption_mode)
           /\ ParseChainingMode(f.encryption_mode) = f.encryption_mode.chaining
<1>1. EncryptionMode(f.encryption_method, f.encryption_mode.chaining) # "none"
  BY DEF KnownFormat
<1>2. /\ f.encryption_method \in {"aes", "arc4", "blowfish", "serpent"}
      /\ f.encryption_mode.chaining \in {"cbc", "ecb", "xts"}
  BY <1>1 DEF EncryptionMode
<1>3. \/ f.encryption_mode.chaining = "ecb" /\ f.encryption_mode.options = ""
      \/ f.encryption_mode.chaining # "ecb" /\ f.encryption_mode.options # ""
  BY DEF KnownFormat
<1>4. ChainingIsKnown(f.encryption_mode)
  BY <1>2, <1>3 DEF ChainingIsKnown
<1>5. QED
  BY <1>2, <1>4 DEF ParseEncryptionMethod, ParseChainingMode

\* The keys of the ciphers are those of the format.
LEMMA KnownKeys ==
    ASSUME NEW f, KnownFormat(f), NEW key, f.master_key_size \in Nat,
           IsSequenceOf(key, f.master_key_size), ContextInv, ContextOf(f, key)
    PROVE  context.decryption =
             IF context.encryption_mode = "AES_XTS"
             THEN <<SubSeq(key, 1, f.master_key_size \div 2),
                    SubSeq(key, (f.master_key_size \div 2) + 1,
                           2 * (f.master_key_size \div 2))>>
             ELSE <<key>>
<1> DEFINE size == f.master_key_size
<1>1. Len(key) = size
  BY SequenceLength
<1>2. /\ context.key_size = KeySizeOf(context.encryption_mode, size)
      /\ context.decryption = CipherKey(context.key_size)
      /\ context.key = key
  BY <1>1 DEF ContextInv, ContextOf
<1>3. CASE context.encryption_mode = "AES_XTS"
  BY <1>2, <1>3 DEF CipherKey, KeySizeOf
<1>4. CASE context.encryption_mode # "AES_XTS"
  <2>1. context.decryption = <<SubSeq(key, 1, size)>>
    BY <1>2, <1>4 DEF CipherKey, KeySizeOf
  <2>2. QED
    BY <1>4, <2>1, SequenceWhole
<1>5. QED
  BY <1>3, <1>4

\* The key of the sector salt is a whole digest for a key of 32 bytes.
LEMMA WholeSalt ==
    ASSUME NEW key, IsSequenceOf(key, 8), context.key = key, context.key_size = 8,
           context.essiv_hashing_method = "sha256"
    PROVE  EssivKey = Digest("sha256", key)
<1> DEFINE hash == Digest("sha256", key)
<1>1. SubSeq(key, 1, 8) = key
  <2>1. 8 \in Nat
    OBVIOUS
  <2>2. QED
    BY <2>1, SequenceWhole
<1>2. IsSequenceOf(hash, 8) /\ IsSequenceOf(Zeros(8), 8)
  <2>1. HashSize["sha256"] = 8
    BY DEF HashSize
  <2>2. QED
    BY <2>1, DigestIsSequence, ZerosAreSequence
<1>3. EssivKey = SubSeq(hash \o Zeros(8), 1, 8)
  BY <1>1 DEF EssivKey
<1>4. SubSeq(hash \o Zeros(8), 1, 8) = hash
  <2> HIDE DEF hash
  <2>1. 8 \in Nat
    OBVIOUS
  <2>2. QED
    BY <1>2, <2>1, SequenceCut
<1>5. QED
  BY <1>3, <1>4

\* A number of a sector, in which no vector overflows.
SectorFits(sector) == sector \in Nat /\ (sector * 32) + 1 < LongSize

\* The vector of a sector is the one the format's description names.
LEMMA KnownVectors ==
    ASSUME NEW f, KnownFormat(f), NEW key, f.master_key_size \in Nat,
           IsSequenceOf(key, f.master_key_size), ContextInv, ContextOf(f, key),
           NEW sector, SectorFits(sector)
    PROVE  /\ CryptSucceeds
           /\ VectorOfMode(context.encryption_mode,
                           SectorVector(context.initialization_vector_mode,
                                        context.essiv, sector))
                = VectorOfMode(context.encryption_mode, FormatVector(f, key, sector))
<1> DEFINE options == f.encryption_mode.options
           mode == context.encryption_mode
           vector == context.initialization_vector_mode
<1>1. /\ mode = EncryptionMode(f.encryption_method, f.encryption_mode.chaining)
      /\ ChainingIsKnown(f.encryption_mode)
      /\ vector = ParseVectorMode(f.encryption_mode)
  BY KnownStrings DEF ContextOf
<1>2. /\ sector \in Nat /\ LongSize \in Nat \ {0} /\ sector < LongSize
      /\ sector % LongSize = sector
      /\ ((sector * 32) + 1) % LongSize = (sector * 32) + 1
  BY SizesAssumption DEF SectorFits
<1>3. CASE f.encryption_mode.chaining = "ecb" /\ options = ""
  <2>1. vector = "NONE"
    BY <1>1, <1>3 DEF ParseVectorMode
  <2>2. mode \notin {"AES_CBC", "AES_XTS", "SERPENT_CBC", "BLOWFISH_CBC"}
    BY <1>1, <1>3 DEF EncryptionMode
  <2>3. QED
    BY <2>1, <2>2 DEF VectorOfMode, CryptSucceeds, VectorIsKnown
<1>4. CASE options = "null"
  <2>1. vector = "NULL"
    BY <1>1, <1>4 DEF ParseVectorMode
  <2>2. QED
    BY <1>4, <2>1 DEF SectorVector, FormatVector, CryptSucceeds, VectorIsKnown
<1>5. CASE options = "plain"
  <2>1. vector = "PLAIN32"
    BY <1>1, <1>5 DEF ParseVectorMode
  <2>2. QED
    BY <1>5, <2>1 DEF SectorVector, FormatVector, CryptSucceeds, VectorIsKnown
<1>6. CASE options = "plain64"
  <2>1. vector = "PLAIN64"
    BY <1>1, <1>6 DEF ParseVectorMode
  <2>2. QED
    BY <1>2, <1>6, <2>1 DEF SectorVector, FormatVector, CryptSucceeds, VectorIsKnown
<1>7. CASE options = "benbi" /\ f.encryption_method # "blowfish"
  <2>1. vector = "BENBI"
    BY <1>1, <1>7 DEF ParseVectorMode
  <2>2. QED
    BY <1>2, <1>7, <2>1 DEF SectorVector, FormatVector, CryptSucceeds, VectorIsKnown
<1>8. CASE options = "essiv:sha256" /\ mode = "AES_CBC" /\ f.master_key_size = 8
  <2>1. vector = "ESSIV"
    BY <1>1, <1>8 DEF ParseVectorMode
  <2>2. context.essiv_hashing_method = "sha256"
    BY <1>1, <1>8 DEF ParseEssivHashingMethod, ContextOf
  <2>3. Len(key) = 8 /\ context.key = key
    BY <1>8, SequenceLength DEF ContextOf
  <2>4. context.key_size = 8 /\ context.essiv = <<EssivKey>>
    BY <1>8, <2>1, <2>3 DEF ContextInv, ContextOf, KeySizeOf
  <2>5. EssivKey = Digest("sha256", key)
    BY <1>8, <2>2, <2>3, <2>4, WholeSalt
  <2>6. QED
    BY <1>8, <2>1, <2>4, <2>5 DEF SectorVector, FormatVector, CryptSucceeds, VectorIsKnown
<1>9. QED
  BY <1>1, <1>3, <1>4, <1>5, <1>6, <1>7, <1>8 DEF KnownFormat

\* A sector of the medium is decrypted by a context of its format and key.
LEMMA ContextDecrypts ==
    ASSUME NEW f, KnownFormat(f), NEW key, f.master_key_size \in Nat,
           IsSequenceOf(key, f.master_key_size), ContextInv, ContextOf(f, key),
           NEW sector, SectorFits(sector), NEW plaintext, NEW garbage
    PROVE  Decrypt(FormatSector(f, key, sector, plaintext), sector, garbage) = plaintext
<1>1. context.encryption_mode
        = EncryptionMode(f.encryption_method, f.encryption_mode.chaining)
  BY KnownStrings DEF ContextOf
<1>2. FormatSector(f, key, sector, plaintext).plaintext = plaintext
  BY DEF FormatSector
<1>3. FormatSector(f, key, sector, plaintext).under
        = <<context.encryption_mode, context.decryption,
            VectorOfMode(context.encryption_mode, FormatVector(f, key, sector))>>
  BY <1>1, KnownKeys DEF FormatSector
<1>4. FormatSector(f, key, sector, plaintext).under = Under(context.decryption, sector)
  BY <1>3, KnownVectors DEF Under
<1>5. QED
  BY <1>2, <1>4 DEF Decrypt

-----------------------------------------------------------------------------
(* What a step changes                                                     *)

\* The medium and the password stay what they are.
LEMMA FormatKept ==
    ASSUME [Next]_vars
    PROVE  format' = format /\ user_password' = user_password
BY DEF Next, OpenStep, vars, others, HeaderStep, CheckHeader, CheckHeaderFails,
       KdfStep, HashMasterKey, CheckKey, NextSlot, DeriveUserKey, UserKeyContext,
       ContextSteps, SetKeyOfContext, DecryptMaterialSector, MergeMaterial,
       MergeSteps, MasterKeyMerged, CheckSlot, VolumeContext, StaysLocked,
       Unlocked, KeysFail, ReadSector, Finished

LEMMA HeaderChanges ==
    ASSUME [Next]_vars
    PROVE  (volume_header' = volume_header /\ header_pc' = header_pc) \/ HeaderStep
BY DEF Next, OpenStep, vars, headerVars, components, CheckHeader, CheckHeaderFails,
       KdfStep, HashMasterKey, CheckKey, NextSlot, DeriveUserKey, UserKeyContext,
       ContextSteps, SetKeyOfContext, DecryptMaterialSector, MergeMaterial,
       MergeSteps, MasterKeyMerged, CheckSlot, VolumeContext, StaysLocked,
       Unlocked, KeysFail, ReadSector, Finished

\* A key is derived by the steps of pbkdf2, between a call and its end.
LEMMA KdfChanges ==
    ASSUME [Next]_vars
    PROVE  kdf' = kdf \/ kdf' = KdfIdle \/ KdfStep \/ HashMasterKey \/ DeriveUserKey
BY DEF Next, OpenStep, vars, components, HeaderStep, CheckHeader, CheckHeaderFails,
       CheckKey, NextSlot, UserKeyContext,
       ContextSteps, SetKeyOfContext, DecryptMaterialSector, MergeMaterial,
       MergeSteps, MasterKeyMerged, CheckSlot, VolumeContext, StaysLocked,
       Unlocked, KeysFail, ReadSector, Finished

LEMMA MergeChanges ==
    ASSUME [Next]_vars
    PROVE  merge' = merge \/ merge' = MergeIdle \/ MergeSteps \/ MergeMaterial
BY DEF Next, OpenStep, vars, components, HeaderStep, CheckHeader, CheckHeaderFails,
       KdfStep, HashMasterKey, CheckKey, NextSlot, DeriveUserKey, UserKeyContext,
       ContextSteps, SetKeyOfContext, DecryptMaterialSector,
       MasterKeyMerged, CheckSlot, VolumeContext, StaysLocked,
       Unlocked, KeysFail, ReadSector, Finished

LEMMA ContextChanges ==
    ASSUME [Next]_vars
    PROVE  \/ context' = context /\ ciphers' = ciphers
           \/ FreeContext /\ stage' \in {"failed", "merge"}
           \/ ContextSteps \/ SetKeyOfContext \/ UserKeyContext \/ VolumeContext
BY DEF Next, OpenStep, vars, components, contextVars, HeaderStep, CheckHeader,
       CheckHeaderFails, KdfStep, HashMasterKey, CheckKey, NextSlot, DeriveUserKey,
       DecryptMaterialSector, MergeMaterial, Fail,
       MergeSteps, MasterKeyMerged, CheckSlot, StaysLocked,
       Unlocked, KeysFail, ReadSector, Finished

\* The places of open_read_keys, and where each is reached from.
LEMMA StageChanges ==
    ASSUME [Next]_vars
    PROVE  \/ stage' = stage
           \/ CheckHeader \/ CheckHeaderFails \/ CheckKey \/ NextSlot
           \/ UserKeyContext \/ MergeMaterial \/ MasterKeyMerged \/ CheckSlot
           \/ VolumeContext \/ StaysLocked \/ Unlocked \/ KeysFail
BY DEF Next, OpenStep, vars, keyVars, HeaderStep,
       KdfStep, HashMasterKey, DeriveUserKey, ContextSteps, SetKeyOfContext,
       DecryptMaterialSector, MergeSteps, ReadSector, Finished

-----------------------------------------------------------------------------
(* The header and the key slots while the keys are read                    *)

LEMMA HeaderInvKept ==
    ASSUME IInv, [Next]_vars
    PROVE  HeaderInv'
<1>1. format' = format /\ HeaderInv /\ format \in Formats
  BY FormatKept DEF IInv
<1>2. CASE HeaderStep
  BY <1>1, <1>2, HeaderStepKeeps
<1>3. CASE volume_header' = volume_header /\ header_pc' = header_pc
  BY <1>1, <1>3 DEF HeaderInv
<1>4. QED
  BY <1>2, <1>3, HeaderChanges

\* The key slot that is tried is as the format has it.
LEMMA SlotOfFormat ==
    ASSUME HeaderOf(format), key_slot \in 0 .. NumberOfKeySlots,
           key_slot < NumberOfKeySlots
    PROVE  /\ Slot.state
                = IF key_slot + 1 = format.enabled_slot THEN "enabled" ELSE "disabled"
           /\ Slot.salt = "slot_salt"
           /\ Slot.number_of_iterations = format.number_of_iterations
           /\ Slot.number_of_stripes = format.number_of_stripes
<1>1. key_slot + 1 \in 1 .. NumberOfKeySlots
  BY SizesAssumption
<1>2. QED
  BY <1>1 DEF HeaderOf, Slot

-----------------------------------------------------------------------------
(* Deriving keys                                                           *)

LEMMA KdfFreed ==
    ASSUME kdf' = KdfIdle
    PROVE  KdfInv' /\ ~ KdfRuns'
BY DEF KdfInv, KdfRecord, KdfIdle, KdfPlaces, KdfRuns

\* A call for the validation hash, and one for a user key.
LEMMA HashIsCalled ==
    ASSUME IInv, HashMasterKey
    PROVE  KdfInv' /\ KdfCalled'
<1>1. /\ stage \in {"check_key", "check_slot"} /\ stage' = stage
      /\ format' = format /\ master_key' = master_key /\ KdfInv
  BY DEF HashMasterKey, keyVars, others, IInv
<1>2. HeaderOf(format) /\ format \in Formats
  BY <1>1 DEF IInv, StageInv
<1>3. Pbkdf2(master_key, volume_header.hashing_method, "key_salt",
             format.number_of_iterations, 5)
  BY <1>2 DEF HashMasterKey, HeaderOf
<1>4. format.number_of_iterations \in Nat /\ 5 \in Nat
  BY <1>2, FormatFacts
<1>5. /\ KdfInv'
      /\ \/ kdf'.pc = "failed"
         \/ /\ kdf'.pc = "block"
            /\ kdf'.password = master_key /\ kdf'.method = volume_header.hashing_method
            /\ kdf'.salt = "key_salt"
            /\ kdf'.number_of_iterations = format.number_of_iterations
            /\ kdf'.output_data_offset + kdf'.output_data_size = 5
  BY <1>1, <1>3, <1>4, KdfStarts
<1>6. volume_header.hashing_method = ParseHashingMethod(format.hashing_method)
  BY <1>2 DEF HeaderOf
<1>7. KdfCalled'
  BY <1>1, <1>5, <1>6 DEF KdfCalled, KdfRuns
<1>8. QED
  BY <1>5, <1>7

LEMMA UserKeyIsCalled ==
    ASSUME IInv, DeriveUserKey
    PROVE  KdfInv' /\ KdfCalled'
<1>1. /\ stage = "user_key" /\ stage' = stage /\ user_password' = user_password
      /\ format' = format /\ master_key' = master_key /\ KdfInv
  BY DEF DeriveUserKey, keyVars, others, IInv
<1>2. /\ HeaderOf(format) /\ format \in Formats
      /\ key_slot \in 0 .. NumberOfKeySlots /\ key_slot < NumberOfKeySlots
  BY <1>1 DEF IInv, StageInv, SlotStages
<1>3. Slot.salt = "slot_salt" /\ Slot.number_of_iterations = format.number_of_iterations
  BY <1>2, SlotOfFormat
<1>4. Pbkdf2(user_password, volume_header.hashing_method, "slot_salt",
             format.number_of_iterations, format.master_key_size)
  BY <1>2, <1>3 DEF DeriveUserKey, HeaderOf
<1>5. format.number_of_iterations \in Nat /\ format.master_key_size \in Nat
  BY <1>2, FormatFacts
<1>6. /\ KdfInv'
      /\ \/ kdf'.pc = "failed"
         \/ /\ kdf'.pc = "block"
            /\ kdf'.password = user_password
            /\ kdf'.method = volume_header.hashing_method
            /\ kdf'.salt = "slot_salt"
            /\ kdf'.number_of_iterations = format.number_of_iterations
            /\ kdf'.output_data_offset + kdf'.output_data_size = format.master_key_size
  BY <1>1, <1>4, <1>5, KdfStarts
<1>7. volume_header.hashing_method = ParseHashingMethod(format.hashing_method)
  BY <1>2 DEF HeaderOf
<1>8. KdfCalled'
  BY <1>1, <1>6, <1>7 DEF KdfCalled, KdfRuns
<1>9. QED
  BY <1>6, <1>8

\* While a key is derived nothing else changes what it is derived from.
LEMMA KdfWaits ==
    ASSUME IInv, [Next]_vars, kdf' = kdf, kdf.pc # "idle"
    PROVE  stage' = stage /\ master_key' = master_key
<1>1. stage \in {"check_key", "user_key", "check_slot"} /\ kdf' # KdfIdle
  BY DEF IInv, StageInv, KdfIdle
<1>2. QED
  BY <1>1 DEF Next, OpenStep, vars, keyVars, HeaderStep, CheckHeader, CheckHeaderFails,
       KdfStep, HashMasterKey, CheckKey, NextSlot, DeriveUserKey, UserKeyContext,
       ContextSteps, SetKeyOfContext, DecryptMaterialSector, MergeMaterial,
       MergeSteps, MasterKeyMerged, CheckSlot, VolumeContext, StaysLocked,
       Unlocked, KeysFail, ReadSector, Finished

LEMMA KdfInvKept ==
    ASSUME IInv, [Next]_vars
    PROVE  KdfInv' /\ KdfCalled'
<1>1. format' = format /\ user_password' = user_password /\ KdfInv /\ KdfCalled
  BY FormatKept DEF IInv
<1>2. CASE kdf' = kdf
  <2>1. KdfInv'
    BY <1>1, <1>2 DEF KdfInv, KdfRecord, KdfRuns, KdfBounds, KdfDerived, KdfBlock
  <2>2. KdfCalled'
    BY <1>1, <1>2, KdfWaits DEF KdfCalled, KdfRuns
  <2>3. QED
    BY <2>1, <2>2
<1>3. CASE kdf' = KdfIdle
  BY <1>3, KdfFreed DEF KdfCalled
<1>4. CASE KdfStep
  <2>1. Pbkdf2Step /\ stage' = stage /\ master_key' = master_key
    BY <1>4 DEF KdfStep, keyVars
  <2>2. KdfInv' /\ (kdf'.pc = "failed" \/ (KdfRuns /\ KdfCallKept))
    BY <1>1, <2>1, KdfSteps
  <2>3. KdfCalled'
    BY <1>1, <2>1, <2>2 DEF KdfCalled, KdfRuns, KdfCallKept
  <2>4. QED
    BY <2>2, <2>3
<1>5. CASE HashMasterKey
  BY <1>5, HashIsCalled
<1>6. CASE DeriveUserKey
  BY <1>6, UserKeyIsCalled
<1>7. QED
  BY <1>2, <1>3, <1>4, <1>5, <1>6, KdfChanges

-----------------------------------------------------------------------------
(* Merging the stripes                                                     *)

LEMMA KeyIsSequence ==
    ASSUME NEW f, f.master_key_size \in Nat
    PROVE  IsSequenceOf(MasterKeyOf(f), f.master_key_size)
BY DEF MasterKeyOf, Token, IsSequenceOf

LEMMA RandomAreStripes ==
    ASSUME NEW f, f.number_of_stripes \in Nat \ {0}
    PROVE  AreStripes(RandomStripes(f), f.master_key_size, f.number_of_stripes - 1)
<1> DEFINE n == f.number_of_stripes - 1
           random == RandomStripes(f)
<1>1. n \in Nat /\ random = [s \in 1 .. n |-> [i \in 1 .. f.master_key_size |->
                                                    {<<"random", s, i>>}]]
  BY DEF RandomStripes
<1>2. IsSequenceOf(random, n)
  BY <1>1 DEF IsSequenceOf
<1>3. \A k \in 1 .. n : IsSequenceOf(random[k], f.master_key_size)
  BY <1>1 DEF IsSequenceOf
<1> HIDE DEF n, random
<1>4. Len(random) = n
  BY <1>1, <1>2, SequenceLength
<1>5. QED
  BY <1>3, <1>4 DEF AreStripes, n, random

LEMMA MergeFreed ==
    ASSUME merge' = MergeIdle
    PROVE  MergeInv' /\ ~ MergeRuns'
BY DEF MergeInv, MergeRecord, MergeIdle, MergePlaces, MergeRuns

\* The key material is merged as what the format says it is.
LEMMA MergeIsCalled ==
    ASSUME IInv, MergeMaterial
    PROVE  MergeInv' /\ MergeCalled' /\ MergeOfKey'
<1> DEFINE size == format.master_key_size
           n == format.number_of_stripes
<1>1. /\ stage = "material" /\ MergeInv /\ format \in Formats
      /\ format' = format /\ HeaderOf(format) /\ n # 0
      /\ key_slot \in 0 .. NumberOfKeySlots /\ key_slot < NumberOfKeySlots
  BY DEF MergeMaterial, others, IInv, StageInv, SlotStages
<1>2. size \in Nat /\ n \in Nat \ {0}
  BY <1>1, FormatFacts
<1>3. Slot.number_of_stripes = n
  BY <1>1, SlotOfFormat
<1>4. Merge(split_master_key_data, size, n, volume_header.hashing_method)
  BY <1>1, <1>3 DEF MergeMaterial, HeaderOf
<1>5. Len(split_master_key_data) \in Nat
  BY SequenceLength DEF IInv, KeyInv
<1>6. /\ MergeInv'
      /\ \/ merge'.pc = "failed"
         \/ /\ merge'.pc = "stripe" /\ size \in Nat \ {0}
            /\ merge'.split_data = split_master_key_data
            /\ merge'.number_of_stripes = n
            /\ merge'.method = volume_header.hashing_method
            /\ merge'.data = Zeros(size) /\ Len(merge'.data) = size
            /\ merge'.stripe_iterator = 0
  BY <1>1, <1>4, <1>5, MergeStarts
<1>7. CASE merge'.pc = "failed"
  BY <1>6, <1>7 DEF MergeCalled, MergeOfKey, MergeRuns
<1>8. CASE merge'.pc = "stripe"
  <2>1. MergeCalled'
    BY <1>1, <1>6, <1>8 DEF MergeCalled, HeaderOf
  <2>2. AreStripes(RandomStripes(format), size, n - 1) /\ n - 1 \in Nat
    BY <1>2, RandomAreStripes
  <2>3. MergeFollows(format.hashing_method, size, MasterKeyOf(format),
                     RandomStripes(format))'
    BY <1>1, <1>2, <1>6, <1>8, <2>2, MergeBegins
  <2>4. MergeOfKey'
    BY <1>1, <2>3 DEF MergeOfKey
  <2>5. QED
    BY <1>6, <2>1, <2>4
<1>9. QED
  BY <1>6, <1>7, <1>8

LEMMA MergeInvKept ==
    ASSUME IInv, [Next]_vars
    PROVE  MergeInv' /\ MergeCalled' /\ MergeOfKey'
<1> DEFINE m == format.hashing_method
           size == format.master_key_size
           key == MasterKeyOf(format)
           random == RandomStripes(format)
<1>1. /\ format' = format /\ MergeInv /\ MergeCalled /\ MergeOfKey
      /\ format \in Formats
  BY FormatKept DEF IInv
<1>2. CASE merge' = merge
  <2>1. MergeInv'
    BY <1>1, <1>2 DEF MergeInv, MergeRecord, MergeRuns, MergeBounds, DiffuseBounds
  <2>2. MergeCalled'
    BY <1>1, <1>2 DEF MergeCalled, MergeRuns
  <2>3. MergeOfKey'
    BY <1>1, <1>2 DEF MergeOfKey, MergeRuns, MergeFollows
  <2>4. QED
    BY <2>1, <2>2, <2>3
<1>3. CASE merge' = MergeIdle
  BY <1>3, MergeFreed DEF MergeCalled, MergeOfKey
<1>4. CASE MergeSteps
  <2>1. MergeStep
    BY <1>4 DEF MergeSteps
  <2>2. MergeInv' /\ (merge'.pc = "failed" \/ (MergeRuns /\ MergeCallKept))
    BY <1>1, <2>1, MergeStepKeeps
  <2>3. MergeCalled'
    BY <1>1, <2>2 DEF MergeCalled, MergeRuns, MergeCallKept
  <2>4. ASSUME MergeRuns', merge'.split_data = SplitKey(m, key, random)
        PROVE  MergeFollows(m, size, key, random)'
    <3>1. MergeRuns /\ MergeCallKept
      BY <2>2, <2>4 DEF MergeRuns
    <3>2. /\ merge.split_data = SplitKey(m, key, random)
          /\ merge.method = ParseHashingMethod(m)
          /\ merge.number_of_stripes = format.number_of_stripes
          /\ Len(merge.data) = size
      BY <1>1, <2>4, <3>1 DEF MergeCalled, MergeCallKept
    <3>3. MergeFollows(m, size, key, random)
      BY <1>1, <3>1, <3>2 DEF MergeOfKey
    <3>4. format.number_of_stripes \in Nat \ {0} /\ size \in Nat
      BY <1>1, <3>1, <3>2 DEF MergeInv, MergeBounds
    <3>5. /\ AreStripes(random, size, format.number_of_stripes - 1)
          /\ format.number_of_stripes - 1 \in Nat
          /\ IsSequenceOf(key, size)
      BY <3>4, RandomAreStripes, KeyIsSequence
    <3>6. merge.method \in HashMethods => merge.method = m
      BY <3>2 DEF ParseHashingMethod, HashMethods
    <3>7. merge.number_of_stripes = Len(random) + 1
      BY <3>2, <3>4, <3>5 DEF AreStripes
    <3>8. MergeIsOf(m, size, key, random)
      BY <3>2, <3>6, <3>7 DEF MergeIsOf
    <3>9. QED
      BY <1>1, <2>1, <3>1, <3>3, <3>4, <3>5, <3>8, MergeStepFollows
  <2>5. MergeOfKey'
    BY <1>1, <2>4 DEF MergeOfKey
  <2>6. QED
    BY <2>2, <2>3, <2>5
<1>5. CASE MergeMaterial
  BY <1>5, MergeIsCalled
<1>6. QED
  BY <1>2, <1>3, <1>4, <1>5, MergeChanges

\* While stripes are merged nothing else goes on.
LEMMA MergeWaits ==
    ASSUME IInv, [Next]_vars, merge' = merge, merge.pc # "idle"
    PROVE  stage' = stage
<1>1. stage = "merge" /\ merge' # MergeIdle
  BY DEF IInv, StageInv, MergeIdle
<1>2. QED
  BY <1>1 DEF Next, OpenStep, vars, keyVars, HeaderStep, CheckHeader, CheckHeaderFails,
       KdfStep, HashMasterKey, CheckKey, NextSlot, DeriveUserKey, UserKeyContext,
       ContextSteps, SetKeyOfContext, DecryptMaterialSector, MergeMaterial,
       MergeSteps, MasterKeyMerged, CheckSlot, VolumeContext, StaysLocked,
       Unlocked, KeysFail, ReadSector, Finished

-----------------------------------------------------------------------------
(* The encryption context while the keys are read                          *)

\* While there is a context the key it was made for stays.
LEMMA ContextWaits ==
    ASSUME IInv, [Next]_vars, context' = context, context.pc # "idle"
    PROVE  /\ user_key' = user_key /\ master_key' = master_key
           /\ \/ stage' = stage
              \/ stage = "volume_context" /\ stage' = "unlocked" /\ context.pc = "ready"
<1>1. stage \in {"material", "volume_context", "unlocked"} /\ ~ FreeContext
  BY DEF IInv, StageInv, FreeContext, NoContext
<1>2. QED
  BY <1>1 DEF Next, OpenStep, vars, keyVars, HeaderStep, CheckHeader, CheckHeaderFails,
       KdfStep, HashMasterKey, CheckKey, NextSlot, DeriveUserKey, UserKeyContext,
       ContextSteps, SetKeyOfContext, DecryptMaterialSector, MergeMaterial, Fail,
       MergeSteps, MasterKeyMerged, CheckSlot, VolumeContext, StaysLocked,
       Unlocked, KeysFail, ReadSector, Finished

\* A context is made for the cipher of the header, and has no key yet.
LEMMA ContextIsMade ==
    ASSUME IInv, UserKeyContext \/ VolumeContext
    PROVE  ContextInv' /\ ContextCalled'
<1>1. /\ stage \notin {"header", "failed"} /\ format' = format
      /\ stage' # "unlocked" /\ ContextInv
  BY DEF UserKeyContext, VolumeContext, others, IInv
<1>2. HeaderOf(format)
  BY <1>1 DEF IInv, StageInv
<1> DEFINE method == ParseEncryptionMethod(format.encryption_method)
           chaining == ParseChainingMode(format.encryption_mode)
           vector == ParseVectorMode(format.encryption_mode)
           hash == ParseEssivHashingMethod(format.encryption_mode)
<1>3. InitializeContext(method, chaining, vector, hash)
  BY <1>2 DEF UserKeyContext, VolumeContext, HeaderOf
<1> HIDE DEF method, chaining, vector, hash
<1>4. /\ ContextInv'
      /\ \/ context'.pc = "failed"
         \/ /\ context'.pc = "make_decryption"
            /\ context'.encryption_mode = EncryptionMode(method, chaining)
            /\ context'.initialization_vector_mode = vector
            /\ context'.essiv_hashing_method = hash
  BY <1>1, <1>3, ContextStarts
<1>5. ContextCalled'
  BY <1>1, <1>4 DEF ContextCalled, Keyed, method, chaining, vector, hash
<1>6. QED
  BY <1>4, <1>5

LEMMA ContextInvKept ==
    ASSUME IInv, [Next]_vars
    PROVE  ContextInv' /\ ContextCalled'
<1>1. format' = format /\ ContextInv /\ ContextCalled
  BY FormatKept DEF IInv
<1>2. CASE context' = context /\ ciphers' = ciphers
  <2>1. ContextInv'
    BY <1>1, <1>2 DEF ContextInv, ContextRecord, CiphersAt, CipherKey, EssivKey
  <2>2. CASE context.pc = "idle"
    <3>1. stage' # "unlocked"
      <4>1. stage # "unlocked"
        BY <1>1, <2>2 DEF ContextCalled
      <4>2. QED
        BY <2>2, <4>1, StageChanges
           DEF CheckHeader, CheckHeaderFails, CheckKey, NextSlot, UserKeyContext,
               MergeMaterial, MasterKeyMerged, CheckSlot, VolumeContext,
               StaysLocked, Unlocked, KeysFail, Fail
    <3>2. QED
      BY <1>2, <2>1, <2>2, <3>1 DEF ContextCalled, Keyed
  <2>3. CASE context.pc # "idle"
    <3>1. /\ user_key' = user_key /\ master_key' = master_key
          /\ \/ stage' = stage
             \/ stage = "volume_context" /\ stage' = "unlocked" /\ context.pc = "ready"
      BY <1>2, <2>3, ContextWaits
    <3>2. QED
      BY <1>1, <1>2, <2>1, <3>1 DEF ContextCalled, Keyed
  <2>4. QED
    BY <2>2, <2>3
<1>3. CASE FreeContext /\ stage' \in {"failed", "merge"}
  BY <1>3, ContextFreed DEF ContextCalled, FreeContext, NoContext, Keyed
<1>4. CASE ContextSteps
  <2>1. /\ ContextStep /\ stage' = stage /\ user_key' = user_key
        /\ master_key' = master_key
    BY <1>4 DEF ContextSteps, keyVars
  <2>2. /\ ContextInv'
        /\ context.pc \notin {"idle", "failed", "made", "ready", "unkeyed"}
        /\ \/ context'.pc = "failed"
           \/ ContextKept /\ (Keyed' => Keyed /\ context'.key = context.key)
    BY <1>1, <2>1, ContextStepKeeps
  <2>3. stage' # "unlocked"
    BY <1>1, <2>1, <2>2 DEF ContextCalled
  <2>4. ContextCalled'
    BY <1>1, <2>1, <2>2, <2>3 DEF ContextCalled, ContextKept, Keyed
  <2>5. QED
    BY <2>2, <2>4
<1>5. CASE SetKeyOfContext
  <2>1. /\ stage' = stage /\ user_key' = user_key /\ master_key' = master_key
        /\ stage # "unlocked"
        /\ SetContextKey(IF stage = "material" THEN user_key ELSE master_key)
    BY <1>5 DEF SetKeyOfContext, keyVars
  <2>2. /\ ContextInv' /\ ContextKept
        /\ context.pc = "made" /\ context'.pc = "decryption_key"
        /\ context'.key = IF stage = "material" THEN user_key ELSE master_key
    BY <1>1, <2>1, ContextKeyIsSet
  <2>3. ContextCalled'
    BY <1>1, <2>1, <2>2 DEF ContextCalled, ContextKept, Keyed
  <2>4. QED
    BY <2>2, <2>3
<1>6. CASE UserKeyContext \/ VolumeContext
  BY <1>6, ContextIsMade
<1>7. QED
  BY <1>2, <1>3, <1>4, <1>5, <1>6, ContextChanges

-----------------------------------------------------------------------------
(* The places of open_read_keys                                            *)

LEMMA HeaderOfKept ==
    ASSUME HeaderOf(format), format' = format, volume_header' = volume_header
    PROVE  HeaderOf(format)'
BY DEF HeaderOf

\* Keys are read with a header whose key size was checked.
LEMMA HeaderOfFormat ==
    ASSUME IInv, [Next]_vars, stage' \notin {"header", "failed"}
    PROVE  HeaderOf(format)'
<1>1. format' = format /\ HeaderInv /\ format \in Formats
  BY FormatKept DEF IInv
<1>2. volume_header' = volume_header /\ header_pc' = header_pc
  BY HeaderChanges DEF HeaderStep, keyVars
<1>3. CASE stage \notin {"header", "failed"}
  BY <1>1, <1>2, <1>3, HeaderOfKept DEF IInv, StageInv
<1>4. CASE stage \in {"header", "failed"}
  <2>1. CheckHeader
    BY <1>4, StageChanges
       DEF CheckHeaderFails, CheckKey, NextSlot, UserKeyContext, MergeMaterial,
           MasterKeyMerged, CheckSlot, VolumeContext, StaysLocked, Unlocked,
           KeysFail, Fail
  <2>2. header_pc = "done" /\ volume_header.master_key_size \in 1 .. 16
    BY <2>1 DEF CheckHeader
  <2>3. HeaderOf(format)
    BY <1>1, <2>2, HeaderKnown
  <2>4. QED
    BY <1>1, <1>2, <2>3, HeaderOfKept
<1>5. QED
  BY <1>3, <1>4

LEMMA SlotChanges ==
    ASSUME [Next]_vars
    PROVE  key_slot' = key_slot \/ NextSlot \/ CheckSlot
BY DEF Next, OpenStep, vars, keyVars, HeaderStep, CheckHeader, CheckHeaderFails, Fail,
       KdfStep, HashMasterKey, CheckKey, DeriveUserKey, UserKeyContext,
       ContextSteps, SetKeyOfContext, DecryptMaterialSector, MergeMaterial,
       MergeSteps, MasterKeyMerged, VolumeContext, StaysLocked,
       Unlocked, KeysFail, ReadSector, Finished

\* The search stays inside the key slots.
LEMMA SlotInRange ==
    ASSUME IInv, [Next]_vars
    PROVE  /\ stage' \in Stages
           /\ key_slot' \in 0 .. NumberOfKeySlots
           /\ stage' \in SlotStages => key_slot' < NumberOfKeySlots
<1>1. /\ stage \in Stages /\ key_slot \in 0 .. NumberOfKeySlots
      /\ stage \in SlotStages => key_slot < NumberOfKeySlots
  BY DEF IInv, StageInv
<1>2. NumberOfKeySlots \in Nat
  BY SizesAssumption
<1>3. CASE NextSlot
  BY <1>1, <1>2, <1>3 DEF NextSlot, SlotStages, Stages
<1>4. CASE CheckSlot
  BY <1>1, <1>2, <1>4 DEF CheckSlot, SlotStages, Stages
<1>5. CASE key_slot' = key_slot /\ ~ NextSlot /\ ~ CheckSlot
  <2>1. /\ stage' \in Stages
        /\ stage' \in SlotStages => stage \in SlotStages
    BY <1>1, <1>5, StageChanges
       DEF CheckHeader, CheckHeaderFails, CheckKey, UserKeyContext, MergeMaterial,
           MasterKeyMerged, VolumeContext, StaysLocked, Unlocked,
           KeysFail, Fail, Stages, SlotStages
  <2>2. QED
    BY <1>1, <1>5, <2>1
<1>6. QED
  BY <1>3, <1>4, <1>5, SlotChanges

\* A component runs at the places that wait for it.
LEMMA ComponentsWait ==
    ASSUME IInv, [Next]_vars
    PROVE  /\ kdf'.pc # "idle" => stage' \in {"check_key", "user_key", "check_slot"}
           /\ merge'.pc # "idle" => stage' = "merge"
           /\ context'.pc # "idle" => stage' \in {"material", "volume_context", "unlocked"}
<1>1. /\ kdf.pc # "idle" => stage \in {"check_key", "user_key", "check_slot"}
      /\ merge.pc # "idle" => stage = "merge"
      /\ context.pc # "idle" => stage \in {"material", "volume_context", "unlocked"}
  BY DEF IInv, StageInv
<1>2. KdfInv /\ MergeInv /\ ContextInv
  BY DEF IInv
<1>3. kdf'.pc # "idle" => stage' \in {"check_key", "user_key", "check_slot"}
  <2>1. CASE kdf' = kdf
    BY <1>1, <2>1, KdfWaits
  <2>2. CASE kdf' = KdfIdle
    BY <2>2 DEF KdfIdle
  <2>3. CASE KdfStep
    <3>1. Pbkdf2Step /\ stage' = stage
      BY <2>3 DEF KdfStep, keyVars
    <3>2. kdf.pc # "idle"
      BY <1>2, <3>1, KdfSteps
    <3>3. QED
      BY <1>1, <3>1, <3>2
  <2>4. CASE HashMasterKey \/ DeriveUserKey
    BY <2>4 DEF HashMasterKey, DeriveUserKey, keyVars
  <2>5. QED
    BY <2>1, <2>2, <2>3, <2>4, KdfChanges
<1>4. merge'.pc # "idle" => stage' = "merge"
  <2>1. CASE merge' = merge
    BY <1>1, <2>1, MergeWaits
  <2>2. CASE merge' = MergeIdle
    BY <2>2 DEF MergeIdle
  <2>3. CASE MergeSteps
    <3>1. MergeStep /\ stage' = stage
      BY <2>3 DEF MergeSteps, keyVars
    <3>2. merge.pc # "idle"
      BY <1>2, <3>1, MergeStepKeeps
    <3>3. QED
      BY <1>1, <3>1, <3>2
  <2>4. CASE MergeMaterial
    BY <2>4 DEF MergeMaterial
  <2>5. QED
    BY <2>1, <2>2, <2>3, <2>4, MergeChanges
<1>5. context'.pc # "idle" => stage' \in {"material", "volume_context", "unlocked"}
  <2>1. CASE context' = context
    BY <1>1, <2>1, ContextWaits
  <2>2. CASE FreeContext
    BY <2>2 DEF FreeContext, NoContext
  <2>3. CASE ContextSteps
    <3>1. ContextStep /\ stage' = stage
      BY <2>3 DEF ContextSteps, keyVars
    <3>2. context.pc # "idle"
      BY <1>2, <3>1, ContextStepKeeps
    <3>3. QED
      BY <1>1, <3>1, <3>2
  <2>4. CASE SetKeyOfContext
    BY <2>4 DEF SetKeyOfContext, keyVars
  <2>5. CASE UserKeyContext \/ VolumeContext
    BY <2>5 DEF UserKeyContext, VolumeContext
  <2>6. QED
    BY <2>1, <2>2, <2>3, <2>4, <2>5, ContextChanges
<1>6. QED
  BY <1>3, <1>4, <1>5

LEMMA StageInvKept ==
    ASSUME IInv, [Next]_vars
    PROVE  StageInv'
<1>1. stage' \in {"material", "merge"} => format'.number_of_stripes # 0
  <2>1. format' = format
    BY FormatKept
  <2>2. CASE UserKeyContext
    <3>1. /\ HeaderOf(format) /\ key_slot \in 0 .. NumberOfKeySlots
          /\ key_slot < NumberOfKeySlots /\ Slot.number_of_stripes # 0
      BY <2>2 DEF UserKeyContext, IInv, StageInv, SlotStages
    <3>2. QED
      BY <2>1, <3>1, SlotOfFormat
  <2>3. CASE ~ UserKeyContext
    <3>1. stage' \in {"material", "merge"} => stage \in {"material", "merge"}
      BY <2>3, StageChanges
         DEF CheckHeader, CheckHeaderFails, CheckKey, NextSlot, MergeMaterial,
             MasterKeyMerged, CheckSlot, VolumeContext, StaysLocked, Unlocked,
             KeysFail, Fail
    <3>2. QED
      BY <2>1, <3>1 DEF IInv, StageInv
  <2>4. QED
    BY <2>2, <2>3
<1>2. QED
  BY <1>1, HeaderOfFormat, SlotInRange, ComponentsWait DEF StageInv

-----------------------------------------------------------------------------
(* The keys that were derived                                              *)

\* What pbkdf2 has returned, for a method and a count that it took.
LEMMA KdfDone ==
    ASSUME IInv, kdf.pc = "done"
    PROVE  /\ format.hashing_method \in HashMethods
           /\ ParseHashingMethod(format.hashing_method) = format.hashing_method
           /\ format.number_of_iterations \in Nat \ {0}
           /\ stage = "user_key" =>
                 kdf.output_data = DerivedKey(user_password, format.hashing_method,
                                              "slot_salt", format.number_of_iterations,
                                              format.master_key_size)
           /\ stage # "user_key" =>
                 kdf.output_data = DerivedKey(master_key, format.hashing_method,
                                              "key_salt", format.number_of_iterations, 5)
<1> DEFINE size == kdf.output_data_offset + kdf.output_data_size
<1>1. KdfInv /\ KdfCalled /\ KdfRuns
  BY DEF IInv, KdfRuns
<1>2. /\ kdf.method \in HashMethods /\ kdf.number_of_iterations \in Nat \ {0}
      /\ kdf.method = ParseHashingMethod(format.hashing_method)
      /\ kdf.number_of_iterations = format.number_of_iterations
  BY <1>1 DEF KdfInv, KdfBounds, KdfCalled
<1>3. ParseHashingMethod(format.hashing_method) = format.hashing_method
  BY <1>2 DEF ParseHashingMethod, HashMethods
<1>4. OutputIsFilled /\ DerivesKey
  BY <1>1, KdfProperties
<1>5. kdf.output_data = DerivedKey(kdf.password, kdf.method, kdf.salt,
                                   kdf.number_of_iterations, size)
  BY <1>4 DEF OutputIsFilled, DerivesKey
<1>6. IF stage = "user_key"
      THEN /\ kdf.password = user_password /\ kdf.salt = "slot_salt"
           /\ size = format.master_key_size
      ELSE kdf.password = master_key /\ kdf.salt = "key_salt" /\ size = 5
  BY <1>1 DEF KdfCalled
<1> HIDE DEF size
<1>7. QED
  BY <1>2, <1>3, <1>5, <1>6

\* Only the key of the volume has its validation hash.
LEMMA HashOfKey ==
    ASSUME IInv, kdf.pc = "done", stage \in {"check_key", "check_slot"}
    PROVE  KeyValidates <=> master_key = MasterKeyOf(format)
<1> DEFINE m == format.hashing_method
           n == format.number_of_iterations
           key == MasterKeyOf(format)
<1>1. m \in HashMethods /\ n \in Nat \ {0}
  BY KdfDone
<1>2. kdf.output_data = DerivedKey(master_key, m, "key_salt", n, 5)
  BY KdfDone
<1>3. volume_header.master_key_validation_hash
        = FormatMedium(format).master_key_validation_hash
  BY DEF IInv, StageInv, HeaderOf
<1>4. FormatMedium(format).master_key_validation_hash
        = DerivedKey(key, m, "key_salt", n, 5)
  BY <1>1 DEF FormatMedium
<1> HIDE DEF key, m, n
<1>5. DerivedKey(master_key, m, "key_salt", n, 5) = DerivedKey(key, m, "key_salt", n, 5)
        => master_key = key
  BY <1>1, DerivedKeyInjective
<1>6. KeyValidates <=> master_key = key
  BY <1>2, <1>3, <1>4, <1>5 DEF KeyValidates
<1>7. QED
  BY <1>6 DEF key

-----------------------------------------------------------------------------
(* The key material                                                        *)

LEMMA SplitIsSequence ==
    ASSUME NEW f, f.master_key_size \in Nat \ {0}, f.number_of_stripes \in Nat \ {0}
    PROVE  IsSequenceOf(SplitOf(f), KeyMaterialSize(f))
<1> DEFINE size == f.master_key_size
           n == f.number_of_stripes - 1
           key == MasterKeyOf(f)
           random == RandomStripes(f)
           d == SplitChain(f.hashing_method, size, random)
<1>1. AreStripes(random, size, n) /\ n \in Nat /\ IsSequenceOf(key, size)
  BY RandomAreStripes, KeyIsSequence
<1>2. HasStripes(SplitKey(f.hashing_method, key, random), d, size, key, random, n)
  <2> HIDE DEF n, key, random
  <2>1. size \in Nat \ {0}
    OBVIOUS
  <2>2. QED
    BY <1>1, <2>1, SplitKeyStripes
<1>3. IsSequenceOf(SplitOf(f), size * (n + 1))
  BY <1>2 DEF HasStripes, SplitOf
<1>4. size * (n + 1) = KeyMaterialSize(f)
  BY DEF KeyMaterialSize
<1>5. QED
  BY <1>3, <1>4

\* The sector of the key material that is decrypted next.
IsMaterialSector(j) ==
    /\ SectorFits(j)
    /\ key_material_data_offset = j * SectorCells
    /\ key_material_data_offset \div SectorCells = j
    /\ key_material_data_offset + SectorCells <= KeyMaterialSize(format)

LEMMA MaterialSector ==
    ASSUME IInv, stage = "material", key_material_data_offset < MaterialSize
    PROVE  \E j \in Nat : IsMaterialSector(j)
<1> DEFINE total == KeyMaterialSize(format)
<1>1. /\ format \in Formats /\ HeaderOf(format)
      /\ key_slot \in 0 .. NumberOfKeySlots /\ key_slot < NumberOfKeySlots
  BY DEF IInv, StageInv, SlotStages
<1>2. MaterialSize = total
  BY <1>1, SlotOfFormat DEF MaterialSize, HeaderOf, KeyMaterialSize
<1>3. PICK n \in Nat : total = n * SectorCells /\ n * 32 < LongSize
  BY <1>1, FormatFacts
<1>4. PICK j \in Nat : key_material_data_offset = j * SectorCells
  BY DEF IInv, KeyInv
<1>5. SectorCells \in Nat \ {0} /\ LongSize \in Nat
  BY SizesAssumption
<1> HIDE DEF total
<1>6. ASSUME NEW a \in Nat, NEW b \in Nat, a <= b PROVE a * SectorCells <= b * SectorCells
  BY <1>5, <1>6
<1>7. j < n
  <2>1. j * SectorCells < n * SectorCells
    BY <1>2, <1>3, <1>4
  <2>2. n <= j => n * SectorCells <= j * SectorCells
    BY <1>6
  <2>3. j * SectorCells \in Nat /\ n * SectorCells \in Nat
    BY <1>5
  <2>4. QED
    BY <2>1, <2>2, <2>3
<1>8. (j + 1) * SectorCells <= n * SectorCells
  BY <1>6, <1>7
<1>9. (j + 1) * SectorCells = (j * SectorCells) + SectorCells
  BY <1>5
<1>10. (j * SectorCells) \div SectorCells = j
  <2>1. 1 \in 1 .. SectorCells
    BY <1>5
  <2>2. ((((j * SectorCells) + 1) - 1) \div SectorCells) + 1 = j + 1
    BY <1>5, <2>1, StripePlace
  <2>3. j * SectorCells \in Nat
    BY <1>5
  <2>4. ((j * SectorCells) + 1) - 1 = j * SectorCells
    BY <2>3
  <2>5. (j * SectorCells) \div SectorCells \in Int
    BY <1>5, <2>3
  <2>6. QED
    BY <2>2, <2>4, <2>5
<1>11. SectorFits(j)
  BY <1>3, <1>5, <1>7 DEF SectorFits
<1>12. QED
  BY <1>3, <1>4, <1>8, <1>9, <1>10, <1>11 DEF IsMaterialSector, total

\* The plaintext of a sector of the key material.
MaterialPlain(j) ==
    SubSeq(SplitOf(format), (j * SectorCells) + 1, (j + 1) * SectorCells)

LEMMA MaterialPlainCells ==
    ASSUME IInv, stage = "material", NEW j \in Nat, IsMaterialSector(j)
    PROVE  /\ IsSequenceOf(MaterialPlain(j), SectorCells)
           /\ \A i \in 1 .. SectorCells :
                 MaterialPlain(j)[i] = SplitOf(format)[key_material_data_offset + i]
<1> DEFINE from == j * SectorCells
           total == KeyMaterialSize(format)
           split == SplitOf(format)
<1>1. /\ format.master_key_size \in Nat \ {0} /\ format.number_of_stripes \in Nat \ {0}
      /\ total \in Nat
  BY FormatFacts DEF IInv, StageInv, HeaderOf
<1>2. IsSequenceOf(split, total)
  BY <1>1, SplitIsSequence
<1>3. SectorCells \in Nat \ {0}
  BY SizesAssumption
<1>4. from \in Nat /\ (j + 1) * SectorCells = from + SectorCells
  BY <1>3
<1>5. key_material_data_offset = from /\ from + SectorCells <= total
  BY DEF IsMaterialSector
<1> HIDE DEF from, total, split
<1>6. /\ IsSequenceOf(SubSeq(split, from + 1, from + SectorCells), SectorCells)
      /\ \A i \in 1 .. SectorCells :
            SubSeq(split, from + 1, from + SectorCells)[i] = split[from + i]
  BY <1>1, <1>2, <1>3, <1>4, <1>5, SequencePart
<1>7. MaterialPlain(j) = SubSeq(split, from + 1, from + SectorCells)
  BY <1>4 DEF MaterialPlain, from, split
<1>8. QED
  BY <1>5, <1>6, <1>7 DEF split

\* Whatever key it is decrypted with, a sector gives cells of its size.
DecryptedSector(j) == Decrypt(KeyMaterial(format, j), j, Garbage(SectorCells))

LEMMA SectorIsAppended ==
    ASSUME IInv, DecryptMaterialSector
    PROVE  \E j \in Nat :
              /\ IsMaterialSector(j)
              /\ IsSequenceOf(DecryptedSector(j), SectorCells)
              /\ split_master_key_data' = split_master_key_data \o DecryptedSector(j)
<1>1. stage = "material" /\ key_material_data_offset < MaterialSize
  BY DEF DecryptMaterialSector
<1>2. PICK j \in Nat : IsMaterialSector(j)
  BY <1>1, MaterialSector
<1>3. key_material_data_offset \div SectorCells = j
  BY <1>2 DEF IsMaterialSector
<1>4. split_master_key_data' = split_master_key_data \o DecryptedSector(j)
  BY <1>3 DEF DecryptMaterialSector, DecryptedSector
<1>5. KeyMaterial(format, j).plaintext = MaterialPlain(j)
  BY DEF KeyMaterial, FormatSector, MaterialPlain, SplitOf
<1>6. IsSequenceOf(MaterialPlain(j), SectorCells)
  BY <1>1, <1>2, MaterialPlainCells
<1>7. IsSequenceOf(Garbage(SectorCells), SectorCells)
  BY DEF Garbage, IsSequenceOf
<1>8. DecryptedSector(j) \in {MaterialPlain(j), Garbage(SectorCells)}
  BY <1>5 DEF DecryptedSector, Decrypt
<1>9. QED
  BY <1>2, <1>4, <1>6, <1>7, <1>8

\* With the right password it gives the stripes.
LEMMA RightSectorIsDecrypted ==
    ASSUME IInv, stage = "material", context.pc = "ready", RightPassword,
           NEW j \in Nat, IsMaterialSector(j)
    PROVE  DecryptedSector(j) = MaterialPlain(j)
<1> DEFINE key == UserKeyOf(format)
<1>1. /\ KnownFormat(format) /\ format \in Formats /\ ContextInv
      /\ user_password = PasswordCells("right")
  BY DEF RightPassword, IInv
<1>2. ParseHashingMethod(format.hashing_method) = format.hashing_method
  BY <1>1 DEF KnownFormat, HashMethods, ParseHashingMethod
<1>3. user_key = key
  BY <1>1, <1>2 DEF IInv, KeyInv, UserKeyOf
<1>4. context.key = user_key
  BY DEF IInv, ContextCalled, Keyed
<1>5. ContextOf(format, key)
  BY <1>3, <1>4 DEF IInv, ContextCalled, ContextOf
<1>6. IsSequenceOf(key, format.master_key_size)
  BY DerivedKeyIsSequence DEF UserKeyOf
<1>7. format.master_key_size \in Nat
  BY <1>1, FormatFacts
<1>8. SectorFits(j)
  BY DEF IsMaterialSector
<1> HIDE DEF key
<1>9. Decrypt(FormatSector(format, key, j, MaterialPlain(j)), j, Garbage(SectorCells))
        = MaterialPlain(j)
  BY <1>1, <1>5, <1>6, <1>7, <1>8, ContextDecrypts
<1>10. KeyMaterial(format, j) = FormatSector(format, key, j, MaterialPlain(j))
  BY DEF KeyMaterial, MaterialPlain, SplitOf, key
<1>11. QED
  BY <1>9, <1>10 DEF DecryptedSector

-----------------------------------------------------------------------------
(* The keys of the volume                                                  *)

\* What writes the locals and the keys of open_read_keys.
LEMMA KeyChanges ==
    ASSUME [Next]_vars
    PROVE  /\ master_key' = master_key \/ MasterKeyMerged
           /\ volume_master_key_is_set' = volume_master_key_is_set
                 \/ CheckKey \/ CheckSlot
           /\ user_key' = user_key \/ UserKeyContext
           /\ key_material_data_offset' = key_material_data_offset
                 \/ DecryptMaterialSector
           /\ split_master_key_data' = split_master_key_data
                 \/ DecryptMaterialSector \/ MasterKeyMerged
BY DEF Next, OpenStep, vars, keyVars, HeaderStep, CheckHeader, CheckHeaderFails, Fail,
       KdfStep, HashMasterKey, CheckKey, NextSlot, DeriveUserKey, UserKeyContext,
       ContextSteps, SetKeyOfContext, DecryptMaterialSector, MergeMaterial,
       MergeSteps, MasterKeyMerged, CheckSlot, VolumeContext, StaysLocked,
       Unlocked, KeysFail, ReadSector, Finished

\* The stripes were merged to data of the size of a key.
LEMMA MergedKey ==
    ASSUME IInv, MasterKeyMerged
    PROVE  IsSequenceOf(master_key', format.master_key_size)
<1>1. MergeInv /\ MergeCalled /\ MergeRuns /\ master_key' = merge.data
  BY DEF MasterKeyMerged, MergeRuns, IInv
<1>2. IsSequenceOf(merge.data, Len(merge.data)) /\ Len(merge.data) = format.master_key_size
  BY <1>1 DEF MergeInv, MergeBounds, MergeCalled
<1>3. QED
  BY <1>1, <1>2

\* The key material that was decrypted is whole sectors.
LEMMA MaterialKept ==
    ASSUME IInv, [Next]_vars
    PROVE  /\ \E j \in Nat : key_material_data_offset' = j * SectorCells
           /\ \E n \in Nat : IsSequenceOf(split_master_key_data', n)
<1>1. PICK j \in Nat : key_material_data_offset = j * SectorCells
  BY DEF IInv, KeyInv
<1>2. PICK n \in Nat : IsSequenceOf(split_master_key_data, n)
  BY DEF IInv, KeyInv
<1>3. SectorCells \in Nat
  BY SizesAssumption
<1>4. CASE DecryptMaterialSector
  <2>1. key_material_data_offset' = key_material_data_offset + SectorCells
    BY <1>4 DEF DecryptMaterialSector
  <2>2. (j + 1) * SectorCells = (j * SectorCells) + SectorCells
    BY <1>3
  <2>3. PICK k \in Nat :
           /\ IsSequenceOf(DecryptedSector(k), SectorCells)
           /\ split_master_key_data' = split_master_key_data \o DecryptedSector(k)
    BY <1>4, SectorIsAppended
  <2>4. IsSequenceOf(split_master_key_data', n + SectorCells)
    <3>1. IsJoined(split_master_key_data \o DecryptedSector(k), split_master_key_data,
                   n, DecryptedSector(k), SectorCells)
      BY <1>2, <1>3, <2>3, SequenceConcat, Zenon
    <3>2. QED
      BY <2>3, <3>1 DEF IsJoined
  <2>5. j + 1 \in Nat /\ n + SectorCells \in Nat
    BY <1>3
  <2>6. QED
    BY <1>1, <2>1, <2>2, <2>4, <2>5
<1>5. CASE MasterKeyMerged /\ ~ DecryptMaterialSector
  <2>1. split_master_key_data' = <<>>
    BY <1>5 DEF MasterKeyMerged
  <2>2. IsSequenceOf(<<>>, 0)
    BY DEF IsSequenceOf
  <2>3. key_material_data_offset' = key_material_data_offset
    BY <1>5, KeyChanges
  <2>4. QED
    BY <1>1, <2>1, <2>2, <2>3
<1>6. CASE ~ MasterKeyMerged /\ ~ DecryptMaterialSector
  BY <1>1, <1>2, <1>6, KeyChanges
<1>7. QED
  BY <1>4, <1>5, <1>6

\* A key is set when it validates, and is then the volume's.
LEMMA CheckedKey ==
    ASSUME IInv, CheckKey \/ CheckSlot
    PROVE  /\ volume_master_key_is_set' = KeyValidates
           /\ KeyValidates \in BOOLEAN
           /\ KeyValidates <=> master_key = MasterKeyOf(format)
           /\ master_key' = master_key
<1>1. stage \in {"check_key", "check_slot"} /\ kdf.pc = "done"
  BY DEF CheckKey, CheckSlot
<1>2. KeyValidates <=> master_key = MasterKeyOf(format)
  BY <1>1, HashOfKey
<1>3. QED
  BY <1>2 DEF CheckKey, CheckSlot, KeyValidates

LEMMA NoKeyWhileSearching ==
    ASSUME IInv, [Next]_vars, Searching'
    PROVE  ~ volume_master_key_is_set'
<1>1. KeyInv /\ stage' \in {"user_key", "material", "merge", "check_slot", "next_slot"}
  BY DEF IInv, Searching, SlotStages
<1>2. CASE CheckKey \/ CheckSlot
  <2>1. stage' = "next_slot" => ~ KeyValidates
    BY <1>2 DEF CheckKey, CheckSlot
  <2>2. stage' = "next_slot"
    BY <1>1, <1>2 DEF CheckKey, CheckSlot
  <2>3. QED
    BY <1>2, <2>1, <2>2, CheckedKey
<1>3. CASE CheckHeader
  BY <1>1, <1>3 DEF CheckHeader
<1>4. CASE ~ (CheckKey \/ CheckSlot) /\ ~ CheckHeader
  <2>1. Searching
    BY <1>1, <1>4, StageChanges
       DEF CheckHeaderFails, NextSlot, UserKeyContext, MergeMaterial,
           MasterKeyMerged, VolumeContext, StaysLocked, Unlocked, KeysFail, Fail,
           Searching, SlotStages
  <2>2. volume_master_key_is_set' = volume_master_key_is_set
    BY <1>4, KeyChanges
  <2>3. QED
    BY <1>1, <2>1, <2>2 DEF KeyInv
<1>5. QED
  BY <1>2, <1>3, <1>4

\* A volume whose key is set has its own key.
LEMMA SetKeyIsVolumeKey ==
    ASSUME IInv, [Next]_vars, stage' \in {"context", "volume_context", "unlocked"},
           volume_master_key_is_set'
    PROVE  master_key' = MasterKeyOf(format)
<1>1. KeyInv
  BY DEF IInv
<1>2. CASE CheckKey \/ CheckSlot
  BY <1>2, CheckedKey
<1>3. CASE NextSlot
  <2>1. Searching /\ volume_master_key_is_set' = volume_master_key_is_set
    BY <1>3 DEF NextSlot, Searching
  <2>2. QED
    BY <1>1, <2>1 DEF KeyInv
<1>4. CASE ~ (CheckKey \/ CheckSlot) /\ ~ NextSlot
  <2>1. stage \in {"context", "volume_context", "unlocked"}
    BY <1>4, StageChanges
       DEF CheckHeader, CheckHeaderFails, UserKeyContext, MergeMaterial,
           MasterKeyMerged, VolumeContext, StaysLocked, Unlocked, KeysFail, Fail
  <2>2. volume_master_key_is_set' = volume_master_key_is_set
    BY <1>4, KeyChanges
  <2>3. master_key' = master_key
    BY <2>1, KeyChanges DEF MasterKeyMerged
  <2>4. QED
    BY <1>1, <2>1, <2>2, <2>3 DEF KeyInv
<1>5. QED
  BY <1>2, <1>3, <1>4

\* The user key is the one that PBKDF2 defines.
LEMMA UserKeyKept ==
    ASSUME IInv, [Next]_vars, stage' = "material"
    PROVE  user_key' = DerivedKey(user_password,
                                  ParseHashingMethod(format.hashing_method), "slot_salt",
                                  format.number_of_iterations, format.master_key_size)
<1>1. CASE UserKeyContext
  <2>1. stage = "user_key" /\ kdf.pc = "done" /\ user_key' = kdf.output_data
    BY <1>1 DEF UserKeyContext
  <2>2. QED
    BY <2>1, KdfDone
<1>2. CASE ~ UserKeyContext
  <2>1. stage = "material"
    BY <1>2, StageChanges
       DEF CheckHeader, CheckHeaderFails, CheckKey, NextSlot, MergeMaterial,
           MasterKeyMerged, CheckSlot, VolumeContext, StaysLocked, Unlocked,
           KeysFail, Fail
  <2>2. user_key' = user_key
    BY <1>2, KeyChanges
  <2>3. QED
    BY <2>1, <2>2 DEF IInv, KeyInv
<1>3. QED
  BY <1>1, <1>2

LEMMA KeyInvKept ==
    ASSUME IInv, [Next]_vars
    PROVE  KeyInv'
<1>1. format' = format /\ user_password' = user_password /\ KeyInv
  BY FormatKept DEF IInv
<1>2. IsSequenceOf(master_key', format.master_key_size)
  BY <1>1, KeyChanges, MergedKey DEF KeyInv
<1>3. volume_master_key_is_set' \in BOOLEAN
  BY <1>1, KeyChanges, CheckedKey DEF KeyInv
<1>4. stage' \in {"volume_context", "unlocked"} => volume_master_key_is_set'
  <2>1. CASE CheckKey \/ CheckSlot
    BY <2>1 DEF CheckKey, CheckSlot
  <2>2. CASE ~ (CheckKey \/ CheckSlot)
    <3>1. volume_master_key_is_set' = volume_master_key_is_set
      BY <2>2, KeyChanges
    <3>2. CASE VolumeContext
      BY <3>1, <3>2 DEF VolumeContext
    <3>3. CASE ~ VolumeContext
      <4>1. stage' \in {"volume_context", "unlocked"}
              => stage \in {"volume_context", "unlocked"}
        BY <2>2, <3>3, StageChanges
           DEF CheckHeader, CheckHeaderFails, NextSlot, UserKeyContext, MergeMaterial,
               MasterKeyMerged, StaysLocked, Unlocked, KeysFail, Fail
      <4>2. QED
        BY <1>1, <3>1, <4>1 DEF KeyInv
    <3>4. QED
      BY <3>2, <3>3
  <2>3. QED
    BY <2>1, <2>2
<1>5. QED
  BY <1>1, <1>2, <1>3, <1>4, MaterialKept, NoKeyWhileSearching, SetKeyIsVolumeKey,
     UserKeyKept DEF KeyInv

-----------------------------------------------------------------------------
(* The right password                                                      *)

\* The key material that was decrypted is the beginning of the stripes.
MaterialIsRight ==
    /\ key_material_data_offset \in 0 .. KeyMaterialSize(format)
    /\ IsSequenceOf(split_master_key_data, key_material_data_offset)
    /\ \A i \in 1 .. key_material_data_offset :
          split_master_key_data[i] = SplitOf(format)[i]

LEMMA RightSectorIsAppended ==
    ASSUME IInv, RightPassword, MaterialIsRight, DecryptMaterialSector
    PROVE  MaterialIsRight'
<1> DEFINE from == key_material_data_offset
           total == KeyMaterialSize(format)
           split == SplitOf(format)
           read == split_master_key_data
<1>1. /\ stage = "material" /\ context.pc = "ready" /\ format' = format
      /\ from' = from + SectorCells /\ format \in Formats
  BY DEF DecryptMaterialSector, others, IInv
<1>2. PICK j \in Nat :
         /\ IsMaterialSector(j)
         /\ IsSequenceOf(DecryptedSector(j), SectorCells)
         /\ read' = read \o DecryptedSector(j)
  BY SectorIsAppended
<1>3. DecryptedSector(j) = MaterialPlain(j)
  BY <1>1, <1>2, RightSectorIsDecrypted
<1>4. \A i \in 1 .. SectorCells : DecryptedSector(j)[i] = split[from + i]
  BY <1>1, <1>2, <1>3, MaterialPlainCells
<1>5. /\ SectorCells \in Nat /\ total \in Nat /\ from \in 0 .. total
      /\ from + SectorCells <= total
  BY <1>1, <1>2, SizesAssumption, FormatFacts DEF IsMaterialSector, MaterialIsRight
<1>6. IsSequenceOf(read, from) /\ \A i \in 1 .. from : read[i] = split[i]
  BY DEF MaterialIsRight
<1>7. from \in Nat
  BY <1>5
<1> HIDE DEF from, total, split, read
<1>8. IsJoined(read \o DecryptedSector(j), read, from, DecryptedSector(j), SectorCells)
  BY <1>2, <1>5, <1>6, <1>7, SequenceConcat, Zenon
<1>9. IsJoined(read', read, from, DecryptedSector(j), SectorCells)
  BY <1>2, <1>8
<1>10. ASSUME NEW i \in 1 .. (from + SectorCells) PROVE read'[i] = split[i]
  <2>1. CASE i <= from
    BY <1>6, <1>7, <1>9, <2>1 DEF IsJoined
  <2>2. CASE i > from
    <3>1. i - from \in 1 .. SectorCells /\ from + (i - from) = i
      BY <1>5, <1>7, <2>2
    <3>2. read'[from + (i - from)] = DecryptedSector(j)[i - from]
      BY <1>9, <3>1 DEF IsJoined
    <3>3. DecryptedSector(j)[i - from] = split[from + (i - from)]
      BY <1>4, <3>1
    <3>4. QED
      BY <3>1, <3>2, <3>3
  <2>3. QED
    BY <1>5, <1>7, <2>1, <2>2
<1>11. IsSequenceOf(read', from + SectorCells)
  BY <1>9 DEF IsJoined
<1>12. from + SectorCells \in 0 .. total
  BY <1>5, <1>7
<1>13. /\ from' \in 0 .. total /\ IsSequenceOf(read', from')
       /\ \A i \in 1 .. from' : read'[i] = split[i]
  BY <1>1, <1>10, <1>11, <1>12 DEF from
<1>14. QED
  BY <1>1, <1>13 DEF MaterialIsRight, from, total, split, read

\* All of it is the stripes.
LEMMA WholeMaterialIsRight ==
    ASSUME IInv, RightPassword, MaterialIsRight, MergeMaterial
    PROVE  MergeRuns' => merge'.split_data = SplitOf(format)
<1> DEFINE total == KeyMaterialSize(format)
<1>1. /\ stage = "material" /\ format \in Formats /\ HeaderOf(format)
      /\ key_slot \in 0 .. NumberOfKeySlots /\ key_slot < NumberOfKeySlots
      /\ format.number_of_stripes # 0
  BY DEF MergeMaterial, IInv, StageInv, SlotStages
<1>2. MaterialSize = total
  BY <1>1, SlotOfFormat DEF MaterialSize, HeaderOf, KeyMaterialSize
<1>3. key_material_data_offset = total
  <2>1. total \in Nat
    BY <1>1, FormatFacts
  <2>2. key_material_data_offset >= total /\ key_material_data_offset \in 0 .. total
    BY <1>2 DEF MergeMaterial, MaterialIsRight
  <2> HIDE DEF total
  <2>3. QED
    BY <2>1, <2>2
<1>4. /\ format.master_key_size \in Nat \ {0}
      /\ format.number_of_stripes \in Nat \ {0}
  BY <1>1, FormatFacts DEF HeaderOf
<1>5. IsSequenceOf(SplitOf(format), total)
  BY <1>4, SplitIsSequence
<1>6. /\ IsSequenceOf(split_master_key_data, total)
      /\ \A i \in 1 .. total : split_master_key_data[i] = SplitOf(format)[i]
  BY <1>3 DEF MaterialIsRight
<1> HIDE DEF total
<1>7. split_master_key_data = SplitOf(format)
  BY <1>5, <1>6, SequencesEqual
<1>8. MergeRuns' => merge'.split_data = split_master_key_data
  <2>1. Merge(split_master_key_data, volume_header.master_key_size,
              Slot.number_of_stripes, volume_header.hashing_method)
    BY DEF MergeMaterial
  <2>2. Len(split_master_key_data) \in Nat /\ MergeInv
    BY SequenceLength DEF IInv, KeyInv
  <2>3. merge'.pc = "failed" \/ merge'.split_data = split_master_key_data
    BY <2>1, <2>2, MergeStarts
  <2>4. QED
    BY <2>3 DEF MergeRuns
<1>9. QED
  BY <1>7, <1>8

\* The stripes are merged to the key they were made of.
LEMMA RightKeyIsMerged ==
    ASSUME IInv, RightPassword, MasterKeyMerged,
           merge.split_data = SplitOf(format)
    PROVE  master_key' = MasterKeyOf(format)
<1>1. merge.pc = "done" /\ MergeRuns /\ master_key' = merge.data
  BY DEF MasterKeyMerged, MergeRuns
<1>2. MergeFollows(format.hashing_method, format.master_key_size, MasterKeyOf(format),
                   RandomStripes(format))
  BY <1>1 DEF IInv, MergeOfKey, SplitOf
<1>3. QED
  BY <1>1, <1>2 DEF MergeFollows

RightSlot == Searching => key_slot < format.enabled_slot

RightStart ==
    /\ stage \in {"header", "check_key"} => key_slot = 0
    /\ stage \in {"header", "check_key", "next_slot", "user_key"} =>
          key_material_data_offset = 0 /\ split_master_key_data = <<>>

RightKey ==
    /\ stage = "check_slot" => master_key = MasterKeyOf(format)
    /\ stage = "context" => volume_master_key_is_set
    /\ stage # "locked"

\* The same in parts.
LEMMA RightParts ==
    /\ RightInv <=>
         (RightPassword =>
            /\ RightSlot /\ RightStart /\ RightKey
            /\ stage = "material" => MaterialIsRight
            /\ stage = "merge" /\ MergeRuns => merge.split_data = SplitOf(format))
    /\ RightInv' <=>
         (RightPassword' =>
            /\ RightSlot' /\ RightStart' /\ RightKey'
            /\ stage' = "material" => MaterialIsRight'
            /\ stage' = "merge" /\ MergeRuns' => merge'.split_data = SplitOf(format'))
BY DEF RightInv, RightSlot, RightStart, RightKey, MaterialIsRight

\* The enabled slot is not passed over.
LEMMA RightSlotKept ==
    ASSUME IInv, [Next]_vars, RightPassword, RightSlot, RightStart, RightKey
    PROVE  RightSlot'
<1>1. /\ format' = format /\ format.enabled_slot \in 1 .. NumberOfKeySlots
      /\ NumberOfKeySlots \in Nat /\ key_slot \in 0 .. NumberOfKeySlots
  BY FormatKept, SizesAssumption DEF RightPassword, IInv, StageInv
<1>2. CASE CheckSlot
  <2>1. KeyValidates
    BY <1>2, CheckedKey DEF RightKey, CheckSlot
  <2>2. QED
    BY <1>2, <2>1 DEF CheckSlot, RightSlot, Searching, SlotStages
<1>3. CASE NextSlot
  <2>1. /\ stage = "next_slot" /\ Searching /\ key_slot < format.enabled_slot
        /\ HeaderOf(format)
    BY <1>3 DEF NextSlot, RightSlot, Searching, IInv, StageInv
  <2>2. CASE key_slot' = key_slot
    BY <1>1, <2>1, <2>2 DEF RightSlot
  <2>3. CASE key_slot' # key_slot
    <3>1. key_slot' = key_slot + 1 /\ Slot.state # "enabled" /\ key_slot # NumberOfKeySlots
      BY <1>3, <2>3 DEF NextSlot
    <3>2. key_slot < NumberOfKeySlots
      BY <1>1, <3>1
    <3>3. key_slot + 1 # format.enabled_slot
      BY <1>1, <2>1, <3>1, <3>2, SlotOfFormat
    <3>4. QED
      BY <1>1, <2>1, <3>1, <3>3 DEF RightSlot
  <2>4. QED
    BY <2>2, <2>3
<1>4. CASE CheckHeader \/ CheckKey
  <2>1. stage \in {"header", "check_key"} /\ key_slot' = key_slot
    BY <1>4 DEF CheckHeader, CheckKey
  <2>2. QED
    BY <1>1, <2>1 DEF RightStart, RightSlot
<1>5. CASE ~ CheckSlot /\ ~ NextSlot /\ ~ (CheckHeader \/ CheckKey)
  <2>1. key_slot' = key_slot
    BY <1>5, SlotChanges
  <2>2. Searching' => Searching
    BY <1>5, StageChanges
       DEF CheckHeaderFails, UserKeyContext, MergeMaterial, MasterKeyMerged,
           VolumeContext, StaysLocked, Unlocked, KeysFail, Fail, Searching, SlotStages
  <2>3. QED
    BY <1>1, <2>1, <2>2 DEF RightSlot
<1>6. QED
  BY <1>2, <1>3, <1>4, <1>5

\* The first slot that is tried is the right one.
LEMMA RightStartKept ==
    ASSUME IInv, [Next]_vars, RightPassword, RightSlot, RightStart, RightKey
    PROVE  RightStart'
<1>1. CASE CheckSlot
  <2>1. KeyValidates
    BY <1>1, CheckedKey DEF RightKey, CheckSlot
  <2>2. QED
    BY <1>1, <2>1 DEF CheckSlot, RightStart
<1>2. CASE NextSlot
  BY <1>2 DEF NextSlot, RightStart
<1>3. CASE ~ CheckSlot /\ ~ NextSlot
  <2>1. key_slot' = key_slot
    BY <1>3, SlotChanges
  <2>2. /\ stage' \in {"header", "check_key"} => stage \in {"header", "check_key"}
        /\ stage' \in {"header", "check_key", "next_slot", "user_key"} =>
              stage \in {"header", "check_key", "next_slot", "user_key"}
    BY <1>3, StageChanges
       DEF CheckHeader, CheckHeaderFails, CheckKey, UserKeyContext, MergeMaterial,
           MasterKeyMerged, VolumeContext, StaysLocked, Unlocked, KeysFail, Fail
  <2>3. stage' \in {"header", "check_key", "next_slot", "user_key"} =>
           /\ key_material_data_offset' = key_material_data_offset
           /\ split_master_key_data' = split_master_key_data
    BY <2>2, KeyChanges DEF DecryptMaterialSector, MasterKeyMerged
  <2>4. QED
    BY <2>1, <2>2, <2>3 DEF RightStart
<1>4. QED
  BY <1>1, <1>2, <1>3

\* The key of the slot validates, so that the volume is not left locked.
LEMMA RightKeyKept ==
    ASSUME IInv, [Next]_vars, RightPassword, RightSlot, RightKey,
           stage = "merge" /\ MergeRuns => merge.split_data = SplitOf(format)
    PROVE  RightKey'
<1>1. /\ format' = format /\ user_password # NoKey
      /\ format.enabled_slot \in 1 .. NumberOfKeySlots
      /\ NumberOfKeySlots \in Nat /\ key_slot \in 0 .. NumberOfKeySlots
  BY FormatKept, NoKeyAssumption, SizesAssumption DEF RightPassword, IInv, StageInv
<1>2. CASE CheckSlot
  <2>1. KeyValidates /\ volume_master_key_is_set'
    BY <1>2, CheckedKey DEF RightKey, CheckSlot
  <2>2. stage' = "context"
    BY <1>2, <2>1 DEF CheckSlot
  <2>3. QED
    BY <2>1, <2>2 DEF RightKey
<1>3. CASE CheckKey
  <2>1. stage' = "context" => volume_master_key_is_set'
    BY <1>1, <1>3 DEF CheckKey
  <2>2. stage' \in {"context", "next_slot"}
    BY <1>3 DEF CheckKey
  <2>3. QED
    BY <2>1, <2>2 DEF RightKey
<1>4. CASE NextSlot
  <2>1. key_slot < format.enabled_slot
    BY <1>4 DEF NextSlot, RightSlot, Searching
  <2>2. key_slot # NumberOfKeySlots
    BY <1>1, <2>1
  <2>3. stage' \in {"user_key", "next_slot"}
    BY <1>1, <1>4, <2>2 DEF NextSlot
  <2>4. QED
    BY <2>3 DEF RightKey
<1>5. CASE MasterKeyMerged
  <2>1. stage = "merge" /\ MergeRuns /\ stage' = "check_slot"
    BY <1>5 DEF MasterKeyMerged, MergeRuns
  <2>2. master_key' = MasterKeyOf(format)
    BY <1>5, <2>1, RightKeyIsMerged
  <2>3. QED
    BY <1>1, <2>1, <2>2 DEF RightKey
<1>6. CASE ~ CheckSlot /\ ~ CheckKey /\ ~ NextSlot /\ ~ MasterKeyMerged
  <2>1. /\ master_key' = master_key
        /\ volume_master_key_is_set' = volume_master_key_is_set
    BY <1>6, KeyChanges
  <2>2. /\ stage' = "check_slot" => stage = "check_slot"
        /\ stage' = "context" => stage = "context"
        /\ stage' = "locked" => stage = "locked" \/ StaysLocked
    BY <1>6, StageChanges
       DEF CheckHeader, CheckHeaderFails, UserKeyContext, MergeMaterial,
           VolumeContext, StaysLocked, Unlocked, KeysFail, Fail
  <2>3. ~ StaysLocked
    BY DEF StaysLocked, RightKey
  <2>4. QED
    BY <1>1, <2>1, <2>2, <2>3 DEF RightKey
<1>7. QED
  BY <1>2, <1>3, <1>4, <1>5, <1>6

LEMMA RightMaterialKept ==
    ASSUME IInv, [Next]_vars, RightPassword, RightStart,
           stage = "material" => MaterialIsRight, stage' = "material"
    PROVE  MaterialIsRight'
<1>1. format' = format /\ format \in Formats
  BY FormatKept DEF IInv
<1>2. CASE UserKeyContext
  <2>1. /\ key_material_data_offset = 0 /\ split_master_key_data = <<>>
        /\ key_material_data_offset' = key_material_data_offset
        /\ split_master_key_data' = split_master_key_data
    BY <1>2 DEF UserKeyContext, RightStart
  <2>2. KeyMaterialSize(format) \in Nat
    BY <1>1, FormatFacts
  <2>3. IsSequenceOf(<<>>, 0)
    BY DEF IsSequenceOf
  <2>4. QED
    BY <1>1, <2>1, <2>2, <2>3 DEF MaterialIsRight
<1>3. CASE ~ UserKeyContext
  <2>1. stage = "material"
    BY <1>3, StageChanges
       DEF CheckHeader, CheckHeaderFails, CheckKey, NextSlot, MergeMaterial,
           MasterKeyMerged, CheckSlot, VolumeContext, StaysLocked, Unlocked,
           KeysFail, Fail
  <2>2. CASE DecryptMaterialSector
    BY <2>1, <2>2, RightSectorIsAppended
  <2>3. CASE ~ DecryptMaterialSector
    <3>1. /\ key_material_data_offset' = key_material_data_offset
          /\ split_master_key_data' = split_master_key_data
      BY <2>1, <2>3, KeyChanges DEF MasterKeyMerged
    <3>2. QED
      BY <1>1, <2>1, <3>1 DEF MaterialIsRight
  <2>4. QED
    BY <2>2, <2>3
<1>4. QED
  BY <1>2, <1>3

LEMMA RightMergeKept ==
    ASSUME IInv, [Next]_vars, RightPassword,
           stage = "material" => MaterialIsRight,
           stage = "merge" /\ MergeRuns => merge.split_data = SplitOf(format),
           stage' = "merge", MergeRuns'
    PROVE  merge'.split_data = SplitOf(format)
<1>1. CASE MergeMaterial
  BY <1>1, WholeMaterialIsRight DEF MergeMaterial
<1>2. CASE ~ MergeMaterial
  <2>1. stage = "merge"
    BY <1>2, StageChanges
       DEF CheckHeader, CheckHeaderFails, CheckKey, NextSlot, UserKeyContext,
           MasterKeyMerged, CheckSlot, VolumeContext, StaysLocked, Unlocked,
           KeysFail, Fail
  <2>2. CASE merge' = merge
    BY <2>1, <2>2 DEF MergeRuns
  <2>3. CASE merge' = MergeIdle
    BY <2>3, MergeFreed
  <2>4. CASE MergeSteps
    <3>1. MergeStep /\ MergeInv
      BY <2>4 DEF MergeSteps, IInv
    <3>2. merge'.pc = "failed" \/ (MergeRuns /\ MergeCallKept)
      BY <3>1, MergeStepKeeps
    <3>3. QED
      BY <2>1, <3>2 DEF MergeRuns, MergeCallKept
  <2>5. QED
    BY <1>2, <2>2, <2>3, <2>4, MergeChanges
<1>3. QED
  BY <1>1, <1>2

LEMMA RightInvKept ==
    ASSUME IInv, [Next]_vars
    PROVE  RightInv'
<1>1. format' = format /\ user_password' = user_password /\ RightInv
  BY FormatKept DEF IInv
<1>2. CASE ~ RightPassword
  BY <1>1, <1>2, RightParts DEF RightPassword
<1>3. CASE RightPassword
  <2>1. /\ RightSlot /\ RightStart /\ RightKey
        /\ stage = "material" => MaterialIsRight
        /\ stage = "merge" /\ MergeRuns => merge.split_data = SplitOf(format)
    BY <1>1, <1>3, RightParts
  <2>2. RightSlot' /\ RightStart' /\ RightKey'
    BY <1>3, <2>1, RightSlotKept, RightStartKept, RightKeyKept
  <2>3. stage' = "material" => MaterialIsRight'
    BY <1>3, <2>1, RightMaterialKept
  <2>4. stage' = "merge" /\ MergeRuns' => merge'.split_data = SplitOf(format')
    BY <1>1, <1>3, <2>1, RightMergeKept
  <2>5. QED
    BY <2>2, <2>3, <2>4, RightParts
<1>4. QED
  BY <1>2, <1>3

-----------------------------------------------------------------------------
(* Reading                                                                 *)

\* A sector is decrypted with the key of the volume, and its own number.
LEMMA SectorInvKept ==
    ASSUME IInv, [Next]_vars
    PROVE  SectorInv'
<1>1. format' = format /\ format \in Formats
  BY FormatKept DEF IInv
<1>2. ASSUME NEW s \in Sectors, ReadSector(s), KnownFormat(format)
      PROVE  sector_data' = <<s, PlainSector(s)>>
  <2> DEFINE key == MasterKeyOf(format)
             sector == FormatSector(format, key, s, PlainSector(s))
  <2>1. stage = "unlocked" /\ ContextInv /\ ContextCalled /\ KeyInv
    BY <1>2 DEF ReadSector, IInv
  <2>2. context.pc = "ready" /\ master_key = key
    BY <2>1 DEF ContextCalled, KeyInv
  <2>3. context.key = key
    BY <2>1, <2>2 DEF ContextCalled, Keyed
  <2>4. ContextOf(format, key)
    BY <2>1, <2>2, <2>3 DEF ContextCalled, ContextOf
  <2>5. format.master_key_size \in Nat /\ IsSequenceOf(key, format.master_key_size)
    BY <1>1, FormatFacts, KeyIsSequence
  <2>6. SectorFits(s)
    BY SizesAssumption DEF SectorFits
  <2> HIDE DEF key
  <2>7. CryptSucceeds
    BY <1>2, <2>1, <2>4, <2>5, <2>6, KnownVectors
  <2>8. Decrypt(sector, s, <<"garbage">>) = PlainSector(s)
    BY <1>2, <2>1, <2>4, <2>5, <2>6, ContextDecrypts
  <2>9. sector_data' = <<s, IF CryptSucceeds THEN Decrypt(sector, s, <<"garbage">>)
                           ELSE <<"error">> >>
    BY <1>2 DEF ReadSector, key
  <2> HIDE DEF sector
  <2>10. QED
    BY <2>7, <2>8, <2>9
<1>3. CASE \E s \in Sectors : ReadSector(s)
  BY <1>1, <1>2, <1>3 DEF SectorInv
<1>4. CASE ~ \E s \in Sectors : ReadSector(s)
  <2>1. sector_data' = sector_data
    BY <1>4 DEF Next, OpenStep, vars, others, HeaderStep, CheckHeader,
       CheckHeaderFails, KdfStep, HashMasterKey, CheckKey, NextSlot, DeriveUserKey,
       UserKeyContext, ContextSteps, SetKeyOfContext, DecryptMaterialSector,
       MergeMaterial, MergeSteps, MasterKeyMerged, CheckSlot, VolumeContext,
       StaysLocked, Unlocked, KeysFail, Finished
  <2>2. QED
    BY <1>1, <2>1 DEF IInv, SectorInv
<1>5. QED
  BY <1>3, <1>4

-----------------------------------------------------------------------------
(* The theorems                                                            *)

LEMMA InitIInv ==
    ASSUME Init
    PROVE  IInv
<1>1. /\ kdf = KdfIdle /\ merge = MergeIdle /\ context = NoContext /\ ciphers = {}
      /\ volume_header = NoHeader /\ header_pc = "idle" /\ format \in Formats
      /\ stage = "header" /\ key_slot = 0 /\ key_material_data_offset = 0
      /\ split_master_key_data = <<>> /\ sector_data = <<>>
      /\ \/ master_key = Zeros(format.master_key_size)
         \/ master_key = MasterKeyOf(format)
         \/ master_key = Token("other", format.master_key_size)
      /\ volume_master_key_is_set \in BOOLEAN
  BY DEF Init, KdfInit, MergeInit, ContextInit, HeaderInit
<1>2. format.master_key_size \in Nat /\ KeyMaterialSize(format) \in Nat
      /\ NumberOfKeySlots \in Nat \ {0} /\ SectorCells \in Nat
  BY <1>1, FormatFacts, SizesAssumption
<1>3. HeaderInv
  BY <1>1 DEF HeaderInv, HeaderPlaces
<1>4. kdf.pc = "idle" /\ merge.pc = "idle" /\ context.pc = "idle"
  BY <1>1 DEF KdfIdle, MergeIdle, NoContext
<1>5. StageInv
  BY <1>1, <1>2, <1>4 DEF StageInv, Stages, SlotStages
<1>6. KdfInv /\ KdfCalled
  BY <1>1, <1>4, KdfInitInv DEF KdfCalled, KdfRuns
<1>7. MergeInv /\ MergeCalled /\ MergeOfKey
  BY <1>1, <1>4, MergeInitInv DEF MergeCalled, MergeOfKey, MergeRuns
<1>8. ContextInv /\ ContextCalled
  BY <1>1, <1>4, ContextInitInv DEF ContextCalled, Keyed
<1>9. KeyInv
  <2>1. IsSequenceOf(master_key, format.master_key_size)
    BY <1>1, <1>2, ZerosAreSequence, KeyIsSequence DEF Token, IsSequenceOf
  <2>2. key_material_data_offset = 0 * SectorCells
    BY <1>1, <1>2
  <2>3. IsSequenceOf(split_master_key_data, 0)
    BY <1>1 DEF IsSequenceOf
  <2>4. QED
    BY <1>1, <2>1, <2>2, <2>3 DEF KeyInv, Searching, SlotStages
<1>10. RightInv
  BY <1>1 DEF RightInv, Searching, SlotStages
<1>11. SectorInv
  BY <1>1 DEF SectorInv
<1>12. QED
  BY <1>1, <1>3, <1>5, <1>6, <1>7, <1>8, <1>9, <1>10, <1>11 DEF IInv

LEMMA NextIInv ==
    ASSUME IInv, [Next]_vars
    PROVE  IInv'
<1>1. format' \in Formats
  BY FormatKept DEF IInv
<1>2. QED
  BY <1>1, HeaderInvKept, StageInvKept, KdfInvKept, MergeInvKept, ContextInvKept,
     KeyInvKept, RightInvKept, SectorInvKept DEF IInv

\* Reading the keys of a volume keeps the inductive invariant, whatever the
\* format of the medium and whatever fails.
THEOREM DecryptionInvariant == Spec => []IInv
<1>1. Init => IInv
  BY InitIInv
<1>2. IInv /\ [Next]_vars => IInv'
  BY NextIInv
<1>3. QED
  BY <1>1, <1>2, PTL DEF Spec

\* Every component is at one of its places, and runs only where open_read_keys
\* waits for it (lines 1306-1775 of libluksde_volume.c).
THEOREM DecryptionTypeOK == Spec => []TypeOK
<1>1. IInv => TypeOK
  <2>1. SUFFICES ASSUME IInv PROVE TypeOK
    OBVIOUS
  <2>2. /\ StageInv /\ HeaderInv /\ KdfInv /\ MergeInv /\ ContextInv /\ KeyInv
        /\ format \in Formats
    BY <2>1 DEF IInv
  <2>3. Len(master_key) = format.master_key_size
    BY <2>2, FormatFacts, SequenceLength DEF KeyInv
  <2>4. ciphers \subseteq {"decryption", "encryption", "essiv"}
    BY <2>2 DEF ContextInv, CiphersAt
  <2>5. QED
    BY <2>2, <2>3, <2>4
       DEF TypeOK, StageInv, HeaderInv, KdfInv, MergeInv, ContextInv
<1>2. QED
  BY <1>1, DecryptionInvariant, PTL

\* pbkdf2 fills its output and nothing beside it (lines 463-482 of
\* libluksde_password.c).
THEOREM OutputFilled == Spec => []OutputIsFilled
<1>1. IInv => OutputIsFilled
  BY KdfProperties DEF IInv
<1>2. QED
  BY <1>1, DecryptionInvariant, PTL

\* pbkdf2 computes the key that PBKDF2 defines, for every size of a key and
\* number of iterations (lines 306-483 of libluksde_password.c).
THEOREM KeyDerived == Spec => []DerivesKey
<1>1. IInv => DerivesKey
  BY KdfProperties DEF IInv
<1>2. QED
  BY <1>1, DecryptionInvariant, PTL

\* merge and diffuse stay inside their buffers (lines 110-528 of
\* libluksde_diffuser.c).
THEOREM OffsetsStayInBuffers == Spec => []OffsetsInBuffers
<1>1. IInv => OffsetsInBuffers
  BY MergeProperties DEF IInv
<1>2. QED
  BY <1>1, DecryptionInvariant, PTL

\* Merging the stripes of a key gives the key, for every size of a key, number
\* of stripes and digest (lines 36-528 of libluksde_diffuser.c).
THEOREM MergeIsInverse == Spec => []MergeUndoesSplit
<1>1. IInv => MergeUndoesSplit
  BY DEF IInv, MergeOfKey, MergeRuns, MergeFollows, MergeUndoesSplit
<1>2. QED
  BY <1>1, DecryptionInvariant, PTL

\* No cipher context is left behind (lines 165-368 of
\* libluksde_encryption_context.c).
THEOREM NoCipherIsLeft == Spec => []CiphersBelongToContext
<1>1. IInv => CiphersBelongToContext
  BY ContextProperties DEF IInv
<1>2. QED
  BY <1>1, DecryptionInvariant, PTL

\* A context decrypts what it encrypts (lines 626-758 of
\* libluksde_encryption_context.c).
THEOREM DirectionsMatch == Spec => []ContextDirectionsAgree
<1>1. IInv => ContextDirectionsAgree
  BY ContextProperties DEF IInv
<1>2. QED
  BY <1>1, DecryptionInvariant, PTL

\* A header has all its key slots or none (lines 1128-1202 of
\* libluksde_volume_header.c).
THEOREM HeadersAreWhole == Spec => []HeaderIsWhole
<1>1. IInv => HeaderIsWhole
  BY HeaderProperty DEF IInv
<1>2. QED
  BY <1>1, DecryptionInvariant, PTL

\* A volume is read with no key but its own (lines 1340-1350 and 1719-1727 of
\* libluksde_volume.c).
THEOREM VolumeKeyOpens == Spec => []OnlyVolumeKeyOpens
<1>1. IInv => OnlyVolumeKeyOpens
  BY DEF IInv, KeyInv, OnlyVolumeKeyOpens
<1>2. QED
  BY <1>1, DecryptionInvariant, PTL

\* The right password is not turned away (lines 1352-1728 of
\* libluksde_volume.c).
THEOREM RightPasswordOpens == Spec => []RightPasswordIsEnough
<1>1. IInv => RightPasswordIsEnough
  BY DEF IInv, RightInv, RightPassword, RightPasswordIsEnough
<1>2. QED
  BY <1>1, DecryptionInvariant, PTL

\* The sectors of a volume whose format code and description have the same are
\* read as they were written (lines 945-1024 of
\* libluksde_encryption_context.c).
THEOREM SectorsAreRead == Spec => []KnownFormatIsRead
<1>1. IInv => KnownFormatIsRead
  BY DEF IInv, SectorInv, KnownFormatIsRead
<1>2. QED
  BY <1>1, DecryptionInvariant, PTL
=============================================================================
