-------------------------- MODULE VolumeReadProofs --------------------------
(***************************************************************************)
(* Proofs about VolumeRead, for any volumes, sector size, cache size and   *)
(* bounds on the application's calls: what the cache holds, what a read    *)
(* returns, and that the bytes it copies are the volume's.                 *)
(***************************************************************************)
EXTENDS VolumeRead, FiniteSetTheorems, TLAPS

USE VolumesAssumption, SizesAssumption

\* Where the loop of a read is: at the sector of the first byte, or past it
\* and at the start of a sector if the read started at one.
PositionInv ==
    \/ /\ buffer_offset = 0
       /\ sector_file_offset = SectorStart(start)
       /\ sector_data_offset = start % BytesPerSector
    \/ /\ buffer_offset >= BytesPerSector - (start % BytesPerSector)
       /\ sector_data_offset = 0
       /\ start % BytesPerSector = 0 =>
              /\ sector_file_offset = start + buffer_offset
              /\ sector_file_offset % BytesPerSector = 0

CopiedInv ==
    \A i \in 0 .. (buffer_offset - 1) : InFirstSectorOrAligned(i) => Right(i)

\* A read that is in its loop has an open volume, and has not moved the
\* offset yet.
LoopInv ==
    /\ file_io_handle # NoVolume
    /\ current_offset = start
    /\ buffer_offset < buffer_size
    /\ DOMAIN buffer = 0 .. (buffer_size - 1)
    /\ PositionInv
    /\ CopiedInv

ReadInv ==
    /\ TypeOK
    /\ IsFiniteSet(DOMAIN cache)
    /\ CacheIsOfOpenVolume
    /\ reading => LoopInv

-----------------------------------------------------------------------------
(* Sectors and offsets                                                     *)

LEMMA SumIsNatural ==
    ASSUME NEW m \in Nat, NEW n \in Nat
    PROVE  m + n \in Nat
OBVIOUS

LEMMA DivMod ==
    ASSUME NEW o \in Nat
    PROVE  /\ o \div BytesPerSector \in Nat
           /\ o % BytesPerSector \in 0 .. (BytesPerSector - 1)
           /\ o = BytesPerSector * (o \div BytesPerSector)
                  + (o % BytesPerSector)
BY Z3

LEMMA RemainderUnique ==
    ASSUME NEW p \in Nat, NEW q \in Nat,
           NEW r \in 0 .. (BytesPerSector - 1), NEW s \in 0 .. (BytesPerSector - 1),
           BytesPerSector * p + r = BytesPerSector * q + s
    PROVE  r = s
OBVIOUS

LEMMA MultipleHasNoRemainder ==
    ASSUME NEW q \in Nat
    PROVE  (BytesPerSector * q) % BytesPerSector = 0
BY DivMod, RemainderUnique

\* The sector of an offset begins on a sector boundary, at most its remainder
\* before it.
LEMMA SectorStartIsAligned ==
    ASSUME NEW o \in Nat
    PROVE  /\ SectorStart(o) \in Nat
           /\ SectorStart(o) + (o % BytesPerSector) = o
           /\ SectorStart(o) % BytesPerSector = 0
<1>1. SectorStart(o) = BytesPerSector * (o \div BytesPerSector)
  BY DivMod DEF SectorStart
<1> QED BY <1>1, DivMod, MultipleHasNoRemainder

LEMMA NextSectorIsAligned ==
    ASSUME NEW o \in Nat, o % BytesPerSector = 0
    PROVE  (o + BytesPerSector) % BytesPerSector = 0
<1> DEFINE q == o \div BytesPerSector
<1>1. q \in Nat /\ o = BytesPerSector * q
  BY DivMod
<1>2. q + 1 \in Nat
  BY <1>1
<1>3. o + BytesPerSector = BytesPerSector * (q + 1)
  BY <1>1, Z3
<1> HIDE DEF q
<1> QED BY <1>2, <1>3, MultipleHasNoRemainder

-----------------------------------------------------------------------------
(* The invariant                                                           *)

LEMMA EmptyCacheFits ==
    /\ DOMAIN EmptyCache = {}
    /\ IsFiniteSet({}) /\ Cardinality({}) = 0
BY FS_EmptySet DEF EmptyCache

LEMMA InitReadInv == Init => ReadInv
<1> SUFFICES ASSUME Init PROVE ReadInv
  OBVIOUS
<1>1. TypeOK
  <2>1. /\ DOMAIN cache = {}
        /\ Cardinality(DOMAIN cache) <= CacheSize
    BY EmptyCacheFits DEF Init
  <2>2. /\ buffer_offset \in 0 .. buffer_size
        /\ sector_data_offset \in 0 .. (BytesPerSector - 1)
        /\ result \in Nat \cup {-1}
    BY DEF Init
  <2>3. /\ file_io_handle \in Volumes \cup {NoVolume}
        /\ is_locked \in BOOLEAN /\ abort \in BOOLEAN /\ reading \in BOOLEAN
        /\ encrypted_volume_size \in Nat /\ current_offset \in Nat
        /\ start \in Nat /\ buffer_size \in Nat /\ sector_file_offset \in Nat
    BY DEF Init
  <2> QED BY <2>1, <2>2, <2>3 DEF TypeOK
<1> QED BY <1>1, EmptyCacheFits DEF Init, ReadInv, CacheIsOfOpenVolume

\* What the loop keeps when neither it nor what it reads from is touched.
LEMMA LoopKept ==
    ASSUME UNCHANGED <<file_io_handle, current_offset, request, loop>>, LoopInv
    PROVE  LoopInv'
BY DEF LoopInv, PositionInv, CopiedInv, Right, InFirstSectorOrAligned,
       SectorStart, request, loop

\* The cache has room for one more sector after it has dropped one.
LEMMA CacheSectorFits ==
    ASSUME ReadInv, reading, CacheSector, UNCHANGED file_io_handle
    PROVE  /\ DOMAIN cache' \subseteq Nat
           /\ IsFiniteSet(DOMAIN cache')
           /\ Cardinality(DOMAIN cache') <= CacheSize
           /\ \A o \in DOMAIN cache' : cache'[o] \in Volumes
           /\ CacheIsOfOpenVolume'
<1> USE DEF ReadInv
<1>1. CASE Cached
  BY <1>1 DEF CacheSector, TypeOK, CacheIsOfOpenVolume
<1>2. CASE ~Cached
  <2>1. PICK kept \in SUBSET DOMAIN cache :
            /\ Cardinality(kept) < CacheSize
            /\ cache' = [o \in kept \cup {sector_file_offset} |->
                            IF o \in kept THEN cache[o] ELSE file_io_handle]
    BY <1>2 DEF CacheSector
  <2>2. sector_file_offset \notin kept
    BY <1>2 DEF Cached
  <2>3. IsFiniteSet(kept) /\ Cardinality(kept) \in Nat
    BY FS_Subset, FS_CardinalityType
  <2>4. DOMAIN cache' = kept \cup {sector_file_offset}
    BY <2>1
  <2>5. IsFiniteSet(DOMAIN cache') /\ Cardinality(DOMAIN cache') <= CacheSize
    <3>1. Cardinality(DOMAIN cache') = Cardinality(kept) + 1
      BY <2>2, <2>3, <2>4, FS_AddElement
    <3>2. IsFiniteSet(DOMAIN cache')
      BY <2>3, <2>4, FS_AddElement
    <3> QED BY <2>1, <2>3, <3>1, <3>2
  <2>6. \A o \in DOMAIN cache' : cache'[o] = file_io_handle
    BY <2>1, <2>4 DEF CacheIsOfOpenVolume
  <2> QED BY <2>4, <2>5, <2>6 DEF TypeOK, CacheIsOfOpenVolume, LoopInv
<1> QED BY <1>1, <1>2

\* The size of the copy of one round: to the end of the sector or of the
\* buffer, and never nothing.
LEMMA ReadSizeBounds ==
    ASSUME TypeOK, LoopInv
    PROVE  /\ ReadSize \in Nat \ {0}
           /\ buffer_offset + ReadSize <= buffer_size
           /\ \/ ReadSize = BytesPerSector - sector_data_offset
              \/ buffer_offset + ReadSize = buffer_size
BY DEF TypeOK, LoopInv, ReadSize, Smaller

\* One round of the loop copies the volume's bytes.
LEMMA ReadSectorCopies ==
    ASSUME ReadInv, reading, ReadSector
    PROVE  CopiedInv'
<1> USE DEF ReadInv
<1>1. TypeOK /\ LoopInv
  OBVIOUS
<1>2. /\ UNCHANGED <<file_io_handle, start, buffer_size>>
      /\ buffer_offset' = buffer_offset + ReadSize
  BY DEF ReadSector, volume
<1>3. CopySector(file_io_handle)
  BY DEF ReadSector, Cached, CacheIsOfOpenVolume
<1> SUFFICES ASSUME NEW i \in 0 .. (buffer_offset' - 1),
                    InFirstSectorOrAligned(i)
             PROVE  buffer'[i] = <<file_io_handle, start + i>>
  BY <1>2 DEF CopiedInv, InFirstSectorOrAligned, Right
<1>4. i \in DOMAIN buffer
  BY <1>1, <1>2, ReadSizeBounds DEF LoopInv, TypeOK
<1>5. CASE i \in 0 .. (buffer_offset - 1)
  <2>1. i \notin buffer_offset .. (buffer_offset + ReadSize - 1)
    BY <1>1, <1>5, ReadSizeBounds DEF TypeOK
  <2>2. buffer'[i] = buffer[i]
    BY <1>3, <1>4, <2>1 DEF CopySector
  <2> QED BY <1>1, <1>5, <2>2 DEF LoopInv, CopiedInv, Right
<1>6. CASE i \in buffer_offset .. (buffer_offset + ReadSize - 1)
  <2>1. buffer'[i] = SectorData(file_io_handle,
                                sector_data_offset + i - buffer_offset)
    BY <1>3, <1>4, <1>6 DEF CopySector
  <2>2. start % BytesPerSector \in 0 .. (BytesPerSector - 1)
    BY DivMod DEF TypeOK
  <2>3. /\ sector_file_offset % BytesPerSector = 0
        /\ sector_file_offset + (sector_data_offset + i - buffer_offset)
               = start + i
    <3>1. CASE /\ buffer_offset = 0
               /\ sector_file_offset = SectorStart(start)
               /\ sector_data_offset = start % BytesPerSector
      <4>1. /\ SectorStart(start) \in Nat
            /\ SectorStart(start) + (start % BytesPerSector) = start
            /\ SectorStart(start) % BytesPerSector = 0
        BY <1>1, SectorStartIsAligned DEF TypeOK
      <4> QED BY <1>1, <2>2, <3>1, <4>1 DEF TypeOK
    <3>2. CASE /\ buffer_offset >= BytesPerSector - (start % BytesPerSector)
               /\ sector_data_offset = 0
               /\ start % BytesPerSector = 0 =>
                      /\ sector_file_offset = start + buffer_offset
                      /\ sector_file_offset % BytesPerSector = 0
      <4>1. start % BytesPerSector = 0
        BY <1>1, <1>6, <2>2, <3>2 DEF TypeOK, InFirstSectorOrAligned
      <4> QED BY <1>1, <1>6, <3>2, <4>1 DEF TypeOK
    <3> QED BY <1>1, <3>1, <3>2 DEF LoopInv, PositionInv
  <2> QED BY <2>1, <2>3 DEF SectorData
<1> QED BY <1>1, <1>2, <1>5, <1>6, ReadSizeBounds DEF TypeOK

\* The loop that goes on is past the first sector, at the start of the next.
LEMMA ReadSectorMoves ==
    ASSUME ReadInv, reading, ReadSector, buffer_offset' # buffer_size
    PROVE  PositionInv'
<1> USE DEF ReadInv
<1>1. TypeOK /\ LoopInv
  OBVIOUS
<1>2. /\ UNCHANGED start
      /\ buffer_offset' = buffer_offset + ReadSize
      /\ sector_file_offset' = sector_file_offset + ReadSize
      /\ sector_data_offset' = 0
  BY DEF ReadSector
<1>3. ReadSize = BytesPerSector - sector_data_offset
  BY <1>1, <1>2, ReadSizeBounds
<1>4. start % BytesPerSector \in 0 .. (BytesPerSector - 1)
  BY DivMod DEF TypeOK
<1>5. CASE /\ buffer_offset = 0
           /\ sector_file_offset = SectorStart(start)
           /\ sector_data_offset = start % BytesPerSector
  <2>1. buffer_offset' = BytesPerSector - (start % BytesPerSector)
    BY <1>2, <1>3, <1>4, <1>5
  <2>2. ASSUME start % BytesPerSector = 0
        PROVE  /\ sector_file_offset' = start + buffer_offset'
               /\ sector_file_offset' % BytesPerSector = 0
    <3>1. start = sector_file_offset /\ ReadSize = BytesPerSector
      BY <1>1, <1>3, <1>5, <2>2, SectorStartIsAligned DEF TypeOK
    <3> QED BY <1>1, <1>2, <1>5, <2>2, <3>1, NextSectorIsAligned DEF TypeOK
  <2> QED BY <1>2, <1>4, <2>1, <2>2 DEF PositionInv
<1>6. CASE /\ buffer_offset >= BytesPerSector - (start % BytesPerSector)
           /\ sector_data_offset = 0
           /\ start % BytesPerSector = 0 =>
                  /\ sector_file_offset = start + buffer_offset
                  /\ sector_file_offset % BytesPerSector = 0
  <2>1. ReadSize = BytesPerSector
    BY <1>3, <1>6
  <2>2. buffer_offset' >= BytesPerSector - (start % BytesPerSector)
    BY <1>1, <1>2, <1>4, <1>6, <2>1 DEF TypeOK
  <2>3. ASSUME start % BytesPerSector = 0
        PROVE  /\ sector_file_offset' = start + buffer_offset'
               /\ sector_file_offset' % BytesPerSector = 0
    <3>1. /\ sector_file_offset \in Nat
          /\ sector_file_offset % BytesPerSector = 0
          /\ sector_file_offset' = sector_file_offset + BytesPerSector
      BY <1>1, <1>2, <1>6, <2>1, <2>3 DEF TypeOK
    <3>2. sector_file_offset' % BytesPerSector = 0
      BY <3>1, NextSectorIsAligned
    <3>3. sector_file_offset' = start + buffer_offset'
      BY <1>1, <1>2, <1>6, <2>1, <2>3 DEF TypeOK
    <3> QED BY <3>2, <3>3
  <2> QED BY <1>2, <2>2, <2>3 DEF PositionInv
<1> QED BY <1>1, <1>5, <1>6 DEF LoopInv, PositionInv

\* A step that leaves the cache alone.
LEMMA CacheKept ==
    ASSUME ReadInv, UNCHANGED <<file_io_handle, cache>>
    PROVE  /\ DOMAIN cache' \subseteq Nat
           /\ IsFiniteSet(DOMAIN cache')
           /\ Cardinality(DOMAIN cache') <= CacheSize
           /\ \A o \in DOMAIN cache' : cache'[o] \in Volumes
           /\ CacheIsOfOpenVolume'
BY DEF ReadInv, TypeOK, CacheIsOfOpenVolume

\* The other way round: the cache is emptied.
LEMMA CacheEmptied ==
    ASSUME cache' = EmptyCache
    PROVE  /\ DOMAIN cache' \subseteq Nat
           /\ IsFiniteSet(DOMAIN cache')
           /\ Cardinality(DOMAIN cache') <= CacheSize
           /\ \A o \in DOMAIN cache' : cache'[o] \in Volumes
           /\ CacheIsOfOpenVolume'
<1>1. DOMAIN cache' = {}
  BY EmptyCacheFits
<1> QED BY <1>1, EmptyCacheFits DEF CacheIsOfOpenVolume

\* The start of a read, at the offset the application gave or moved to.
LEMMA ReadFromInv ==
    ASSUME ReadInv, ~reading, Readable, NEW size \in Nat, NEW offset \in Nat,
           ReadFrom(offset, size), UNCHANGED <<volume, cache>>
    PROVE  ReadInv'
<1>0. TypeOK
  BY DEF ReadInv
<1>1. /\ DOMAIN cache' \subseteq Nat
      /\ IsFiniteSet(DOMAIN cache')
      /\ Cardinality(DOMAIN cache') <= CacheSize
      /\ \A o \in DOMAIN cache' : cache'[o] \in Volumes
      /\ CacheIsOfOpenVolume'
  BY CacheKept DEF volume
<1>2. /\ current_offset' = offset /\ start' = offset
      /\ abort' = FALSE /\ buffer_offset' = 0
      /\ UNCHANGED <<file_io_handle, is_locked, encrypted_volume_size>>
  BY DEF ReadFrom, volume
<1>3. CASE offset >= encrypted_volume_size \/ size = 0
  <2>1. /\ buffer_size' = 0 /\ result' = 0
        /\ UNCHANGED <<reading, sector_file_offset, sector_data_offset>>
    BY <1>3 DEF ReadFrom
  <2>2. TypeOK'
    <3>1. result' \in Nat \cup {-1} /\ buffer_offset' \in 0 .. buffer_size'
      BY <1>2, <2>1
    <3> QED BY <1>0, <1>1, <1>2, <2>1, <3>1 DEF TypeOK
  <2> QED BY <1>1, <2>1, <2>2 DEF ReadInv
<1>4. CASE ~(offset >= encrypted_volume_size \/ size = 0)
  <2>1. /\ buffer_size' = Smaller(size, encrypted_volume_size - offset)
        /\ buffer' = [i \in 0 .. (buffer_size' - 1) |-> Unset]
        /\ sector_file_offset' = SectorStart(offset)
        /\ sector_data_offset' = offset - SectorStart(offset)
        /\ reading' = TRUE /\ UNCHANGED result
    BY <1>4 DEF ReadFrom
  <2>2. buffer_size' \in Nat /\ buffer_size' > 0
    BY <1>4, <2>1 DEF ReadInv, TypeOK, Smaller
  <2>3. /\ SectorStart(offset) \in Nat
        /\ offset - SectorStart(offset) = offset % BytesPerSector
        /\ offset % BytesPerSector \in 0 .. (BytesPerSector - 1)
    <3>1. /\ SectorStart(offset) \in Nat
          /\ SectorStart(offset) + (offset % BytesPerSector) = offset
      BY SectorStartIsAligned
    <3>2. offset % BytesPerSector \in 0 .. (BytesPerSector - 1)
      BY DivMod
    <3> QED BY <3>1, <3>2
  <2>4. TypeOK'
    <3>1. buffer_offset' \in 0 .. buffer_size'
      BY <1>2, <2>2
    <3>2. /\ sector_file_offset' \in Nat
          /\ sector_data_offset' \in 0 .. (BytesPerSector - 1)
      BY <2>1, <2>3
    <3> QED BY <1>0, <1>1, <1>2, <2>1, <2>2, <3>1, <3>2 DEF TypeOK
  <2>5. LoopInv'
    <3>1. PositionInv'
      BY <1>2, <2>1, <2>3 DEF PositionInv, SectorStart
    <3>2. CopiedInv'
      BY <1>2 DEF CopiedInv
    <3> QED BY <1>2, <2>1, <2>2, <3>1, <3>2 DEF LoopInv, Readable
  <2> QED BY <1>1, <2>4, <2>5 DEF ReadInv
<1> QED BY <1>3, <1>4

\* What a round of the loop does, whether it is the last or not.
LEMMA ReadSectorInv ==
    ASSUME ReadInv, ReadSector
    PROVE  ReadInv'
<1>1. reading /\ TypeOK /\ LoopInv
  BY DEF ReadSector, ReadInv
<1>2. /\ DOMAIN cache' \subseteq Nat
      /\ IsFiniteSet(DOMAIN cache')
      /\ Cardinality(DOMAIN cache') <= CacheSize
      /\ \A o \in DOMAIN cache' : cache'[o] \in Volumes
      /\ CacheIsOfOpenVolume'
  BY <1>1, CacheSectorFits DEF ReadSector, volume
<1>3. /\ UNCHANGED <<file_io_handle, is_locked, encrypted_volume_size, abort,
                     start, buffer_size>>
      /\ buffer_offset' = buffer_offset + ReadSize
      /\ sector_file_offset' = sector_file_offset + ReadSize
      /\ sector_data_offset' = 0
      /\ DOMAIN buffer' = DOMAIN buffer
  BY DEF ReadSector, CopySector, volume
<1>4. /\ ReadSize \in Nat
      /\ buffer_offset' \in 0 .. buffer_size
  BY <1>1, <1>3, ReadSizeBounds DEF TypeOK
<1>5. CASE abort \/ buffer_offset' = buffer_size
  <2>0. reading' = FALSE
    BY <1>5 DEF ReadSector
  <2>1. /\ current_offset' = current_offset + buffer_offset'
        /\ result' = buffer_offset'
    BY <1>5 DEF ReadSector
  <2>2. TypeOK'
    <3>1. current_offset' \in Nat /\ result' \in Nat
      <4>1. current_offset \in Nat /\ buffer_size \in Nat
        BY <1>1 DEF TypeOK
      <4>2. buffer_offset' \in Nat
        BY <1>4, <4>1
      <4>3. result' \in Nat
        BY <2>1, <4>2
      <4>4. current_offset' \in Nat
        BY <2>1, <4>1, <4>2, SumIsNatural
      <4> QED BY <4>3, <4>4
    <3>2. /\ buffer_offset' \in 0 .. buffer_size'
          /\ sector_file_offset' \in Nat
          /\ sector_data_offset' \in 0 .. (BytesPerSector - 1)
      BY <1>1, <1>3, <1>4 DEF TypeOK
    <3> QED BY <1>1, <1>2, <1>3, <2>0, <3>1, <3>2 DEF TypeOK
  <2> QED BY <1>2, <2>0, <2>2 DEF ReadInv
<1>6. CASE ~(abort \/ buffer_offset' = buffer_size)
  <2>1. UNCHANGED <<reading, current_offset, result>>
    BY <1>6 DEF ReadSector
  <2>2. TypeOK'
    BY <1>1, <1>2, <1>3, <1>4, <2>1 DEF TypeOK
  <2>3. PositionInv' /\ CopiedInv'
    BY <1>1, <1>6, ReadSectorMoves, ReadSectorCopies
  <2>4. LoopInv'
    BY <1>1, <1>3, <1>4, <1>6, <2>1, <2>3 DEF LoopInv, TypeOK
  <2> QED BY <1>2, <2>2, <2>4 DEF ReadInv
<1> QED BY <1>5, <1>6

LEMMA NextReadInv == ReadInv /\ [Next]_vars => ReadInv'
<1> SUFFICES ASSUME ReadInv, [Next]_vars PROVE ReadInv'
  OBVIOUS
<1>0. TypeOK
  BY DEF ReadInv
<1>1. ASSUME NEW v \in Volumes, Open(v) PROVE ReadInv'
  <2>1. Size[v] \in Nat
    OBVIOUS
  <2>2. ~reading'
    BY <1>1 DEF Open
  <2>3. TypeOK'
    BY <1>0, <1>1, <2>1, CacheEmptied DEF Open, TypeOK, request, loop
  <2> QED BY <1>1, <2>2, <2>3, CacheEmptied DEF Open, ReadInv
<1>2. ASSUME NEW v \in Volumes, OpenFails(v) PROVE ReadInv'
  <2>1. Size[v] \in Nat
    OBVIOUS
  <2>2. ~reading'
    BY <1>2 DEF OpenFails
  <2>3. TypeOK'
    BY <1>0, <1>2, <2>1, CacheKept DEF OpenFails, TypeOK, request, loop
  <2> QED BY <1>2, <2>2, <2>3, CacheKept DEF OpenFails, ReadInv
<1>3. CASE Unlock
  <2>1. ~reading'
    BY <1>3 DEF Unlock
  <2>2. TypeOK'
    BY <1>0, <1>3, CacheKept DEF Unlock, TypeOK, request, loop
  <2> QED BY <1>3, <2>1, <2>2, CacheKept DEF Unlock, ReadInv
<1>4. CASE Close
  <2>1. ~reading'
    BY <1>4 DEF Close
  <2>2. TypeOK'
    BY <1>0, <1>4, CacheEmptied DEF Close, TypeOK, request, loop
  <2> QED BY <1>4, <2>1, <2>2, CacheEmptied DEF Close, ReadInv
<1>5. ASSUME NEW offset \in Offsets, NEW whence \in Whences,
             SeekOffset(offset, whence)
      PROVE  ReadInv'
  <2>1. Target(offset, whence) \in Int
    <3>1. offset \in Int
      BY DEF Offsets
    <3> QED BY <1>0, <3>1 DEF Target, Whences, TypeOK
  <2>2. current_offset' \in Nat /\ result' \in Nat
    BY <1>5, <2>1 DEF SeekOffset
  <2>3. ~reading'
    BY <1>5 DEF SeekOffset
  <2>4. TypeOK'
    BY <1>0, <1>5, <2>2, CacheKept DEF SeekOffset, TypeOK, volume, request, loop
  <2> QED BY <1>5, <2>3, <2>4, CacheKept DEF SeekOffset, ReadInv, volume
<1>6. ASSUME NEW offset \in Offsets, NEW whence \in Whences,
             SeekOffsetFails(offset, whence)
      PROVE  ReadInv'
  <2>1. ~reading'
    BY <1>6 DEF SeekOffsetFails
  <2>2. TypeOK'
    BY <1>0, <1>6, CacheKept
       DEF SeekOffsetFails, TypeOK, volume, request, loop
  <2> QED BY <1>6, <2>1, <2>2, CacheKept DEF SeekOffsetFails, ReadInv, volume
<1>7. ASSUME NEW size \in 0 .. MaxBufferSize, ReadBuffer(size) PROVE ReadInv'
  <2>1. size \in Nat /\ current_offset \in Nat
    BY <1>0 DEF TypeOK
  <2> QED BY <1>7, <2>1, ReadFromInv DEF ReadBuffer
<1>8. ASSUME NEW size \in 0 .. MaxBufferSize, NEW offset \in Offsets,
             ReadBufferAtOffset(size, offset)
      PROVE  ReadInv'
  <2>1. size \in Nat /\ offset \in Nat
    BY <1>8 DEF ReadBufferAtOffset, Offsets
  <2> QED BY <1>8, <2>1, ReadFromInv DEF ReadBufferAtOffset
<1>9. ASSUME NEW offset \in Offsets, ReadRefused(offset) PROVE ReadInv'
  <2>1. ~reading'
    BY <1>9 DEF ReadRefused
  <2>2. TypeOK'
    BY <1>0, <1>9, CacheKept DEF ReadRefused, TypeOK, volume, request, loop
  <2> QED BY <1>9, <2>1, <2>2, CacheKept DEF ReadRefused, ReadInv, volume
<1>10. CASE ReadSectorFails
  <2>1. ~reading'
    BY <1>10 DEF ReadSectorFails
  <2>2. TypeOK'
    BY <1>0, <1>10, CacheKept DEF ReadSectorFails, TypeOK, volume, request, loop
  <2> QED BY <1>10, <2>1, <2>2, CacheKept DEF ReadSectorFails, ReadInv, volume
<1>11. CASE SignalAbort
  <2>1. TypeOK'
    BY <1>0, <1>11, CacheKept DEF SignalAbort, TypeOK, volume, request, loop
  <2>2. reading' => LoopInv'
    BY <1>11, LoopKept DEF SignalAbort, ReadInv, volume
  <2> QED BY <1>11, <2>1, <2>2, CacheKept DEF SignalAbort, ReadInv, volume
<1>12. CASE UNCHANGED vars
  <2>1. TypeOK'
    BY <1>0, <1>12, CacheKept DEF vars, TypeOK, volume, request, loop
  <2>2. reading' => LoopInv'
    BY <1>12, LoopKept DEF vars, ReadInv, volume
  <2> QED BY <1>12, <2>1, <2>2, CacheKept DEF vars, ReadInv, volume
<1> QED BY <1>1, <1>2, <1>3, <1>4, <1>5, <1>6, <1>7, <1>8, <1>9, <1>10, <1>11,
           <1>12, ReadSectorInv DEF Next, Handle, Call, Proceed

-----------------------------------------------------------------------------
(* The theorems                                                            *)

\* ReadInv holds in every state of every execution.
THEOREM ReadInvariant == Spec => []ReadInv
<1> QED BY InitReadInv, NextReadInv, PTL DEF Spec

\* The cache keeps to its size, and the loop to its buffer and its sector.
THEOREM ReadTypes == Spec => []TypeOK
<1>1. ReadInv => TypeOK
  BY DEF ReadInv
<1> QED BY <1>1, ReadInvariant, PTL

\* No sector of a volume that was closed is handed out for the next one.
THEOREM CacheOfOpenVolume == Spec => []CacheIsOfOpenVolume
<1>1. ReadInv => CacheIsOfOpenVolume
  BY DEF ReadInv
<1> QED BY <1>1, ReadInvariant, PTL

\* The steps a read takes part in: its own, and those beside it.
LEMMA ReadSteps ==
    ASSUME ReadInv, reading, [Next]_vars
    PROVE  ReadSector \/ ReadSectorFails \/ SignalAbort \/ UNCHANGED vars
BY DEF Next, Handle, Call, Proceed, Open, OpenFails, Unlock, Close,
       SeekOffset, SeekOffsetFails, ReadBuffer, ReadBufferAtOffset, ReadRefused

\* A read moves the offset by what it reports, reports less than was asked
\* for only when it was aborted, and leaves the offset alone when it fails.
THEOREM ReadsAccount == Spec => ReadsAccountForOffset
<1> DEFINE Accounts ==
        reading /\ ~reading' =>
            \/ result' = -1 /\ current_offset' = start
            \/ /\ result' = buffer_offset'
               /\ current_offset' = start + result'
               /\ abort \/ result' = buffer_size
<1>1. ASSUME ReadInv, [Next]_vars PROVE [Accounts]_vars
  <2> SUFFICES ASSUME reading, ~reading' PROVE Accounts
    OBVIOUS
  <2>1. LoopInv
    BY <1>1 DEF ReadInv
  <2>2. CASE ReadSector
    BY <2>1, <2>2 DEF ReadSector, LoopInv
  <2>3. CASE ReadSectorFails
    BY <2>1, <2>3 DEF ReadSectorFails, LoopInv
  <2>4. CASE SignalAbort \/ UNCHANGED vars
    BY <2>4 DEF SignalAbort, vars
  <2> QED BY <1>1, <2>2, <2>3, <2>4, ReadSteps
<1> QED BY <1>1, ReadInvariant, PTL DEF Spec, ReadsAccountForOffset

\* Every byte a read that starts on a sector boundary, or ends in the sector
\* it starts in, copies to the buffer is the byte of the open volume at that
\* offset, from the storage medium or the cache.
THEOREM CopiedBytesRight == Spec => CopiedBytesAreRight
<1> DEFINE Rights ==
        reading => \A i \in 0 .. (buffer_offset' - 1) :
                      (InFirstSectorOrAligned(i) => Right(i))'
<1>1. ASSUME ReadInv, [Next]_vars PROVE [Rights]_vars
  <2> SUFFICES ASSUME reading PROVE Rights
    OBVIOUS
  <2>1. CopiedInv'
    <3>1. LoopInv
      BY <1>1 DEF ReadInv
    <3>2. CASE ReadSector
      BY <1>1, <3>2, ReadSectorCopies
    <3>3. CASE ReadSectorFails \/ SignalAbort \/ UNCHANGED vars
      <4>1. UNCHANGED <<file_io_handle, request, loop>>
        BY <3>3 DEF ReadSectorFails, SignalAbort, vars, volume
      <4> QED BY <3>1, <4>1
              DEF LoopInv, CopiedInv, Right, InFirstSectorOrAligned, request,
                  loop
    <3> QED BY <1>1, <3>2, <3>3, ReadSteps
  <2> QED BY <2>1 DEF CopiedInv
<1> QED BY <1>1, ReadInvariant, PTL DEF Spec, CopiedBytesAreRight
=============================================================================
