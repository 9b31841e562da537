----------------------------- MODULE VolumeRead -----------------------------
(***************************************************************************)
(* Reading the data of an unlocked volume: seek, read at the current or at *)
(* a given offset, the sector cache, and the abort signal, over the        *)
(* openings and closings of a volume handle (libluksde_volume.c,           *)
(* libluksde_sector_data_vector.c, libluksde_sector_data.c).               *)
(*                                                                         *)
(* A read holds the volume's write lock, and its loop takes one step per   *)
(* sector; signal_abort takes no lock and comes at any time.               *)
(*                                                                         *)
(* A byte of plaintext is named by its volume and offset.  A sector is     *)
(* decrypted with an initialization vector made from its number, so that   *)
(* one read from an offset between two sectors decrypts to Garbage; that   *)
(* some modes get some of its bytes right is left out.                     *)
(***************************************************************************)
EXTENDS Integers, FiniteSets

CONSTANTS
    Volumes,
    NoVolume,           \* file_io_handle is NULL
    Size,               \* encrypted_volume_size of each volume
    BytesPerSector,     \* 512 in the code
    CacheSize,          \* LIBLUKSDE_MAXIMUM_CACHE_ENTRIES_SECTOR_DATA
    Garbage,            \* a byte that was not decrypted rightly
    Unset,              \* a byte of the buffer that was not written
    MaxOffset,          \* bound on the offsets an application asks for
    MaxBufferSize       \* bound on the size of its buffer

ASSUME VolumesAssumption ==
    /\ NoVolume \notin Volumes
    /\ Size \in [Volumes -> Nat]

ASSUME SizesAssumption ==
    /\ BytesPerSector \in Nat \ {0}
    /\ CacheSize \in Nat \ {0}
    /\ MaxOffset \in Nat
    /\ MaxBufferSize \in Nat

VARIABLES
    file_io_handle,         \* the volume that is open, or NoVolume
    is_locked,
    encrypted_volume_size,
    current_offset,
    cache,                  \* sector offset -> the volume it was read from
    abort,
    reading,                \* a read is in its loop
    start,                  \* where it started: current_offset at its call
    buffer_size,            \* the size asked for, cut at the volume's end
    buffer,                 \* the application's buffer
    buffer_offset,
    sector_file_offset,
    sector_data_offset,
    result                  \* what the last seek or read returned

volume == <<file_io_handle, is_locked, encrypted_volume_size>>
request == <<start, buffer_size, buffer>>
loop   == <<buffer_offset, sector_file_offset, sector_data_offset>>
vars   == <<volume, current_offset, cache, abort, reading, request, loop,
            result>>

EmptyCache == [o \in {} |-> NoVolume]

Init ==
    /\ file_io_handle = NoVolume
    /\ is_locked = TRUE
    /\ encrypted_volume_size = 0
    /\ current_offset = 0
    /\ cache = EmptyCache
    /\ abort = FALSE
    /\ reading = FALSE
    /\ start = 0
    /\ buffer_size = 0
    /\ buffer = [i \in {} |-> Unset]
    /\ buffer_offset = 0
    /\ sector_file_offset = 0
    /\ sector_data_offset = 0
    /\ result = 0

-----------------------------------------------------------------------------
(* Opening, unlocking and closing, as far as reads depend on them          *)

Open(v) ==
    /\ ~reading
    /\ file_io_handle = NoVolume
    /\ file_io_handle' = v
    /\ encrypted_volume_size' = Size[v]
    /\ is_locked' \in BOOLEAN
    /\ cache' = EmptyCache
    /\ UNCHANGED <<current_offset, abort, reading, request, loop, result>>

\* The size is taken from the header before the open fails on the keys.
OpenFails(v) ==
    /\ ~reading
    /\ file_io_handle = NoVolume
    /\ encrypted_volume_size' = Size[v]
    /\ UNCHANGED <<file_io_handle, is_locked, current_offset, cache, abort,
                   reading, request, loop, result>>

Unlock ==
    /\ ~reading
    /\ file_io_handle # NoVolume
    /\ is_locked
    /\ is_locked' = FALSE
    /\ UNCHANGED <<file_io_handle, encrypted_volume_size, current_offset,
                   cache, abort, reading, request, loop, result>>

\* Mutant of Close: the sector data vector and its cache are kept.
CloseKeepingCache ==
    /\ ~reading
    /\ file_io_handle # NoVolume
    /\ file_io_handle' = NoVolume
    /\ is_locked' = TRUE
    /\ current_offset' = 0
    /\ UNCHANGED <<encrypted_volume_size, cache, abort, reading, request,
                   loop, result>>

\* The size and the abort flag of the IO handle survive.
Close ==
    /\ ~reading
    /\ file_io_handle # NoVolume
    /\ file_io_handle' = NoVolume
    /\ is_locked' = TRUE
    /\ current_offset' = 0
    /\ cache' = EmptyCache
    /\ UNCHANGED <<encrypted_volume_size, abort, reading, request, loop,
                   result>>

-----------------------------------------------------------------------------
(* Seeking                                                                 *)

Readable == file_io_handle # NoVolume /\ ~is_locked

\* The offset a seek leads to, for the three values of whence.
Target(offset, whence) ==
    CASE whence = "SEEK_SET" -> offset
      [] whence = "SEEK_CUR" -> current_offset + offset
      [] whence = "SEEK_END" -> encrypted_volume_size + offset

\* An offset beyond the end of the volume is accepted.
SeekOffset(offset, whence) ==
    /\ ~reading
    /\ Readable
    /\ Target(offset, whence) >= 0
    /\ Target(offset, whence) <= MaxOffset
    /\ current_offset' = Target(offset, whence)
    /\ result' = current_offset'
    /\ UNCHANGED <<volume, cache, abort, reading, request, loop>>

SeekOffsetFails(offset, whence) ==
    /\ ~reading
    /\ ~Readable \/ Target(offset, whence) < 0
    /\ result' = -1
    /\ UNCHANGED <<volume, current_offset, cache, abort, reading, request,
                   loop>>

-----------------------------------------------------------------------------
(* Reading                                                                 *)

Smaller(m, n) == IF m < n THEN m ELSE n

SectorStart(offset) == (offset \div BytesPerSector) * BytesPerSector

\* The start of read_buffer_from_file_io_handle at an offset.  An abort that
\* was signalled before is forgotten.
ReadFrom(offset, size) ==
    /\ current_offset' = offset
    /\ abort' = FALSE
    /\ start' = offset
    /\ buffer_offset' = 0
    /\ IF offset >= encrypted_volume_size \/ size = 0
       THEN /\ result' = 0
            /\ buffer_size' = 0
            /\ buffer' = [i \in {} |-> Unset]
            /\ UNCHANGED <<reading, sector_file_offset, sector_data_offset>>
       ELSE /\ buffer_size' = Smaller(size, encrypted_volume_size - offset)
            /\ buffer' = [i \in 0 .. (buffer_size' - 1) |-> Unset]
            /\ sector_file_offset' = SectorStart(offset)
            /\ sector_data_offset' = offset - SectorStart(offset)
            /\ reading' = TRUE
            /\ UNCHANGED result

ReadBuffer(size) ==
    /\ ~reading
    /\ Readable
    /\ ReadFrom(current_offset, size)
    /\ UNCHANGED <<volume, cache>>

\* Seeks first: the offset stays there when the read fails.
ReadBufferAtOffset(size, offset) ==
    /\ ~reading
    /\ Readable
    /\ offset >= 0
    /\ ReadFrom(offset, size)
    /\ UNCHANGED <<volume, cache>>

\* A volume that is closed or locked, or a negative offset.
ReadRefused(offset) ==
    /\ ~reading
    /\ ~Readable \/ offset < 0
    /\ result' = -1
    /\ UNCHANGED <<volume, current_offset, cache, abort, reading, request,
                   loop>>

\* Mutant of ReadSize: what is left of the buffer is not looked at.
ReadSizeUnclamped == BytesPerSector - sector_data_offset

ReadSize == Smaller(BytesPerSector - sector_data_offset,
                    buffer_size - buffer_offset)

Cached == sector_file_offset \in DOMAIN cache

\* The bytes of a sector that was read from a volume, by their index in it.
SectorData(v, i) ==
    IF sector_file_offset % BytesPerSector = 0
    THEN <<v, sector_file_offset + i>>
    ELSE Garbage

\* The cache drops at most one sector, of its own choice, and one when it is
\* full.
CacheSector ==
    IF Cached
    THEN UNCHANGED cache
    ELSE \E kept \in SUBSET DOMAIN cache :
             /\ Cardinality(kept) >= Cardinality(DOMAIN cache) - 1
             /\ Cardinality(kept) < CacheSize
             /\ cache' = [o \in kept \cup {sector_file_offset} |->
                             IF o \in kept THEN cache[o] ELSE file_io_handle]

\* Mutant of CopySector: the offset in the first sector is forgotten.
CopySectorFromStart(v) ==
    buffer' = [i \in DOMAIN buffer |->
                  IF i \in buffer_offset .. (buffer_offset + ReadSize - 1)
                  THEN SectorData(v, i - buffer_offset)
                  ELSE buffer[i]]

CopySector(v) ==
    buffer' = [i \in DOMAIN buffer |->
                  IF i \in buffer_offset .. (buffer_offset + ReadSize - 1)
                  THEN SectorData(v, sector_data_offset + i - buffer_offset)
                  ELSE buffer[i]]

\* Mutant of ReadSector: the abort flag leaves the loop before the copied
\* bytes are counted.
ReadSectorAbortFirst ==
    /\ reading
    /\ Cached \/ sector_file_offset + BytesPerSector <= encrypted_volume_size
    /\ CacheSector
    /\ CopySector(IF Cached THEN cache[sector_file_offset] ELSE file_io_handle)
    /\ IF abort
       THEN UNCHANGED buffer_offset
       ELSE buffer_offset' = buffer_offset + ReadSize
    /\ sector_file_offset' = sector_file_offset + ReadSize
    /\ sector_data_offset' = 0
    /\ IF abort \/ buffer_offset' = buffer_size
       THEN /\ reading' = FALSE
            /\ current_offset' = current_offset + buffer_offset + ReadSize
            /\ result' = buffer_offset'
       ELSE UNCHANGED <<reading, current_offset, result>>
    /\ UNCHANGED <<volume, abort, start, buffer_size>>

\* One round of the loop.  sector_file_offset advances by what was copied,
\* and not to the next sector.
ReadSector ==
    /\ reading
    /\ Cached \/ sector_file_offset + BytesPerSector <= encrypted_volume_size
    /\ CacheSector
    /\ CopySector(IF Cached THEN cache[sector_file_offset] ELSE file_io_handle)
    /\ buffer_offset' = buffer_offset + ReadSize
    /\ sector_file_offset' = sector_file_offset + ReadSize
    /\ sector_data_offset' = 0
    /\ IF abort \/ buffer_offset' = buffer_size
       THEN /\ reading' = FALSE
            /\ current_offset' = current_offset + buffer_offset'
            /\ result' = buffer_offset'
       ELSE UNCHANGED <<reading, current_offset, result>>
    /\ UNCHANGED <<volume, abort, start, buffer_size>>

\* Mutant of ReadSectorFails: the sector is asked for again.
ReadSectorRetries ==
    /\ reading
    /\ ~Cached
    /\ UNCHANGED vars

\* The storage medium fails, or holds less than a sector from there on.
ReadSectorFails ==
    /\ reading
    /\ ~Cached
    /\ reading' = FALSE
    /\ result' = -1
    /\ UNCHANGED <<volume, current_offset, cache, abort, request, loop>>

SignalAbort ==
    /\ ~abort
    /\ abort' = TRUE
    /\ UNCHANGED <<volume, current_offset, cache, reading, request, loop, result>>

-----------------------------------------------------------------------------
Offsets == (-1) .. MaxOffset

Whences == {"SEEK_SET", "SEEK_CUR", "SEEK_END"}

Handle ==
    \/ \E v \in Volumes : Open(v) \/ OpenFails(v)
    \/ Unlock
    \/ Close

Call ==
    \/ \E offset \in Offsets, whence \in Whences :
           SeekOffset(offset, whence) \/ SeekOffsetFails(offset, whence)
    \/ \E size \in 0 .. MaxBufferSize :
           \/ ReadBuffer(size)
           \/ \E offset \in Offsets :
                  ReadBufferAtOffset(size, offset) \/ ReadRefused(offset)

Proceed == ReadSector \/ ReadSectorFails

Next == Handle \/ Call \/ Proceed \/ SignalAbort

Spec == Init /\ [][Next]_vars

\* A read runs on one thread of the application, which is scheduled until
\* the call returns.
FairSpec == Spec /\ WF_vars(Proceed)

-----------------------------------------------------------------------------
(* Properties                                                              *)

\* The types of the variables.
TypeOK ==
    /\ file_io_handle \in Volumes \cup {NoVolume}
    /\ is_locked \in BOOLEAN
    /\ encrypted_volume_size \in Nat
    /\ current_offset \in Nat
    /\ DOMAIN cache \subseteq Nat
    /\ Cardinality(DOMAIN cache) <= CacheSize
    /\ \A o \in DOMAIN cache : cache[o] \in Volumes
    /\ abort \in BOOLEAN
    /\ reading \in BOOLEAN
    /\ start \in Nat
    /\ buffer_size \in Nat
    /\ buffer_offset \in 0 .. buffer_size
    /\ sector_file_offset \in Nat
    /\ sector_data_offset \in 0 .. (BytesPerSector - 1)
    /\ result \in Nat \cup {-1}

\* A sector that was cached while one volume was open is never handed out
\* for another: what the cache holds was read from the volume that is open.
CacheIsOfOpenVolume ==
    \A o \in DOMAIN cache : cache[o] = file_io_handle

\* The bytes of a read that lie in its first sector, or all of them when it
\* starts on a sector boundary.
InFirstSectorOrAligned(i) ==
    \/ start % BytesPerSector = 0
    \/ i < BytesPerSector - (start % BytesPerSector)

Right(i) == buffer[i] = <<file_io_handle, start + i>>

\* Every byte that is copied to the buffer is the byte of the volume that is
\* open, at the offset of the read: from the storage medium or the cache,
\* after failed and aborted reads, reopening and any order of cache drops.
\* Only reads that start on a sector boundary, or end in the sector they
\* start in, are safe.
CopiedBytesAreRight ==
    [][reading => \A i \in 0 .. (buffer_offset' - 1) :
                     (InFirstSectorOrAligned(i) => Right(i))']_vars

\* A read that returns has moved the offset by exactly what it reports, and
\* reports less than was asked for only when it was aborted.  A read that
\* fails leaves the offset where it started, so that it can be repeated.
ReadsAccountForOffset ==
    [][reading /\ ~reading' =>
          \/ result' = -1 /\ current_offset' = start
          \/ /\ result' = buffer_offset'
             /\ current_offset' = start + result'
             /\ abort \/ result' = buffer_size]_vars

\* A read returns, on every storage medium and with any abort.
ReadsReturn == reading ~> ~reading

-----------------------------------------------------------------------------
(* What the comments of the code say and the code does not do              *)

\* "Reads (volume) data at a specific offset": every byte that is copied is
\* the volume's byte at its offset, on whatever offset the read starts.
EveryCopiedByteIsRight ==
    [][reading => \A i \in 0 .. (buffer_offset' - 1) : Right(i)']_vars
=============================================================================
