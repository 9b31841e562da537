# Verification of libluksde

TLA+ models, TLC configurations and TLAPS proofs kept beside libluksde, a
library that reads LUKS1 encrypted volumes, and its tools. A module translates
the C code under `src/`; the table `map` of `PROJECT.json` names the lines each
definition stands for.

## The system

An application (or `luksdemount`, `luksdeinfo`, `pyluksde`) holds a *volume
handle* (`libluksde_volume_t`). It supplies a master key or a password, opens
the handle on a file IO handle (libbfio) of its own or by a file name, is told
whether the volume is unlocked, and seeks and reads. Everything happens in the
thread of the caller; a read/write lock in the handle (libcthreads) keeps the
calls of several threads apart.

| component | state | operations | what is hard, and what makes it right |
|---|---|---|---|
| volume handle, keys (`libluksde_volume.c`) | header, master key and whether it is set, password, encryption context, `is_locked` | `set_key(s)`, `set_utf8/16_password`, `open`, `unlock`, `close`; inside, the search of the key slots | a search that fails at any point, is repeated, or follows one on another volume; only the volume's own key may decrypt it, and a fitting password should |
| volume handle, data (`libluksde_volume.c`, `_sector_data_vector.c`, `_sector_data.c`) | current offset, vector of sectors with its cache, abort flag | `seek_offset`, `read_buffer`, `read_buffer_at_offset`, `signal_abort` | first and last sectors of a read, failing sectors, aborts, caches that outlive a volume; right bytes, right count, right offset |
| volume handle, threads (`libluksde_volume.c`) | the lock, the file IO handle and the flags that say who created and who opened it | all calls; `open`, `close`, `read_buffer` and the getters look at the handle before they have the lock | checks that are stale once the lock is there, two critical sections in one call; a whole volume for whoever has the lock, and no use or loss of someone else's file |
| key derivation (`libluksde_password.c`) | locals | `pbkdf2` | block and iteration loops with a short last block; the definition of PKCS #5 |
| anti-forensic diffuser (`libluksde_diffuser.c`) | locals | `diffuse`, `merge` | stripes added and hashed in place, a short last block; merge undoes split |
| encryption context (`libluksde_encryption_context.c`) | two or three cipher contexts with their keys, the modes | `initialize`, `set_key`, `crypt`, `free` | which mode takes which key and which vector of a sector; error exits that free some of the contexts |
| header, key slots (`libluksde_volume_header.c`, `_key_slot.c`) | the values of the header, the array of slots | `read_file_io_handle`, `read_data`, `free` | which headers and names are accepted, and what a failure in the middle of the slots leaves |
| `luksdemount` (`luksdemount.c`, `mount_handle.c`, `mount_file_system.c`, `mount_file_entry.c`) | mount handle, its file range and volume, the array of volumes, the prompt's buffer | options, open with prompt, mount, unmount, close, free | many error exits, one handle freed from two places; only unlocked volumes are mounted, nothing is freed twice |
| callbacks (`mount_fuse.c`, `mount_dokan.c`) | file entries of open files, pointers of the running callback | open, read, release, opendir, readdir, releasedir, getattr, destroy; the Dokan calls | allocations in a loop with an error exit each; names that are listed open what they name |
| `luksdeinfo` (`luksdeinfo.c`, `info_handle.c`) | info handle, its file range and volume | options, open with prompt, print, close, free | the same open code, with other ownership |
| Python binding (`pyluksde_volume.c`, `pyluksde_file_object_io_handle.c`) | volume object, its IO handle and its reference to a file object, the interpreter lock | one method per call of the library; callbacks for size, seek, read, free | two locks taken in both orders, callbacks that give the interpreter lock up, error exits that free |
| support, error, notify, debug; build files, tests | none | | left out |

The calls interact through the volume handle only: `open` and `unlock` make
the encryption context with which reads decrypt; `close` undoes both. Inside,
`open_read_keys` calls header, key derivation, encryption context and diffuser
in turn. The tools and the Python binding use the public calls; FUSE, Dokan and
the Python interpreter call them back. Nothing is persisted, so that there is no crash to
recover from. Build files, tests, debug output, error formatting and the
external libraries' own code are not modelled.

`PROJECT.json` lists the hazards of the code, each with its line and with the
properties that would show it going wrong, or why none does yet.

## Modules

### VolumeKeys: how a volume is unlocked

One handle, one call at a time: `open`, `unlock` and `close` hold the write
lock for as long as they look at the keys, so nothing else interleaves with
them. Variables have the names of the fields of `libluksde_internal_volume`,
and of the locals of `open_read_keys` that last from slot to slot
(`key_slot_index`, `key_material_data_offset`). A call in progress is in `call`
and `pc`:

    idle -> validate -> slot* -> context -> vector -> idle     (open)
    idle -> validate -> slot* -> context -> idle               (unlock)

| action | code (`libluksde_volume.c`) |
|---|---|
| `SetKey`, `SetKeys`, `SetUtf8Password`, `SetUtf16Password` | the four set calls; a string that cannot be converted drops the old password |
| `OpenRefused`, `OpenReadHeader`, `OpenReadHeaderFails` | `open_file_io_handle` and `open_read` up to the call of `unlock` |
| `UnlockBegin`, `UnlockReturnsAtOnce` | `libluksde_volume_unlock` |
| `ValidateMasterKey` | the key that is set is compared with the header's validation hash |
| `SkipKeySlot`, `TryKeySlot` | one round of the loop over the key slots: derive, read, decrypt, merge, validate |
| `SetContext` | the encryption context is made from a key that validated |
| `OpenReadVector`, `Close`, `CloseRefused` | the end of `open_read`; `libluksde_volume_close` |
| `...Fails` | the error exits at the same places, with what they leave behind |

Abstractions. A key is a model value with a size. What derivation, decryption
and merging make of wrong inputs is `Garbage`, which validates nowhere: two
keys never have the same validation hash. `key_material_scale` counts how often
the offset of a slot was multiplied by the sector size. Keys have 16 or 32
bytes; those of 64, which the code accepts and then keeps in buffers of 32, are
left out (`KeysAssumption`). Failures are switched by two constants: `IoFaults`
(the medium cannot be read) and `LibraryFaults` (allocations and cryptographic
calls).

*VolumeAccess* is what a caller may rely on, without slots, flags and steps: a
volume is unlocked only with its own master key, which comes from the
application or from a slot that the password in hand opens, and closing gives
both up. `VolumeKeys` implements it under the mapping `Access`: the volume
counts as unlocked when it is open and has an encryption context.

### VolumeRead: what reads return

Seeks and reads over the openings and closings of two volumes. A byte of
plaintext is named by its volume and its offset, the cache maps an offset to the
volume the sector was read from, and a sector that is read from an offset
between two sectors is `Garbage`, as it is decrypted with the wrong
initialization vector. A read takes one step per sector (`ReadSector`,
`ReadSectorFails`); `SignalAbort` takes no lock and comes at any time. The cache
(libfcache) drops at most one sector of its own choice when one is added. A sector that lies beyond the end of the medium is a
short read and fails, as in `libluksde_sector_data_read_file_io_handle`.

### VolumeThreads: several threads, one handle

Threads call `open_file_io_handle` with file IO handles of their own (which the
application may have opened), `open`, which creates one, `close`, `read_buffer`
and `get_encryption_method`. `pc` of a thread names the place it has reached;
the look at `file_io_handle` or `volume_header` before the lock is a step of its
own. `open` is two critical sections, as in the code. Keys and data are left to
the other modules: of the volume there remain the parts that show whether it is
whole, and of a file IO handle whether it is absent, closed, open or freed. What
a thread does with a handle of the application that was freed is undefined; the
model leaves it freed.

These three modules look at the same handle from three sides and are not
composed into one: the lock, modelled in `VolumeThreads`, is what entitles the
other two to run one call at a time. That it does is the theorem `LocksCorrect`
and the invariant `WholeWhenUnlocked`.

### VolumeDecryption: from a header to the bytes of a sector

`VolumeDecryption` composes four components, each a module with variables,
steps and properties of its own, over the symbols of `Cells`: a *cell* is four
bytes, its value a set of tokens, exclusive or is symmetric difference, and a
digest is fresh tokens that name what was hashed. So two values are equal when
they were computed alike, and for no other reason.

| module | state | actions and the code they are |
|---|---|---|
| `Pbkdf2` | `kdf`: the locals of the function | `Pbkdf2` (checks, buffers), `HashSalt`, `Iterate`, `CopyBlock`, `Pbkdf2Fails`: one HMAC or one copied block each (`libluksde_password.c`) |
| `Diffuser` | `merge`: the locals of `merge` and of the `diffuse` it calls | `Merge`, `MergeStripe`, `DiffuseBlock`, their failures (`libluksde_diffuser.c`) |
| `EncryptionContext` | `context`, and `ciphers`, the cipher contexts of libcaes and libfcrypto that exist | `InitializeContext` and one step per cipher context, `SetContextKey` and one step per key, `FreeContext`; `Encrypt`, `Decrypt`, `SectorVector` are `crypt` |
| `VolumeHeader` | `volume_header`, `header_pc` | `ReadHeader`, `ReadKeySlot` and their failures; `Parse...` are the comparisons of names (`libluksde_volume_header.c`, `_key_slot.c`) |
| `VolumeDecryption` | `stage` and the locals of `open_read_keys` | one action per call that `open_read`, `open_read_keys` and `sector_data_read` make of the four; `KeysFail` for what any of them refuses |

A medium is made by the *definition* of the format (`FormatMedium`: PBKDF2 of
PKCS #5 in `DerivedKey`, the splitter in `SplitKey`, the vectors of the format
description in `FormatVector`), not by the code's functions, so that the properties
compare two descriptions. How several slots, calls and volumes share one handle is
the matter of `VolumeKeys`, which has this module's work in one step per slot; here
there is at most one enabled slot, opened once.

`KnownFormat` names the formats in which code and definition agree. Outside of
it stay, as the code has them: benbi with Blowfish (the code counts blocks of 16
bytes for every cipher), ESSIV with a hash that is cut or filled to the size of the
volume's key, and RC4, whose key stream is libfcrypto's affair.

### Clients: the tools and the Python binding

`LuksdeTool` has what `mount_handle.c` and `info_handle.c` do alike, line by
line: copy the options, make a file range and a volume, open, prompt, unlock, and
clean up. The volume is the abstract one of `VolumeAccess`, which `VolumeKeys`
is proved to implement: what is checked of the tools rests on what the library
promises. `pc` is the place in `main`; `heap` counts objects of each kind and
`held` has the pointers that are not NULL, so that an object freed twice is a
count below zero and one that is lost is a count above it at the end.

| module | state | actions and the code they are |
|---|---|---|
| `LuksdeTool` | `tool`, `pc`, `options`, `settings`, `heap`, `held`, `prompt`, the volume | `SetKey`, `SetOffset` (with the wrap of a decimal string), `SetPassword`; `OpenRange` ... `OpenUnlock`, `OpenFails`: the calls in `mount_handle_open`, `info_handle_open_input` |
| `Luksdemount` | `driver`, `volumes_array`, `lost` (ranges no pointer leads to) | `main` of `luksdemount.c`: `Initialize`, `OpenAppend`, `FuseNew`, `FuseReturns`, `FuseFails`, `MountReturns`, `MountSucceeds` |
| `MountFileSystem` | none | names of volumes to and from indexes, sub entries |
| `MountCallbacks` | `fh` (entries of open files), `call` (the running callback), `directories`, `leaked` | one action per callback of FUSE and Dokan; reading a directory is one step per entry, each of which may fail |
| `Luksdeinfo` | | `main` of `luksdeinfo.c` and the life of the info handle |
| `Luksdetools` | | the two programs, their fairness and their properties |
| `Pyluksde` | `gil`, `lock`, `py` (the method each thread is in), `pointer`, `lib`, `handles`, `references`, `position` | one action per method of the volume object, the steps of the library around its lock (`LibraryChecks`, `LibraryGrabs`, `LibraryRefuses`, `LibraryReturns`, `LibraryFails`), one per callback of the IO handle, and what a method does when it has the interpreter lock again; closing frees the IO handle in the steps `PyFreesHandle`, `HandleFreeReads`, `HandleFreeClears`, `CallbackFree` |
| `Clients` | `client` | the tools or Python: they share the library and nothing else |

Three things the code leaves behind are in the model as they are. `releasedir`
sets the kernel's pointer to NULL and does not free the entry (`leaked` counts
them). The loop of `mount_handle_close` over the volumes stops before volume 0
(`mount_handle.c`, 936), so that the mounted volume is never freed, even when nothing
fails. When `libbfio_handle_close` fails, `mount_handle_close` returns before it frees
the range (986), and `mount_handle_free` frees the mount handle all the same: no
pointer leads to the range (`lost`). `ExitLeavesOnlyVolumes` counts the last two
exactly: it would show anything else that is left, or freed twice, but not these.

A Python method looks at the pointer to the IO handle with the interpreter lock
and calls `libbfio_handle_free` without it (`pyluksde_volume.c`, 867-871). That reads
the pointer, sets it to NULL and calls the handle's last callback, which takes the
interpreter lock again; a close or a failing open of another thread may come between
any two of these. So two threads can free one handle: both read the pointer before
either has cleared it, or an `open_file_object` that raises frees what a close has
read. What a thread does with a handle that was freed, in a read or by freeing it
again, is undefined: `UsesFreedHandle` takes every thread to `undefined`, and nothing
more is said of them. `HandlesAreOwned` says what holds until then, for any threads;
that no handle is freed twice (`HandlesAreFreedOnce`) is proved for one thread that
opens and closes beside any number of others, and is false for two.

## Runs

| run | question | bounds | result |
|---|---|---|---|
| `volume_keys` | any order of calls, all failures on | three volumes (keys of 16 and 32 bytes, one damaged header), three keys, two passwords, three slots | holds, 9,353 states |
| `keys_retry` | does unlock work after a wrong password? | one volume, no failures | violated |
| `keys_second_slot` | does the password of the second enabled slot open? | one volume, no failures | violated |
| `keys_locked_flag` | does `is_locked` tell the truth after a failed open? | one volume, library failures | violated |
| `volume_read` | right bytes, count and offset; stale caches; termination | sectors of 2 bytes, volumes of 6 and 5 bytes, 2 cached sectors, offsets to 7, buffers to 5 | holds, 91,708 states |
| `read_unaligned` | and reads that start inside a sector? | one volume | violated |
| `volume_threads` | the lock, the volume's parts, the file IO handles | two threads, each with one handle and the choice of `open`; three calls each | holds, 252,780 states |
| `threads_created_flag` | does close free only what open created? | the same | violated |
| `threads_failed_open` | does a failed open leave the application's handle alone? | the same, two calls each | violated |
| `volume_decryption` | do header, derivation, decryption and merging fit together for every format, with every failure? | 6 ciphers, 20 modes, 6 hashes, keys of 0 to 17 cells, 0 to 3 stripes and iterations, 2 slots, sectors of 4 cells numbered 0, 1 and 17; 2^32 is 16, 2^64 is 4096 | holds, 61,378 states |
| `clients` | `luksdemount`, `luksdeinfo` and Python on every way through their error exits | 30 sets of options, offsets of 8 bits, 2 open files, 4 paths, 2 directories; 2 Python threads that open, close and read, 2 IO handles | holds, 142,052 states |
| `clients_reopen` | does a refused second `open_file_object` leave the volume as it was? | 1 Python thread | violated |

Why the bounds are enough. *Keys*: the three slots of a volume cover a disabled
slot before an enabled one, a slot without stripes, and a second enabled slot
with more stripes than the first; a third volume adds a header that is refused;
two sizes of keys make keys that do not fit. The state has no counters, so that
any number of calls is covered. *Reads*: two-byte sectors are the smallest with
an inside; volumes of three sectors have a first, a middle and a last one, and
one ends within a sector; a buffer of five bytes crosses two boundaries; a cache
of two drops. *Threads*: each disagreement needs a thread that waits while
another closes and opens again; three calls per thread allow open, close and
open again on both. *Decryption*: a key of 4 cells is shorter than
every digest and one of 8 is longer than that of SHA-1 and no multiple of it, one of 16
or 17 is at or past the largest that is accepted; sector 17 is beyond the 16 values that
stand for 2^32, which is where plain and plain64 part; two stripes have a last
one that is not diffused and one that is, three have two in a row; every name the header
may have is tried, and one that is unknown. Ciphers and hashes do not meet in
the code but at the key, so that each is varied with one choice of the other.
*Tools*: the digits reach and cross the largest signed and the largest
unsigned value of a byte, with either sign; options cover every order in which a
key or a password may fit: as an argument, at the prompt, both, neither, without
anyone to ask. One volume is all a mount has. Two open files are a file and a
directory, or two of each. *Python*: two threads that both open,
close and read have every pair of locks in both orders, and can free one handle
twice; two IO handles let one be made while another is being freed. With three
threads a handle can also be lost after one was freed twice, which the proofs cover
and `HandlesAreOwned` says nothing of.

The seven violated properties are what comments and tests of the code say; `findings` in
`PROJECT.json` quotes them and names the line. In short: the slot's offset is
scaled in place each time (line 1413); the decryption offset is not reset per
slot (1570); the error exit of `open_read` keeps `is_locked` (1225); a read
advances the sector offset by the bytes it copied (2158); `open` sets the
created flag in a second critical section (445); the error exit of
`open_file_io_handle` tests the wrong value of the opened flag (824); a second
`open_file_object` frees the handle that the open volume reads from
(`pyluksde_volume.c`, 760).

What holds all the same is stated around them. `FirstTryFindsKey` is about the
first search of a header and the first enabled slot; `CopiedBytesAreRight` about
the bytes in the first sector of a read, or all of them when it is aligned;
`ReadsFromOpenHandle` about the time before a handle of the application was
freed; `KnownFormatIsRead` about the formats of `KnownFormat`; `HandlesAreOwned`
about the handles that exist, also after the Python object lost the one the volume
reads from, until two threads free one; `ExitLeavesOnlyVolumes` about
all but the mounted volume and a range that could not be closed. `PyCallsReturn`
counts a method as returned when a freed handle was used.

Each property of a passing run has a *mutant*: a definition, next to the one it
stands for and named in its comment, that changes it the way a plausible mistake
in the code would. With the mutant in its place TLC finds the property violated.

### Fairness

`CallsReturn` and `ReadsReturn` assume weak fairness of the steps of a call that
is in progress: it runs on a thread of the application, and nothing in the
library waits, except for the lock. Nothing is assumed of the application: it
need never call. In `VolumeThreads` the calls are bounded, and weak fairness per
thread is then enough for every waiting thread to get the lock; with unbounded
calls that would rest on the fairness of the lock of libcthreads (POSIX leaves
it open), which the code does not choose. `Stopped` in `VolumeThreads` stands for
an application that has made its calls, `Finished` in `VolumeDecryption` for one
that has seen its volume; deadlock is checked in these runs.

`OpenReturns` assumes that `open` goes on, in the thread of its caller.
`ToolsReturn` assumes that a program that can take a step does: `main` and the
callbacks are sequential code, and the user answers the prompt. When the kernel
calls back and when the volume is unmounted is up to others and not assumed.
`PyCallsReturn` assumes strong fairness of the steps of a method in progress: it
waits for two locks that others take again and again, and CPython hands the
interpreter lock to a thread that waits for it; and weak fairness of giving the
interpreter lock up, which the interpreter forces on a thread that runs Python
code. That a thread comes to run at all, or calls a method, is not assumed.
Programs end, and so do these runs' behaviours: they are checked without looking
for deadlock, and a program that is stuck before its end violates `ToolsReturn`
or `PyCallsReturn`.

## Proofs

For every value of the constants that satisfies the named assumptions.

*VolumeKeysProofs.* The invariant is `IInv`: `TypeOK`, `ContextKeyIsVolumeKey`
and `PartsAgreeWhenIdle` with two strengthenings. `CallInv` says what a call
has of the handle at each place (an `open` in progress has a header, no file IO
handle, no vector, and no encryption context before the last step; an `unlock`
has all the parts). `KeyInv` carries the validation from the place where it is
made to the place where the key is used: slots are tried only without a key, and
a key that is set at `context` is the volume's. Neither invariant is inductive
alone: `ContextKeyIsVolumeKey` is about a step that uses a flag computed steps
before, and which survives `close`.

 - `TypeCorrect`, `ContextKeyCorrect`, `PartsAgree`: from `IInv`.
 - `LockedFlagCorrect`: without library failures, `is_locked` and the context go
   together (`LockInv`). The run `keys_locked_flag` shows that the assumption is needed.
 - `FirstTryCorrect`: with `SearchInv`, which follows the loop: until the fitting
   first slot was tried, nothing was decrypted and the index has not passed it.
 - `AccessImplemented`: `VolumeKeys` implements `VolumeAccess`; `AccessInv` keeps
   the master key in hand the volume's own until the last step of `open`.

*VolumeThreadsProofs.* For any number of threads, handles and calls. `VolumeInv`
says that the parts of the volume disagree only while a thread is between the
header and the keys, which it is under the write lock. `LocksCorrect` is who
holds the lock, at every place and after every error exit; `VolumeWhole` is
`WholeWhenUnlocked`. `ReadsAreFromOpenHandle` needs `HandleInv`: until a handle
was freed, the volume's handle is open (`VolumeHandleOpen`); a thread that is to
give its argument to the volume still owns it, and no two threads or the volume
have the same (`ArgumentInv`); it is open once it was opened. The property alone is
not inductive: a thread reads from the handle that another opened many steps before.

*VolumeReadProofs.* For any volumes, sector size, cache and bounds. `ReadInv`
relates the locals of the loop to the arguments of the read: `PositionInv` says
at which sector the loop is (at the first, or past it at a sector's start, where
`sector_file_offset` is start plus buffer offset if the read began at a sector),
`CopiedInv` that what was copied so far is right wherever that relation held, and
the cache is finite, bounded and of the open volume. From it follow `ReadTypes`,
`CacheOfOpenVolume`, `CopiedBytesRight` (every byte of an aligned read, for any
number of sectors and any cache) and, as action properties, `ReadsAccount`.

*CellsProofs, Pbkdf2Proofs, DiffuserProofs.* Lemmas for the four components of
`VolumeDecryption`. The definitions of the format recurse over data (`HmacChain`
and the sum of a block in `Pbkdf2`, the chain of `SplitKey` in `Diffuser`), and the loops of the code do so one
step at a time. The recursive functions are shown to exist, and so to satisfy
their equations, by induction over an interval of numbers: `LeastNumber`, from
the library's fact that inclusion of finite sets is well founded, gives
`IntervalInduction`: a set that has the first number of an interval and with
each number its successor has all of them.

 - `KdfInv` is the invariant of `pbkdf2`: the offset and the size that is left make
   up the key, what is written is the start of the key by the definition
   (`KdfDerived`), and within a block the sum is that of the iterations so far
   (`KdfBlock`).
 - `DerivedKeyInjective` is a lemma about the symbols alone: digests are fresh
   tokens that name their input, so that different passwords give different keys.
   It says nothing of the code; the comparison with the validation hash rests on it.
 - `MergeInv` keeps the offsets of `merge` and `diffuse` in their buffers;
   `MergeFollows` says that between two stripes the data are an element of the
   splitter's chain, and within one that its first blocks are hashed.

*VolumeDecryptionProofs.* `IInv` is inductive, and all eleven invariants of the
run `volume_decryption` follow from it, for every format (cipher, mode, hash,
size of the key, stripes, iterations), sector size and number of slots.

| part of `IInv` | what it says |
|---|---|
| `HeaderInv` | which values and slots are in memory at each step of reading the header |
| `StageInv` | which component runs at which stage, and that the header stays the format's |
| `KdfInv`, `KdfCalled` | where the loops of `pbkdf2` are, and the arguments it was called with |
| `MergeInv`, `MergeCalled`, `MergeOfKey` | the same of `merge`; `MergeFollows` when the stripes are those the splitter made |
| `ContextInv`, `ContextCalled` | which cipher contexts exist at each step of `initialize`, `set_key` and `free`; whose mode and whose key they have |
| `KeyInv` | no key is set while slots are searched; one that is set after that is the volume's |
| `RightInv` | with the right password the search has not passed the enabled slot, and the user key, the decrypted sectors and the merged key are the right ones so far |
| `SectorInv` | a sector that was read is plaintext |

None of the properties is inductive by itself. `OnlyVolumeKeyOpens` is about the
end of an open and is decided when the hash of a candidate key was derived, for
which `KdfCalled` must know what was hashed and `KdfDerived` what came of it.
`RightPasswordIsEnough` depends on every component: the key a slot gives is the
right one only if all sectors of the key material were decrypted with the right
vector (`ContextCalled`, `KnownVectors`) and all stripes merged.
`NoCipherIsLeft` needs to know, at the error exit, what had been made.

Assumptions. `SizesAssumption`: a sector has at least one cell, there is a slot,
32-bit and 64-bit numbers have some width, and no sector's byte offset exceeds 64 bits (a
benbi vector counts blocks). `FormatsAssumption`: sizes in the header are
natural numbers, and the key material is a whole number of sectors, as it is with
the 4000 stripes that volumes are formatted with: the loop of the code takes whole
sectors, and what it does with a last piece that is shorter is left out.
`NoKeyAssumption`: the value that stands for no password is not a password.

*ClientsProofs.* Python and the tools share no variable (`ClientsApart`) and are
proved about apart. `PyInv` says, for any number of threads and handles, who
holds the interpreter lock and the volume's lock at each place of a method
(`ThreadInv`), and that every reference to the file object is that of an IO handle
that was made (`HandlesInv`). A step of one thread keeps `ThreadInv` of the others because the two
locks keep them out of what it changes (`OthersKept`). From it follow
`ReadsFollowSeeks` and `GilProtectsObjects`; `PyBounds` (handles are numbered in
the order they were made) gives the types. `HandlesOwned` follows from `OwnedInv`:
while no handle was freed twice or used when freed (`Unharmed`), a handle is the volume
object's or is in the hands of the one thread that frees it, and the pointer stays
as that thread read it until it clears it. Harm is never undone: a step after which
the threads are unharmed began unharmed. With one thread that opens and closes
(`OneOwner`) `OwnerInv` holds as well: a method that makes or frees the handle is the
owner's or the last of all (`OwnerThread`), and where it frees nothing the only
handle is the volume object's (`NoneFreed`). From it follows `HandlesFreedOnce`, for
any number of other threads.

Of the tools, `TypedPasswordCleared`, and `MountsAreUnlocked`, with `SuppliedInv` (a key or a
password that is at work came from the options or the prompt, through
`VolumeAccess`) and `MountedInv` (nothing is opened again once it is mounted).
What they allocate is in `ToolsInv`, for any options, files and paths:

 - `PlacesInv`: the places each program can be at, and whether a volume is
   mounted there; `HeldInv`: which pointers of `main` are not NULL at each place,
   after each error exit too.
 - `HeapInv`: there are as many objects of each kind as pointers to one, and one
   volume more for each that is mounted. Alone it is not inductive: an error
   exit frees what its pointers have, so that it must be known which ones they are.
   A range that is lost counts as well, and `LostInv` says that there is at most one,
   at the end, when the mount handle has no pointer to it.
 - `CallInv`: the same inside of a callback (`PointersInv`), and that a directory
   is listed up to the sub entry the loop is at (`ListingInv`). `FilesInv`: each
   entry belongs to an open file, a pointer or a released directory.
 - `OffsetInv`: from the place it is set, the offset is what the decimal string says.

Steps of `main` leave the callbacks alone and callbacks leave `main` alone
(`CallbackInv`), so each half is proved about its own steps. From `ToolsInv`
follow `TypesAreCorrect`, `EntriesAccountedFor`, `ExitFreesAllButVolumes`,
`ListingsAreComplete` and `OffsetsAreTyped`. `PathsAreVolumes` and
`PathsAreResolved` are about decimal digits: `DigitsOfNumber` says that writing a
number and reading it gives the number back, `WrappedNumberIs` that reading with
the wrap of every step is reading and then wrapping.

Assumptions: `WordAssumption` (the width of an offset is positive and even, as
two's complement has it), `OptionsAssumption` (a key and a password are
keys and passwords, absent or malformed; an offset is a sign and decimal digits,
perhaps with other characters), `EntryAssumption` and
`InterpreterAssumption` (the values for no entry, no thread and no handle are
none, and the bound `MaxHandles` is a number).

Every invariant and every action property of the passing runs is a theorem, and so is the
refinement.
Only model-checked are the liveness properties `CallsReturn`, `ReadsReturn`,
`OpenReturns`, `ToolsReturn` and `PyCallsReturn`: they rest on fairness, that is on
`ENABLED`, which the prover does not handle.

## Not modelled

 - Keys of 64 bytes in `VolumeKeys` (`KeysAssumption`): `set_key` takes them, and
   the buffers of 32 bytes that hold the user key and the key that `close` clears do not.
 - The getters without the lock (`is_locked`, `get_volume_identifier`), the set
   calls and `volume_free` beside other threads: what a reader of a freed header sees
   is undefined.
 - `signal_handler` of the tools, which `main` never attaches; time stamps, and path
   prefixes other than the default; the printed text. Dokan may call several
   callbacks at once; here they come one at a time, as from `fuse_loop`.
 - Of the Python binding: opening by name, writing to and cloning an IO handle,
   the conversion of arguments and results; the result of the function that asks for the size when
   that fails (it answers success, which `CallbackGetSize` has).
 - Python's `set_key` passes eight times the number of bytes of the key, which the
   library refuses for keys of 16, 32 or 64 bytes (`pyluksde_volume.c` 1804,
   `libluksde_volume.c` 2910). `Pyluksde` has the refusal; keys of 2, 4 or 8 bytes,
   of which the library reads more than there are, are left out.
 - Key material that is no whole number of sectors (`FormatsAssumption`).
 - The layout of bytes in headers; the ciphers and hashes; libbfio, libcthreads,
   libfcache, libcaes, libhmac, FUSE, Dokan and CPython, which appear as the code
   uses them.
 - `support`, `error`, `notify`, `debug`, build files, packaging, tests.

## Plan

1. *Several slots.* `VolumeDecryption` with more than one enabled slot and a
   second open, proved to implement the slot step of `VolumeKeys`: today the two
   agree by what each proves of a slot (`OnlyVolumeKeyOpens` and
   `ContextKeyIsVolumeKey`), not by a refinement.
2. *Threads.* The getters that take no lock, the set calls and `volume_free`;
   `get_encryption_method` after a close; the proofs of `VolumeThreadsProofs`
   extended to them.
