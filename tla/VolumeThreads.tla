--------------------------- MODULE VolumeThreads ---------------------------
(***************************************************************************)
(* Threads that open, close, read and query one volume handle              *)
(* (libluksde_volume.c): the read/write lock of the handle, the values     *)
(* that are looked at before it is grabbed, and who owns the file IO       *)
(* handle the volume reads from.                                           *)
(*                                                                         *)
(* open_file_io_handle is given a handle that belongs to the application,  *)
(* which may have opened it; open creates one from a file name.  A call    *)
(* that is refused by its first check changes nothing, and is left out     *)
(* unless it has allocated something by then.                              *)
(***************************************************************************)
EXTENDS Integers, FiniteSets

CONSTANTS
    Threads,
    NoThread,
    CallerHandles,      \* file IO handles of the application
    OwnHandles,         \* the ones each thread uses
    LibraryHandles,     \* file IO handles that open may create
    NoHandle,           \* NULL
    MaxCalls            \* bound: the calls each thread makes

Handles == CallerHandles \cup LibraryHandles

ASSUME ThreadsAssumption ==
    /\ NoThread \notin Threads
    /\ MaxCalls \in Nat

ASSUME HandlesAssumption ==
    /\ NoHandle \notin Handles
    /\ CallerHandles \cap LibraryHandles = {}
    /\ OwnHandles \in [Threads -> SUBSET CallerHandles]
    /\ \A t, u \in Threads : t # u => OwnHandles[t] \cap OwnHandles[u] = {}

VARIABLES
    file_io_handle,
    file_io_handle_opened_in_library,
    file_io_handle_created_in_library,
    volume_header,          \* TRUE when it was allocated
    sector_data_vector,     \* TRUE when it was allocated
    writer,                 \* the thread that holds the write lock
    readers,                \* the threads that hold the read lock
    handle_state,           \* of every file IO handle
    pc,                     \* where each thread is
    argument,               \* the handle its open is about
    opened_here,            \* the local file_io_handle_opened_in_library
    calls_left

pool   == <<handle_state>>
object == <<file_io_handle, file_io_handle_opened_in_library,
            file_io_handle_created_in_library, volume_header,
            sector_data_vector>>
lock   == <<writer, readers>>
locals == <<argument, opened_here, calls_left>>
vars   == <<object, lock, pool, pc, locals>>

Init ==
    /\ file_io_handle = NoHandle
    /\ file_io_handle_opened_in_library = FALSE
    /\ file_io_handle_created_in_library = FALSE
    /\ volume_header = FALSE
    /\ sector_data_vector = FALSE
    /\ writer = NoThread
    /\ readers = {}
    /\ \E opened \in SUBSET CallerHandles :
           handle_state = [h \in Handles |->
                              CASE h \in opened         -> "open"
                                [] h \in LibraryHandles -> "absent"
                                [] OTHER                -> "closed"]
    /\ pc = [t \in Threads |-> "idle"]
    /\ argument = [t \in Threads |-> NoHandle]
    /\ opened_here = [t \in Threads |-> FALSE]
    /\ calls_left = [t \in Threads |-> MaxCalls]

-----------------------------------------------------------------------------
(* Control of a thread, and libcthreads' read/write lock                   *)

Goto(t, from, to) ==
    /\ pc[t] = from
    /\ pc' = [pc EXCEPT ![t] = to]

Call(t, first) ==
    /\ Goto(t, "idle", first)
    /\ calls_left[t] > 0
    /\ calls_left' = [calls_left EXCEPT ![t] = @ - 1]

GrabForWrite(t) ==
    /\ writer = NoThread
    /\ readers = {}
    /\ writer' = t
    /\ UNCHANGED readers

ReleaseForWrite ==
    /\ writer' = NoThread
    /\ UNCHANGED readers

GrabForRead(t) ==
    /\ writer = NoThread
    /\ readers' = readers \cup {t}
    /\ UNCHANGED writer

ReleaseForRead(t) ==
    /\ readers' = readers \ {t}
    /\ UNCHANGED writer

\* A handle that was freed stays freed; what else using it does is undefined
\* in the code, and left out.
SetHandle(h, state) ==
    handle_state' =
        [handle_state EXCEPT ![h] = IF @ = "freed" THEN @ ELSE state]

\* A library handle that was freed can be allocated again; the application
\* still believes that it has a handle of its own that was freed.
FreedState(h) == IF h \in LibraryHandles THEN "absent" ELSE "freed"

-----------------------------------------------------------------------------
(* open and open_file_io_handle                                            *)

OpenFileIoHandle(t) ==
    /\ Call(t, "check")
    /\ \E h \in OwnHandles[t] :
           /\ handle_state[h] # "freed"
           /\ argument' = [argument EXCEPT ![t] = h]
    /\ UNCHANGED <<object, lock, pool, opened_here>>

Open(t) ==
    /\ Call(t, "check")
    /\ \E h \in LibraryHandles :
           /\ handle_state[h] = "absent"
           /\ argument' = [argument EXCEPT ![t] = h]
           /\ SetHandle(h, "closed")
    /\ UNCHANGED <<object, lock, opened_here>>

\* The end of an open that fails: open frees the handle it created.
FreeCreated(t, state) ==
    SetHandle(argument[t],
              IF argument[t] \in LibraryHandles THEN "absent" ELSE state)

\* file_io_handle is looked at without the lock.
CheckClosed(t) ==
    /\ Goto(t, "check", "open_handle")
    /\ file_io_handle = NoHandle
    /\ UNCHANGED <<object, lock, pool, locals>>

CheckRefuses(t) ==
    /\ Goto(t, "check", "idle")
    /\ file_io_handle # NoHandle
    /\ FreeCreated(t, handle_state[argument[t]])
    /\ UNCHANGED <<object, lock, locals>>

\* libbfio_handle_is_open and libbfio_handle_open.
OpenHandle(t) ==
    /\ Goto(t, "open_handle", "open_lock")
    /\ opened_here' =
           [opened_here EXCEPT ![t] = handle_state[argument[t]] = "closed"]
    /\ SetHandle(argument[t], "open")
    /\ UNCHANGED <<object, lock, argument, calls_left>>

OpenHandleFails(t) ==
    /\ Goto(t, "open_handle", "idle")
    /\ handle_state[argument[t]] = "closed"
    /\ FreeCreated(t, "closed")
    /\ UNCHANGED <<object, lock, locals>>

OpenLock(t) ==
    /\ Goto(t, "open_lock", "open_read")
    /\ GrabForWrite(t)
    /\ UNCHANGED <<object, pool, locals>>

OpenReadHeader(t) ==
    /\ Goto(t, "open_read", "open_keys")
    /\ ~volume_header
    /\ ~sector_data_vector
    /\ volume_header' = TRUE
    /\ UNCHANGED <<file_io_handle, file_io_handle_opened_in_library,
                   file_io_handle_created_in_library, sector_data_vector,
                   lock, pool, locals>>

\* Another thread opened the volume since the check, or the header cannot be
\* read: neither changes the volume.
OpenReadHeaderFails(t) ==
    /\ Goto(t, "open_read", "open_failed")
    /\ ReleaseForWrite
    /\ UNCHANGED <<object, pool, locals>>

OpenReadKeys(t) ==
    /\ Goto(t, "open_keys",
            IF argument[t] \in LibraryHandles THEN "created_lock" ELSE "idle")
    /\ sector_data_vector' = TRUE
    /\ file_io_handle' = argument[t]
    /\ file_io_handle_opened_in_library' = opened_here[t]
    /\ ReleaseForWrite
    /\ UNCHANGED <<file_io_handle_created_in_library, volume_header, pool,
                   locals>>

\* Mutant of OpenReadKeysFails: the header is not freed.
OpenReadKeysFailsWithoutCleanup(t) ==
    /\ Goto(t, "open_keys", "open_failed")
    /\ ReleaseForWrite
    /\ UNCHANGED <<object, pool, locals>>

\* Mutant of OpenReadKeysFails: the lock is not released.
OpenReadKeysFailsHoldingLock(t) ==
    /\ Goto(t, "open_keys", "open_failed")
    /\ volume_header' = FALSE
    /\ UNCHANGED <<file_io_handle, file_io_handle_opened_in_library,
                   file_io_handle_created_in_library, sector_data_vector,
                   lock, pool, locals>>

OpenReadKeysFails(t) ==
    /\ Goto(t, "open_keys", "open_failed")
    /\ volume_header' = FALSE
    /\ ReleaseForWrite
    /\ UNCHANGED <<file_io_handle, file_io_handle_opened_in_library,
                   file_io_handle_created_in_library, sector_data_vector,
                   pool, locals>>

\* Mutant of OpenFailed: the handle the volume reads from is closed.
OpenFailedClosingVolumeHandle(t) ==
    /\ Goto(t, "open_failed", "idle")
    /\ IF file_io_handle = NoHandle
       THEN FreeCreated(t, handle_state[argument[t]])
       ELSE SetHandle(file_io_handle, "closed")
    /\ UNCHANGED <<object, lock, locals>>

\* The error exit closes the handle when it was NOT opened here.
OpenFailed(t) ==
    /\ Goto(t, "open_failed", "idle")
    /\ FreeCreated(t, IF opened_here[t] THEN handle_state[argument[t]]
                                        ELSE "closed")
    /\ UNCHANGED <<object, lock, locals>>

\* open grabs the lock a second time to mark the handle as its own.
CreatedLock(t) ==
    /\ Goto(t, "created_lock", "created")
    /\ GrabForWrite(t)
    /\ UNCHANGED <<object, pool, locals>>

SetCreated(t) ==
    /\ Goto(t, "created", "idle")
    /\ file_io_handle_created_in_library' = TRUE
    /\ ReleaseForWrite
    /\ UNCHANGED <<file_io_handle, file_io_handle_opened_in_library,
                   volume_header, sector_data_vector, pool, locals>>

-----------------------------------------------------------------------------
(* close                                                                   *)

\* file_io_handle is looked at without the lock.
CloseCheck(t) ==
    /\ Call(t, "close_lock")
    /\ file_io_handle # NoHandle
    /\ UNCHANGED <<object, lock, pool, argument, opened_here>>

CloseLock(t) ==
    /\ Goto(t, "close_lock", "close")
    /\ GrabForWrite(t)
    /\ UNCHANGED <<object, pool, locals>>

Close(t) ==
    /\ Goto(t, "close", "idle")
    /\ IF file_io_handle = NoHandle
       THEN UNCHANGED pool
       ELSE SetHandle(file_io_handle,
                IF file_io_handle_created_in_library
                THEN FreedState(file_io_handle)
                ELSE IF file_io_handle_opened_in_library
                     THEN "closed"
                     ELSE handle_state[file_io_handle])
    /\ file_io_handle' = NoHandle
    /\ file_io_handle_opened_in_library' = FALSE
    /\ file_io_handle_created_in_library' = FALSE
    /\ volume_header' = FALSE
    /\ sector_data_vector' = FALSE
    /\ ReleaseForWrite
    /\ UNCHANGED locals

-----------------------------------------------------------------------------
(* read_buffer, and get_encryption_method for the calls that read a value  *)

\* file_io_handle is looked at without the lock.
ReadCheck(t) ==
    /\ Call(t, "read_lock")
    /\ file_io_handle # NoHandle
    /\ UNCHANGED <<object, lock, pool, argument, opened_here>>

\* Mutant of ReadLock: reading is taken for a query.
ReadLockForRead(t) ==
    /\ Goto(t, "read_lock", "read")
    /\ GrabForRead(t)
    /\ UNCHANGED <<object, pool, locals>>

ReadLock(t) ==
    /\ Goto(t, "read_lock", "read")
    /\ GrabForWrite(t)
    /\ UNCHANGED <<object, pool, locals>>

\* Without a sector data vector the read fails; otherwise it reads from
\* file_io_handle.
Read(t) ==
    /\ Goto(t, "read", "idle")
    /\ ReleaseForWrite
    /\ UNCHANGED <<object, pool, locals>>

\* volume_header is looked at without the lock, and used after it is grabbed.
GetEncryptionMethodCheck(t) ==
    /\ Call(t, "method_lock")
    /\ volume_header
    /\ UNCHANGED <<object, lock, pool, argument, opened_here>>

GetEncryptionMethodLock(t) ==
    /\ Goto(t, "method_lock", "method")
    /\ GrabForRead(t)
    /\ UNCHANGED <<object, pool, locals>>

GetEncryptionMethod(t) ==
    /\ Goto(t, "method", "idle")
    /\ ReleaseForRead(t)
    /\ UNCHANGED <<object, pool, locals>>

-----------------------------------------------------------------------------
Begin(t) ==
    \/ OpenFileIoHandle(t)
    \/ Open(t)
    \/ CloseCheck(t)
    \/ ReadCheck(t)
    \/ GetEncryptionMethodCheck(t)

Proceed(t) ==
    \/ CheckClosed(t)
    \/ CheckRefuses(t)
    \/ OpenHandle(t)
    \/ OpenHandleFails(t)
    \/ OpenLock(t)
    \/ OpenReadHeader(t)
    \/ OpenReadHeaderFails(t)
    \/ OpenReadKeys(t)
    \/ OpenReadKeysFails(t)
    \/ OpenFailed(t)
    \/ CreatedLock(t)
    \/ SetCreated(t)
    \/ CloseLock(t)
    \/ Close(t)
    \/ ReadLock(t)
    \/ Read(t)
    \/ GetEncryptionMethodLock(t)
    \/ GetEncryptionMethod(t)

\* The application has made its calls, or has nothing left to open with.
Stopped ==
    /\ \A t \in Threads : pc[t] = "idle"
    /\ UNCHANGED vars

Next == (\E t \in Threads : Begin(t) \/ Proceed(t)) \/ Stopped

Spec == Init /\ [][Next]_vars

\* Every thread in a call is scheduled.  Calls are bounded by MaxCalls, so
\* that a thread waiting for the lock is not overtaken for ever: the code
\* itself has no say in whom the lock prefers.
FairSpec == Spec /\ \A t \in Threads : WF_vars(Proceed(t))

-----------------------------------------------------------------------------
(* Properties                                                              *)

Places ==
    {"idle", "check", "open_handle", "open_lock", "open_read", "open_keys",
     "open_failed", "created_lock", "created", "close_lock", "close",
     "read_lock", "read", "method_lock", "method"}

\* The places at which a thread holds the write lock.
WriteLocked == {"open_read", "open_keys", "created", "close", "read"}

\* The types of the variables, and who holds the lock: the threads that are
\* where the code needs it, and never a writer beside another holder.
TypeOK ==
    /\ file_io_handle \in Handles \cup {NoHandle}
    /\ file_io_handle_opened_in_library \in BOOLEAN
    /\ file_io_handle_created_in_library \in BOOLEAN
    /\ volume_header \in BOOLEAN
    /\ sector_data_vector \in BOOLEAN
    /\ writer \in Threads \cup {NoThread}
    /\ readers \subseteq Threads
    /\ handle_state \in [Handles -> {"absent", "closed", "open", "freed"}]
    /\ pc \in [Threads -> Places]
    /\ argument \in [Threads -> Handles \cup {NoHandle}]
    /\ opened_here \in [Threads -> BOOLEAN]
    /\ calls_left \in [Threads -> 0 .. MaxCalls]
    /\ \A t \in Threads :
          /\ writer = t <=> pc[t] \in WriteLocked
          /\ t \in readers <=> pc[t] = "method"
          /\ ~(writer = t /\ readers # {})

\* Although open, close and read look at file_io_handle without the lock, a
\* thread that gets the lock finds a volume that is all open or all closed.
WholeWhenUnlocked ==
    writer = NoThread =>
        /\ volume_header = (file_io_handle # NoHandle)
        /\ sector_data_vector = (file_io_handle # NoHandle)

\* A read that got past the checks made under the lock reads from a handle
\* that is open: no other thread's close or failed open closed or freed the
\* handle the volume uses.  (Once a handle of the application was freed, its
\* next use is undefined.)
ReadsFromOpenHandle ==
    \A t \in Threads :
        (/\ pc[t] = "read"
         /\ sector_data_vector
         /\ \A h \in CallerHandles : handle_state[h] # "freed") =>
            /\ file_io_handle # NoHandle
            /\ handle_state[file_io_handle] = "open"

\* Every call returns: each way out releases the lock.
CallsReturn == \A t \in Threads : pc[t] # "idle" ~> pc[t] = "idle"

-----------------------------------------------------------------------------
(* What the comments of the code say and the code does not do              *)

\* libluksde_volume.h: "Value to indicate if the file IO handle was created
\* inside the library": close frees no other handle than one of open's.
FreesOnlyWhatItCreated ==
    \A h \in CallerHandles : handle_state[h] # "freed"

\* libluksde_volume.h: "Value to indicate if the file IO handle was opened
\* inside the library": a handle that the application opened stays open
\* unless the application closes it.
ClosesOnlyWhatItOpened ==
    [][\A h \in CallerHandles :
          (handle_state[h] = "open" /\ handle_state'[h] # "open") =>
              file_io_handle = h /\ file_io_handle_opened_in_library]_vars
=============================================================================
