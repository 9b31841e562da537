------------------------------ MODULE Pyluksde ------------------------------
(***************************************************************************)
(* The Python bindings: threads of an interpreter that share one volume    *)
(* object (pyluksde/pyluksde_volume.c) over a file object of Python        *)
(* (pyluksde/pyluksde_file_object_io_handle.c).                            *)
(*                                                                         *)
(* A method holds the global interpreter lock, gil, gives it up around     *)
(* each call of libluksde, which takes the volume's own lock, and inside   *)
(* of it the functions of the file object IO handle take the gil again to  *)
(* call methods of the file object.  The volume of libluksde is as much of *)
(* VolumeThreads as matters here: the handle it reads from and its lock.   *)
(***************************************************************************)
EXTENDS Integers, Sequences, FiniteSets

CONSTANTS
    Threads, NoThread,
    Owners,         \* the threads that open and close the volume
    NoHandle,
    MaxHandles,     \* bound on the IO handles that are made
    FileFaults      \* methods of the file object may raise

ASSUME InterpreterAssumption ==
    /\ NoThread \notin Threads
    /\ NoHandle \notin Nat
    /\ MaxHandles \in Nat

VARIABLES
    gil,            \* who holds the interpreter lock
    lock,           \* who holds the lock of the volume
    py,             \* the method each thread is in: its name, its place, the
                    \* functions of the IO handle it is still to call, and
                    \* the IO handle that libluksde or libbfio was given
    pointer,        \* file_io_handle of the volume object
    lib,            \* file_io_handle of the volume of libluksde
    handles,        \* the IO handles that exist
    created,        \* number of IO handles made so far
    references,     \* references to the file object that they hold
    position,       \* who moved the position of the file object last
    deallocated     \* nobody refers to the volume object any more

pyVars == <<gil, lock, py, pointer, lib, handles, created, references,
            position, deallocated>>

NoMethod == [op |-> "none", at |-> "idle", script |-> <<>>, handle |-> NoHandle]

PyInit ==
    /\ gil = NoThread
    /\ lock = NoThread
    /\ py = [t \in Threads |-> NoMethod]
    /\ pointer = NoHandle
    /\ lib = NoHandle
    /\ handles = {}
    /\ created = 0
    /\ references = 0
    /\ position = NoThread
    /\ deallocated = FALSE

-----------------------------------------------------------------------------
(* The interpreter                                                         *)

InPython(t) == py[t].at = "python"

Place(t, at) == py' = [py EXCEPT ![t].at = at]

\* A method has returned to Python; from the last one nothing does.
InPythonAgain(t) ==
    py' = [py EXCEPT ![t] =
             [NoMethod EXCEPT
                 !.at = IF py[t].op = "dealloc" THEN "gone" ELSE "python"]]

pyObjects == <<pointer, lib, handles, created, references, position, deallocated>>

\* A thread runs Python code while it holds the gil, and gives it up.
PyTakesGil(t) ==
    /\ py[t].at = "idle"
    /\ gil = NoThread
    /\ ~ deallocated
    /\ gil' = t
    /\ Place(t, "python")
    /\ UNCHANGED <<lock, pyObjects>>

PyYields(t) ==
    /\ InPython(t)
    /\ gil' = NoThread
    /\ Place(t, "idle")
    /\ UNCHANGED <<lock, pyObjects>>

\* Mutant of AllowThreads: the gil is kept around a call of libluksde.
AllowThreadsKeepingGil == UNCHANGED gil

AllowThreads == gil' = NoThread

\* A method of libluksde is called, which calls these functions of the handle.
LibraryCall(t, op, script) ==
    /\ AllowThreads
    /\ py' = [py EXCEPT ![t] = [op |-> op, at |-> "checks", script |-> script,
                                handle |-> NoHandle]]
    /\ UNCHANGED lock

Method(t, op, script) ==
    /\ InPython(t)
    /\ UNCHANGED pyObjects
    /\ LibraryCall(t, op, script)

-----------------------------------------------------------------------------
(* The methods of the volume object                                        *)

\* An IO handle lets go of the file object.
LetsGo(handle) ==
    /\ handles' = handles \ {handle}
    /\ references' = references - 1

\* libbfio_handle_free, called by a thread that holds the gil.
FreeHandle ==
    /\ LetsGo(pointer)
    /\ pointer' = NoHandle

OpenScript == <<"get_size", "seek", "read">>

\* Opening makes an IO handle of the file object.  When the volume object has
\* one already that is an error, and the handling of errors frees the one it
\* has.
PyOpenFileObject(t) ==
    /\ InPython(t)
    /\ t \in Owners
    /\ \/ /\ pointer = NoHandle
          /\ created < MaxHandles
          /\ created' = created + 1
          /\ handles' = handles \cup {created + 1}
          /\ references' = references + 1
          /\ pointer' = created + 1
          /\ LibraryCall(t, "open", OpenScript)
          /\ UNCHANGED <<lib, position, deallocated>>
       \/ /\ pointer # NoHandle
          /\ FreeHandle
          /\ UNCHANGED <<gil, lock, py, lib, created, position, deallocated>>

PyClose(t) == t \in Owners /\ Method(t, "close", <<>>)

\* Without a size all of the volume is read: its size is asked for first.
PyReadBuffer(t) ==
    Method(t, "read", <<"seek", "read">>) \/ Method(t, "size_first", <<>>)
PyReadBufferAtOffset(t) == Method(t, "read", <<"seek", "read">>)
PyUnlock(t) == Method(t, "unlock", <<"seek", "read">>)

\* These call nothing back; the first three do not take the lock either.
PyIsLocked(t) == Method(t, "lock_free", <<>>)
PyGetVolumeIdentifier(t) == Method(t, "lock_free", <<>>)
PySignalAbort(t) == Method(t, "lock_free", <<>>)
PySeekOffset(t) == Method(t, "locked", <<>>)
PyGetOffset(t) == Method(t, "locked", <<>>)
PyGetSize(t) == Method(t, "locked", <<>>)
PyGetEncryptionMethod(t) == Method(t, "locked", <<>>)
PySetPassword(t) == Method(t, "locked", <<>>)

\* The library is told eight times the size of the key, and refuses it.
PySetKey(t) == Method(t, "set_key", <<>>)

ReadOps == {"read", "unlock"}
OpenOps == ReadOps \cup {"close", "dealloc"}

-----------------------------------------------------------------------------
(* libluksde                                                               *)

\* Before the lock: opening takes a volume that is not open and the handle that
\* the volume object has by now, reading, unlocking and closing a volume that is
\* open, and a key has 16, 32 or 64 bytes.
LibraryChecks(t) ==
    /\ py[t].at = "checks"
    /\ py' = [py EXCEPT
                 ![t].at = CASE py[t].op = "open" /\ lib # NoHandle -> "failed"
                             [] py[t].op = "open" /\ pointer = NoHandle -> "failed"
                             [] py[t].op \in OpenOps /\ lib = NoHandle -> "failed"
                             [] py[t].op = "set_key" -> "failed"
                             [] py[t].op = "lock_free" -> "return"
                             [] OTHER -> "grab",
                 ![t].handle = IF py[t].op = "open" THEN pointer ELSE NoHandle]
    /\ UNCHANGED <<gil, lock, pyObjects>>

\* Mutant of LibraryGrabs: the lock is not waited for.
LibraryGrabsAnyway(t) ==
    /\ py[t].at = "grab"
    /\ lock' = t
    /\ Place(t, "locked")
    /\ UNCHANGED <<gil, pyObjects>>

LibraryGrabs(t) ==
    /\ py[t].at = "grab"
    /\ lock = NoThread
    /\ py[t].op = "open" => lib = NoHandle
    /\ lock' = t
    /\ Place(t, "locked")
    /\ UNCHANGED <<gil, pyObjects>>

\* A volume that was opened in between has its parts already.
LibraryRefuses(t) ==
    /\ py[t].at = "grab"
    /\ lock = NoThread
    /\ py[t].op = "open"
    /\ lib # NoHandle
    /\ Place(t, "failed")
    /\ UNCHANGED <<gil, lock, pyObjects>>

\* All functions of the handle have been called: an open volume reads from its
\* handle from now on, a closed one from none.  A read of a volume that was
\* closed in between fails.
LibraryReturns(t) ==
    /\ py[t].at = "locked"
    /\ py[t].script = <<>>
    /\ lib' = CASE py[t].op = "open" -> py[t].handle
                [] py[t].op \in {"close", "dealloc"} -> NoHandle
                [] OTHER -> lib
    /\ lock' = NoThread
    /\ Place(t, "return")
    /\ UNCHANGED <<gil, pointer, handles, created, references, position,
                   deallocated>>

LibraryFails(t) ==
    /\ py[t].at = "locked"
    /\ FileFaults \/ (py[t].op \in ReadOps /\ lib = NoHandle)
    /\ lock' = NoThread
    /\ Place(t, "failed")
    /\ UNCHANGED <<gil, pyObjects>>

-----------------------------------------------------------------------------
(* The functions of the file object IO handle                              *)

\* A volume that is open reads from its own handle; a handle that is opened or
\* freed is the one that was given.
HandleOf(t) == IF py[t].op \in ReadOps THEN lib ELSE py[t].handle

\* Mutant of PyGILStateEnsure: the gil is not taken.
PyGILStateEnsureNothing(t) == UNCHANGED gil

PyGILStateEnsure(t) ==
    /\ gil = NoThread
    /\ gil' = t

CallbackBegins(t) ==
    /\ py[t].at \in {"locked", "freeing"}
    /\ py[t].script # <<>>
    /\ HandleOf(t) \in handles
    /\ PyGILStateEnsure(t)
    /\ Place(t, "callback")
    /\ UNCHANGED <<lock, pyObjects>>

\* A handle that was freed is used, or freed again: whatever comes of it,
\* nothing is said of the threads any more.
UsesFreedHandle(t) ==
    /\ \/ py[t].at \in {"locked", "freeing"} /\ py[t].script # <<>>
       \/ py[t].at = "clear"
    /\ HandleOf(t) \notin handles \cup {NoHandle}
    /\ py' = [u \in Threads |-> [py[u] EXCEPT !.at = "undefined"]]
    /\ UNCHANGED <<gil, lock, pyObjects>>

\* PyGILState_Release, with the function done.
CallbackReleases(t, at) ==
    /\ gil' = NoThread
    /\ py' = [py EXCEPT ![t].at = at, ![t].script = Tail(@)]
    /\ UNCHANGED lock

InCallback(t, function) ==
    py[t].at = "callback" /\ Head(py[t].script) = function

\* The file object is asked for its size, or for its offset, to seek to its
\* end and for its offset again, and is then put back, unless that fails.
\* Failing answers success as well.
CallbackGetSize(t) ==
    /\ InCallback(t, "get_size")
    /\ position' \in {position} \cup (IF FileFaults THEN {t} ELSE {})
    /\ CallbackReleases(t, "locked")
    /\ UNCHANGED <<pointer, lib, handles, created, references, deallocated>>

CallbackSeek(t) ==
    /\ InCallback(t, "seek")
    /\ position' = t
    /\ CallbackReleases(t, "locked")
    /\ UNCHANGED <<pointer, lib, handles, created, references, deallocated>>

CallbackRead(t) ==
    /\ InCallback(t, "read")
    /\ position' = t
    /\ CallbackReleases(t, "locked")
    /\ UNCHANGED <<pointer, lib, handles, created, references, deallocated>>

\* A method of the file object raises, or answers what it should not: the
\* error is fetched, and the gil released.
CallbackRaises(t) ==
    /\ FileFaults
    /\ py[t].at = "callback"
    /\ Head(py[t].script) \in {"seek", "read"}
    /\ gil' = NoThread
    /\ lock' = NoThread
    /\ Place(t, "failed")
    /\ UNCHANGED pyObjects

\* Mutant of CallbackFree: the reference to the file object is kept.
CallbackFreeKeepingReference(t) ==
    /\ InCallback(t, "free")
    /\ handles' = handles \ {py[t].handle}
    /\ CallbackReleases(t, "freed")
    /\ UNCHANGED <<pointer, lib, created, references, position, deallocated>>

\* The handle's last function gives up its reference to the file object.
CallbackFree(t) ==
    /\ InCallback(t, "free")
    /\ LetsGo(py[t].handle)
    /\ CallbackReleases(t, "freed")
    /\ UNCHANGED <<pointer, lib, created, position, deallocated>>

-----------------------------------------------------------------------------
(* Back in Python                                                          *)

BackWithGil(t) == gil = NoThread /\ gil' = t

\* Most methods make an object of the result.  The size that was asked for
\* first is the size of a read.
PyReturns(t) ==
    /\ py[t].at = "return"
    /\ py[t].op \notin {"close", "dealloc", "size_first"}
    /\ BackWithGil(t)
    /\ InPythonAgain(t)
    /\ UNCHANGED <<lock, pyObjects>>

PyReadsAll(t) ==
    /\ py[t].at = "return"
    /\ py[t].op = "size_first"
    /\ gil = NoThread
    /\ py' = [py EXCEPT ![t].op = "read", ![t].at = "checks",
                        ![t].script = <<"seek", "read">>]
    /\ UNCHANGED <<gil, lock, pyObjects>>

\* The call failed: an exception.
PyRaises(t) ==
    /\ py[t].at = "failed"
    /\ BackWithGil(t)
    /\ Place(t, "raises")
    /\ UNCHANGED <<lock, pyObjects>>

\* The handle of a failed open is freed.
PyOnError(t) ==
    /\ py[t].at = "raises"
    /\ InPythonAgain(t)
    /\ IF py[t].op = "open" /\ pointer # NoHandle
       THEN FreeHandle ELSE UNCHANGED <<handles, references, pointer>>
    /\ UNCHANGED <<gil, lock, lib, created, position, deallocated>>

\* The volume is closed: when the volume object has a handle it is freed, with
\* the gil, which the look at it took, given up again.
PyFreesHandle(t) ==
    /\ py[t].at = "return"
    /\ py[t].op \in {"close", "dealloc"}
    /\ gil = NoThread
    /\ Place(t, IF pointer = NoHandle THEN "freed" ELSE "free")
    /\ UNCHANGED <<gil, lock, pyObjects>>

\* libbfio_handle_free, called without the gil: it takes the handle that the
\* pointer it was given leads to by now, if any,
HandleFreeReads(t) ==
    /\ py[t].at = "free"
    /\ py' = [py EXCEPT ![t].at = IF pointer = NoHandle THEN "freed" ELSE "clear",
                        ![t].handle = pointer]
    /\ UNCHANGED <<gil, lock, pyObjects>>

\* sets the pointer to NULL, and goes on to free the handle.
HandleFreeClears(t) ==
    /\ py[t].at = "clear"
    /\ py[t].handle \in handles
    /\ pointer' = NoHandle
    /\ py' = [py EXCEPT ![t].at = "freeing", ![t].script = <<"free">>]
    /\ UNCHANGED <<gil, lock, lib, handles, created, references, position,
                   deallocated>>

PyClosed(t) ==
    /\ py[t].at = "freed"
    /\ BackWithGil(t)
    /\ InPythonAgain(t)
    /\ UNCHANGED <<lock, pyObjects>>

\* The last reference to the volume object is dropped, which no thread uses:
\* it is closed when it has a handle.  When that fails nothing is freed.
PyFree(t) ==
    /\ InPython(t)
    /\ \A u \in Threads \ {t} : py[u].at = "idle"
    /\ deallocated' = TRUE
    /\ UNCHANGED <<pointer, lib, handles, created, references, position>>
    /\ IF pointer # NoHandle
       THEN LibraryCall(t, "dealloc", <<>>)
       ELSE Place(t, "gone") /\ UNCHANGED <<gil, lock>>

-----------------------------------------------------------------------------
PyMethods(t) ==
    \/ PyOpenFileObject(t) \/ PyClose(t) \/ PyReadBuffer(t)
    \/ PyReadBufferAtOffset(t) \/ PyUnlock(t) \/ PyIsLocked(t)
    \/ PyGetVolumeIdentifier(t) \/ PySignalAbort(t) \/ PySeekOffset(t)
    \/ PyGetOffset(t) \/ PyGetSize(t) \/ PyGetEncryptionMethod(t)
    \/ PySetKey(t) \/ PySetPassword(t) \/ PyFree(t)

\* A method goes on until Python code runs again.
PyGoesOn(t) ==
    \/ LibraryChecks(t) \/ LibraryGrabs(t) \/ LibraryRefuses(t)
    \/ LibraryReturns(t) \/ LibraryFails(t)
    \/ CallbackBegins(t) \/ UsesFreedHandle(t) \/ CallbackGetSize(t)
    \/ CallbackSeek(t) \/ CallbackRead(t) \/ CallbackRaises(t) \/ CallbackFree(t)
    \/ PyReturns(t) \/ PyReadsAll(t) \/ PyRaises(t) \/ PyOnError(t)
    \/ PyFreesHandle(t) \/ HandleFreeReads(t) \/ HandleFreeClears(t) \/ PyClosed(t)

PyNext == \E t \in Threads : PyTakesGil(t) \/ PyYields(t) \/ PyMethods(t) \/ PyGoesOn(t)

\* A thread that waits for the gil or the lock gets it in the end; threads that
\* run Python code give up the gil, which the interpreter makes them do.
PyFairness ==
    \A t \in Threads : SF_pyVars(PyGoesOn(t)) /\ WF_pyVars(PyYields(t))

-----------------------------------------------------------------------------
PyTypeOK ==
    /\ gil \in Threads \cup {NoThread}
    /\ lock \in Threads \cup {NoThread}
    /\ handles \subseteq 1 .. created
    /\ {pointer, lib} \subseteq 1 .. created \cup {NoHandle}
    /\ references \in 0 .. MaxHandles

\* Between the two steps of libbfio_handle_free, and until its last callback.
IsFreeing(t) == py[t].at \in {"clear", "freeing"} \/ InCallback(t, "free")

BeingFreed == {py[t].handle : t \in {u \in Threads : IsFreeing(u)}}

\* Closing a volume, or failing to open it again, frees its IO handle once: no
\* thread frees what another one has freed or is about to.
HandlesAreFreedOnce ==
    \A t \in Threads : IsFreeing(t) =>
        /\ py[t].handle \in handles
        /\ \A u \in Threads \ {t} : IsFreeing(u) => py[u].handle # py[t].handle

\* The file object is referenced once by every IO handle that exists, and there
\* is none but the volume object's and those that are being freed, which still
\* exist; so a volume object that is gone keeps none, unless closing it failed.
\* That is so until a handle that was freed is used, or two threads free one.
HandlesAreOwned ==
    /\ references = Cardinality(handles)
    /\ HandlesAreFreedOnce /\ (\A t \in Threads : py[t].at # "undefined") =>
           handles = ({pointer} \cup BeingFreed) \ {NoHandle}

\* References are counted and the file object's methods called only by a
\* thread that holds the gil.
PythonNeedsGil ==
    [][references' # references \/ position' # position =>
          \E t \in Threads :
             gil = t /\ py[t].at \in {"python", "callback", "raises"}]_pyVars

\* A read of the file object takes place where its own call sought before:
\* no other thread's method comes between the two.
ReadsAfterItsSeek ==
    \A t \in Threads : InCallback(t, "read") => position = t

PyMethodsReturn ==
    \A t \in Threads : py[t].at \notin {"idle", "python", "gone", "undefined"} ~>
                       py[t].at \in {"python", "gone", "undefined"}

\* A volume that is open reads from an IO handle that exists: a method that
\* raises "file IO handle already set" leaves the volume as it was.
OpenVolumeHasItsHandle == lib # NoHandle => lib \in handles
=============================================================================
