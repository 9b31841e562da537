---------------------------- MODULE ClientsProofs ----------------------------
(***************************************************************************)
(* Proofs about Clients, for any number of threads, IO handles, options    *)
(* and open files.  The programs share no variable, so that each is proved *)
(* about on its own.                                                       *)
(***************************************************************************)
EXTENDS Clients, CellsProofs

\* A behaviour of Clients is one of the Python bindings beside one of the
\* tools, either of which may stand still.
LEMMA ClientsApart ==
    /\ Init => PyInit /\ ToolsInit
    /\ [Next]_clientVars => [PyNext]_pyVars /\ [ToolsNext]_toolsVars
BY DEF Init, Next, clientVars

-----------------------------------------------------------------------------
(* The Python bindings                                                     *)

USE InterpreterAssumption

\* What is left to be called of an IO handle.
SeekRead == <<"seek", "read">>
LastRead == <<"read">>
Free == <<"free">>
Scripts == {<<>>, OpenScript, SeekRead, LastRead, Free}

Running == {"python", "callback", "raises"}

Ops == {"none", "open", "close", "read", "size_first", "unlock", "lock_free",
        "locked", "set_key", "dealloc"}

PyPlaces == {"idle", "python", "checks", "grab", "locked", "callback",
             "return", "failed", "raises", "free", "clear", "freeing", "freed",
             "gone", "undefined"}

\* The methods that free the IO handle once libluksde has closed the volume.
FreeOps == {"close", "dealloc"}

PyRecord ==
    [op : Ops, at : PyPlaces, script : Scripts, handle : Nat \cup {NoHandle}]

\* A thread that touches Python objects holds the gil; one that is inside of
\* a library call that takes the lock holds the lock, in the functions of its
\* IO handle as well; and before it reads the file object it has sought.
ThreadInv(t) ==
    /\ py[t].at \in Running => gil = t
    /\ py[t].at = "locked" => lock = t
    /\ py[t].at = "callback" /\ py[t].script # Free => lock = t
    /\ py[t].at \in {"checks", "grab"} =>
           py[t].script \in {<<>>, OpenScript, SeekRead}
    /\ py[t].at = "locked" => py[t].script # Free
    /\ py[t].at \in {"free", "clear", "freeing"} => py[t].op \in FreeOps
    /\ py[t].at = "freeing" =>
           /\ py[t].script = Free
           /\ py[t].handle \in 1 .. created /\ py[t].handle # pointer
    /\ py[t].at = "callback" => py[t].script # <<>>
    /\ py[t].at = "callback" /\ py[t].script = Free =>
           /\ py[t].op \in FreeOps
           /\ py[t].handle \in handles /\ py[t].handle # pointer
    /\ py[t].at \in {"locked", "callback"} /\ py[t].script = LastRead =>
           position = t

\* The IO handle of the volume object exists, and each one that does holds one
\* reference to the file object.
HandlesInv ==
    /\ created \in Nat
    /\ handles \subseteq 1 .. created
    /\ pointer \in handles \cup {NoHandle}
    /\ references = Cardinality(handles)

PyInv ==
    /\ py \in [Threads -> PyRecord]
    /\ gil \in Threads \cup {NoThread}
    /\ lock \in Threads \cup {NoThread}
    /\ HandlesInv
    /\ \A t \in Threads : ThreadInv(t)

LEMMA ScriptFacts ==
    /\ Head(OpenScript) = "get_size" /\ Tail(OpenScript) = SeekRead
    /\ Head(SeekRead) = "seek" /\ Tail(SeekRead) = LastRead
    /\ Head(LastRead) = "read" /\ Tail(LastRead) = <<>>
    /\ Head(Free) = "free" /\ Tail(Free) = <<>>
    /\ OpenScript # <<>> /\ SeekRead # <<>> /\ LastRead # <<>> /\ Free # <<>>
    /\ OpenScript # SeekRead /\ OpenScript # LastRead /\ OpenScript # Free
    /\ SeekRead # LastRead /\ SeekRead # Free /\ LastRead # Free
<1>1. /\ Len(OpenScript) = 3 /\ Len(SeekRead) = 2 /\ Len(LastRead) = 1
      /\ Len(Free) = 1 /\ Len(<<>>) = 0
  BY DEF OpenScript, SeekRead, LastRead, Free
<1>2. /\ Head(OpenScript) = "get_size" /\ Tail(OpenScript) = SeekRead
      /\ Head(SeekRead) = "seek" /\ Tail(SeekRead) = LastRead
      /\ Head(LastRead) = "read" /\ Tail(LastRead) = <<>>
      /\ Head(Free) = "free" /\ Tail(Free) = <<>>
  BY DEF OpenScript, SeekRead, LastRead, Free
<1> QED BY <1>1, <1>2

LEMMA InitPyInv == PyInit => PyInv
<1> SUFFICES ASSUME PyInit PROVE PyInv
  OBVIOUS
<1>1. NoMethod \in PyRecord
  BY DEF NoMethod, PyRecord, Scripts, Ops, PyPlaces
<1>2. py \in [Threads -> PyRecord]
  BY <1>1 DEF PyInit
<1>3. HandlesInv
  BY FS_EmptySet DEF PyInit, HandlesInv
<1>4. ASSUME NEW t \in Threads PROVE ThreadInv(t)
  <2>1. py[t].at = "idle"
    BY DEF PyInit, NoMethod
  <2> QED BY <2>1 DEF ThreadInv, Running
<1> QED BY <1>2, <1>3, <1>4 DEF PyInit, PyInv

\* The gil and the lock keep the other threads out of what a step is about.
LEMMA OthersKept ==
    ASSUME PyInv, NEW t \in Threads,
           \A u \in Threads \ {t} : py'[u] = py[u],
           gil' = gil \/ gil \in {t, NoThread},
           lock' = lock \/ lock \in {t, NoThread},
           position' = position \/ lock = t,
           created' = created \/ created' = created + 1,
           pointer' = pointer \/ pointer' \notin 1 .. created,
           handles' = handles \/ gil = t
    PROVE  \A u \in Threads \ {t} : ThreadInv(u)'
<1> SUFFICES ASSUME NEW u \in Threads \ {t} PROVE ThreadInv(u)'
  OBVIOUS
<1>1. ThreadInv(u) /\ HandlesInv /\ py'[u] = py[u]
  BY DEF PyInv
<1>2. py[u].at = "freeing" =>
          py[u].handle \in 1 .. created' /\ py[u].handle # pointer'
  BY <1>1 DEF ThreadInv, HandlesInv
<1>3. py[u].at = "callback" /\ py[u].script = Free =>
          py[u].handle \in handles' /\ py[u].handle # pointer'
  BY <1>1 DEF ThreadInv, HandlesInv, Running
<1> QED BY <1>1, <1>2, <1>3, ScriptFacts DEF ThreadInv, Running

\* A step of one thread: the rest is what becomes of it and of the handle.
LEMMA OneThread ==
    ASSUME PyInv, NEW t \in Threads,
           py' \in [Threads -> PyRecord],
           \A u \in Threads \ {t} : py'[u] = py[u],
           gil' = gil \/ gil' \in {t, NoThread},
           gil' = gil \/ gil \in {t, NoThread},
           lock' = lock \/ lock' \in {t, NoThread},
           lock' = lock \/ lock \in {t, NoThread},
           position' = position \/ lock = t,
           created' = created \/ created' = created + 1,
           pointer' = pointer \/ pointer' \notin 1 .. created,
           handles' = handles \/ gil = t,
           HandlesInv', ThreadInv(t)'
    PROVE  PyInv'
<1>1. \A u \in Threads \ {t} : ThreadInv(u)'
  BY OthersKept
<1> QED BY <1>1 DEF PyInv

\* Where no handle is made or freed they stay counted, and so they do when one
\* that exists is let go of.
LEMMA HandlesKept ==
    ASSUME HandlesInv, UNCHANGED <<pointer, handles, references, created>>
    PROVE  HandlesInv'
BY DEF HandlesInv

LEMMA HandlesFinite ==
    ASSUME HandlesInv
    PROVE  IsFiniteSet(handles) /\ Cardinality(handles) \in 0 .. created
<1>1. IsFiniteSet(1 .. created) /\ Cardinality(1 .. created) = created
  BY FS_Interval DEF HandlesInv
<1>2. IsFiniteSet(handles) /\ Cardinality(handles) <= Cardinality(1 .. created)
  BY <1>1, FS_Subset DEF HandlesInv
<1>3. Cardinality(handles) \in Nat
  BY <1>2, FS_CardinalityType
<1> QED BY <1>1, <1>2, <1>3 DEF HandlesInv

LEMMA NoHandleIsNone ==
    ASSUME HandlesInv
    PROVE  NoHandle \notin 1 .. created /\ NoHandle \notin handles
<1>1. NoHandle \notin 1 .. created
  BY InterpreterAssumption DEF HandlesInv
<1> QED BY <1>1 DEF HandlesInv

LEMMA HandleLetGo ==
    ASSUME HandlesInv, NEW handle \in handles, LetsGo(handle), created' = created,
           pointer' = NoHandle \/ (pointer' = pointer /\ handle # pointer)
    PROVE  HandlesInv'
<1>1. Cardinality(handles \ {handle}) = Cardinality(handles) - 1
  BY HandlesFinite, FS_RemoveElement
<1> QED BY <1>1 DEF HandlesInv, LetsGo

LEMMA PointerFreed ==
    ASSUME HandlesInv, pointer # NoHandle, FreeHandle, created' = created
    PROVE  HandlesInv' /\ pointer' \notin 1 .. created
<1>1. pointer \in handles /\ LetsGo(pointer) /\ pointer' = NoHandle
  BY DEF HandlesInv, FreeHandle
<1>2. pointer' \notin 1 .. created
  BY <1>1, NoHandleIsNone
<1>3. HandlesInv'
  BY <1>1, HandleLetGo
<1> QED BY <1>2, <1>3

\* What the steps do to the record of their thread.
LEMMA Placed ==
    ASSUME PyInv, NEW t \in Threads, NEW at \in PyPlaces, Place(t, at)
    PROVE  /\ py' \in [Threads -> PyRecord]
           /\ \A u \in Threads \ {t} : py'[u] = py[u]
           /\ py'[t] = [py[t] EXCEPT !.at = at]
           /\ py'[t].at = at /\ py'[t].op = py[t].op
           /\ py'[t].script = py[t].script /\ py'[t].handle = py[t].handle
BY DEF PyInv, PyRecord, Place

LEMMA Returned ==
    ASSUME PyInv, NEW t \in Threads, InPythonAgain(t)
    PROVE  /\ py' \in [Threads -> PyRecord]
           /\ \A u \in Threads \ {t} : py'[u] = py[u]
           /\ py'[t].at \in {"python", "gone"}
BY DEF PyInv, PyRecord, InPythonAgain, NoMethod, Scripts, Ops, PyPlaces

LEMMA CalledMethod ==
    ASSUME PyInv, NEW t \in Threads, NEW op \in Ops, NEW script \in Scripts,
           LibraryCall(t, op, script)
    PROVE  /\ py' \in [Threads -> PyRecord]
           /\ \A u \in Threads \ {t} : py'[u] = py[u]
           /\ py'[t].at = "checks" /\ py'[t].script = script
           /\ py'[t].op = op
<1>1. PICK called \in PyRecord :
          /\ py' = [py EXCEPT ![t] = called]
          /\ called.at = "checks" /\ called.script = script /\ called.op = op
  <2>1. [op |-> op, at |-> "checks", script |-> script, handle |-> NoHandle]
            \in PyRecord
    BY DEF PyRecord, PyPlaces
  <2> QED BY <2>1 DEF LibraryCall
<1>2. py \in [Threads -> PyRecord]
  BY DEF PyInv
<1>3. py' \in [Threads -> PyRecord]
  BY <1>1, <1>2
<1>4. \A u \in Threads \ {t} : py'[u] = py[u]
  BY <1>1, <1>2
<1>5. py'[t].at = "checks" /\ py'[t].script = script /\ py'[t].op = op
  BY <1>1, <1>2
<1> QED BY <1>3, <1>4, <1>5

LEMMA Checked ==
    ASSUME PyInv, NEW t \in Threads, LibraryChecks(t)
    PROVE  /\ py' \in [Threads -> PyRecord]
           /\ \A u \in Threads \ {t} : py'[u] = py[u]
           /\ py'[t].at \in {"failed", "return", "grab"}
           /\ py'[t].at = "return" => py[t].op = "lock_free"
           /\ py'[t].op = py[t].op /\ py'[t].script = py[t].script
           /\ py'[t].handle \in {pointer, NoHandle}
<1> DEFINE at == CASE py[t].op = "open" /\ lib # NoHandle -> "failed"
                   [] py[t].op = "open" /\ pointer = NoHandle -> "failed"
                   [] py[t].op \in OpenOps /\ lib = NoHandle -> "failed"
                   [] py[t].op = "set_key" -> "failed"
                   [] py[t].op = "lock_free" -> "return"
                   [] OTHER -> "grab"
           handle == IF py[t].op = "open" THEN pointer ELSE NoHandle
<1>1. py' = [py EXCEPT ![t].at = at, ![t].handle = handle]
  BY DEF LibraryChecks
<1>2. /\ at \in {"failed", "return", "grab"}
      /\ at = "return" => py[t].op = "lock_free"
  OBVIOUS
<1>3. handle \in {pointer, NoHandle} /\ handle \in Nat \cup {NoHandle}
  BY DEF PyInv, HandlesInv
<1> HIDE DEF at, handle
<1>4. py \in [Threads -> PyRecord] /\ at \in PyPlaces
  BY <1>2 DEF PyInv, PyPlaces
<1> QED BY <1>1, <1>2, <1>3, <1>4 DEF PyRecord

LEMMA Released ==
    ASSUME PyInv, NEW t \in Threads, NEW at \in PyPlaces,
           CallbackReleases(t, at), Tail(py[t].script) \in Scripts
    PROVE  /\ py' \in [Threads -> PyRecord]
           /\ \A u \in Threads \ {t} : py'[u] = py[u]
           /\ py'[t].at = at /\ py'[t].script = Tail(py[t].script)
           /\ py'[t].op = py[t].op
BY DEF PyInv, PyRecord, CallbackReleases

\* A step that moves a thread on and touches no object.
LEMMA MovedOn ==
    ASSUME PyInv, NEW t \in Threads, NEW at \in PyPlaces, Place(t, at),
           UNCHANGED pyObjects,
           gil' = gil \/ gil' \in {t, NoThread},
           gil' = gil \/ gil \in {t, NoThread},
           lock' = lock \/ lock' \in {t, NoThread},
           lock' = lock \/ lock \in {t, NoThread},
           ThreadInv(t)'
    PROVE  PyInv'
<1>1. /\ py' \in [Threads -> PyRecord]
      /\ \A u \in Threads \ {t} : py'[u] = py[u]
  BY Placed
<1>2. /\ pointer' = pointer /\ handles' = handles /\ references' = references
      /\ created' = created /\ position' = position
  BY DEF pyObjects
<1>3. HandlesInv'
  BY <1>2, HandlesKept DEF PyInv
<1> QED BY <1>1, <1>2, <1>3, OneThread

\* Places of a thread of which nothing is said, and those with only the gil.
LEMMA QuietThread ==
    ASSUME NEW t \in Threads,
           py'[t].at \in {"idle", "return", "failed", "freed", "gone", "undefined"}
    PROVE  ThreadInv(t)'
BY DEF ThreadInv, Running

LEMMA ThreadWithGil ==
    ASSUME NEW t \in Threads, gil' = t,
           py'[t].at \in {"python", "raises", "gone"}
    PROVE  ThreadInv(t)'
BY DEF ThreadInv, Running

LEMMA NextPyInv == PyInv /\ [PyNext]_pyVars => PyInv'
<1> SUFFICES ASSUME PyInv, [PyNext]_pyVars PROVE PyInv'
  OBVIOUS
<1>0. /\ HandlesInv
      /\ \A t \in Threads : py[t] \in PyRecord /\ ThreadInv(t)
  BY DEF PyInv
<1>1. ASSUME NEW t \in Threads, PyTakesGil(t) PROVE PyInv'
  <2>1. /\ gil = NoThread /\ gil' = t /\ lock' = lock
        /\ Place(t, "python") /\ UNCHANGED pyObjects
    BY <1>1 DEF PyTakesGil
  <2>2. "python" \in PyPlaces
    BY DEF PyPlaces
  <2>3. /\ py'[t].at = "python" /\ py'[t].script = py[t].script
        /\ py'[t].op = py[t].op
    BY <2>1, <2>2, Placed
  <2>4. ThreadInv(t)'
    BY <2>1, <2>3, ThreadWithGil
  <2> QED BY <2>1, <2>2, <2>4, MovedOn
<1>2. ASSUME NEW t \in Threads, PyYields(t) PROVE PyInv'
  <2>1. /\ gil = t /\ gil' = NoThread /\ lock' = lock
        /\ Place(t, "idle") /\ UNCHANGED pyObjects
    BY <1>0, <1>2 DEF PyYields, InPython, ThreadInv, Running
  <2>2. "idle" \in PyPlaces
    BY DEF PyPlaces
  <2>3. /\ py'[t].at = "idle" /\ py'[t].script = py[t].script
        /\ py'[t].op = py[t].op
    BY <2>1, <2>2, Placed
  <2>4. ThreadInv(t)'
    BY <2>3, QuietThread
  <2> QED BY <2>1, <2>2, <2>4, MovedOn
<1>3. ASSUME NEW t \in Threads, NEW op \in Ops,
             NEW script \in {<<>>, OpenScript, SeekRead}, Method(t, op, script)
      PROVE  PyInv'
  <2>1. /\ gil = t /\ gil' = NoThread /\ lock' = lock /\ position' = position
        /\ pointer' = pointer /\ handles' = handles
        /\ references' = references /\ created' = created
        /\ LibraryCall(t, op, script)
    BY <1>0, <1>3 DEF Method, LibraryCall, AllowThreads, InPython, pyObjects,
                      ThreadInv, Running
  <2>2. script \in Scripts
    BY DEF Scripts
  <2>3. /\ py' \in [Threads -> PyRecord]
        /\ \A u \in Threads \ {t} : py'[u] = py[u]
        /\ py'[t].at = "checks" /\ py'[t].script = script
    BY <2>1, <2>2, CalledMethod
  <2>4. ThreadInv(t)'
    BY <2>3 DEF ThreadInv, Running
  <2>5. HandlesInv'
    BY <1>0, <2>1, HandlesKept
  <2> QED BY <2>1, <2>3, <2>4, <2>5, OneThread
<1>4. ASSUME NEW t \in Threads, PyOpenFileObject(t) PROVE PyInv'
  <2>0. gil = t
    BY <1>0, <1>4 DEF PyOpenFileObject, InPython, ThreadInv, Running
  <2>1. CASE pointer = NoHandle
    <3> USE DEF PyOpenFileObject
    <3>1. /\ created' = created + 1
          /\ handles' = handles \cup {created + 1}
          /\ references' = references + 1
          /\ pointer' = created + 1
          /\ LibraryCall(t, "open", OpenScript)
          /\ UNCHANGED <<lib, position, deallocated>>
      BY <1>4, <2>1
    <3>2. created \in Nat /\ created + 1 \notin handles /\ pointer' \notin 1 .. created
      BY <1>0, <3>1 DEF HandlesInv
    <3>3. HandlesInv'
      <4>1. Cardinality(handles') = Cardinality(handles) + 1
        BY <1>0, <3>1, <3>2, HandlesFinite, FS_AddElement
      <4> QED BY <1>0, <3>1, <3>2, <4>1 DEF HandlesInv
    <3>4. OpenScript \in Scripts /\ "open" \in Ops
      BY DEF Scripts, Ops
    <3>5. /\ py' \in [Threads -> PyRecord]
          /\ \A u \in Threads \ {t} : py'[u] = py[u]
          /\ py'[t].at = "checks" /\ py'[t].script = OpenScript
      BY <3>1, <3>4, CalledMethod
    <3>6. ThreadInv(t)'
      BY <3>5 DEF ThreadInv, Running
    <3>7. gil' = NoThread /\ lock' = lock /\ position' = position
      BY <3>1 DEF LibraryCall, AllowThreads
    <3> QED BY <2>0, <3>1, <3>2, <3>3, <3>5, <3>6, <3>7, OneThread
  <2>2. CASE pointer # NoHandle
    <3>1. /\ FreeHandle /\ gil' = gil /\ lock' = lock /\ py' = py
          /\ created' = created /\ position' = position
      BY <1>4, <2>2 DEF PyOpenFileObject
    <3>2. HandlesInv' /\ pointer' \notin 1 .. created
      BY <1>0, <2>2, <3>1, PointerFreed
    <3>3. ThreadInv(t)'
      BY <1>4, <2>0, <3>1, ThreadWithGil DEF PyOpenFileObject, InPython
    <3>4. py' \in [Threads -> PyRecord]
      BY <3>1 DEF PyInv
    <3> QED BY <2>0, <3>1, <3>2, <3>3, <3>4, OneThread
  <2> QED BY <2>1, <2>2
<1>5. ASSUME NEW t \in Threads, PyFree(t) PROVE PyInv'
  <2>1. /\ gil = t /\ position' = position
        /\ pointer' = pointer /\ handles' = handles
        /\ references' = references /\ created' = created
    BY <1>0, <1>5 DEF PyFree, InPython, ThreadInv, Running
  <2>2. HandlesInv'
    BY <1>0, <2>1, HandlesKept
  <2>3. CASE pointer # NoHandle
    <3>1. LibraryCall(t, "dealloc", <<>>) /\ gil' = NoThread /\ lock' = lock
      BY <1>5, <2>3 DEF PyFree, LibraryCall, AllowThreads
    <3>2. <<>> \in Scripts /\ "dealloc" \in Ops
      BY DEF Scripts, Ops
    <3>3. /\ py' \in [Threads -> PyRecord]
          /\ \A u \in Threads \ {t} : py'[u] = py[u]
          /\ py'[t].at = "checks" /\ py'[t].script = <<>>
      BY <3>1, <3>2, CalledMethod
    <3>4. ThreadInv(t)'
      BY <3>3 DEF ThreadInv, Running
    <3> QED BY <2>1, <2>2, <3>1, <3>3, <3>4, OneThread
  <2>4. CASE pointer = NoHandle
    <3>1. Place(t, "gone") /\ gil' = gil /\ lock' = lock
      BY <1>5, <2>4 DEF PyFree
    <3>2. "gone" \in PyPlaces
      BY DEF PyPlaces
    <3>3. /\ py' \in [Threads -> PyRecord]
          /\ \A u \in Threads \ {t} : py'[u] = py[u]
          /\ py'[t].at = "gone"
      BY <3>1, <3>2, Placed
    <3>4. ThreadInv(t)'
      BY <3>3, QuietThread
    <3> QED BY <2>1, <2>2, <3>1, <3>3, <3>4, OneThread
  <2> QED BY <2>3, <2>4
<1>6. ASSUME NEW t \in Threads, PyMethods(t) PROVE PyInv'
  <2>1. /\ <<>> \in {<<>>, OpenScript, SeekRead}
        /\ <<"seek", "read">> \in {<<>>, OpenScript, SeekRead}
    BY DEF SeekRead
  <2>2. {"close", "read", "size_first", "unlock", "lock_free", "locked",
         "set_key"} \subseteq Ops
    BY DEF Ops
  <2>3. CASE PyOpenFileObject(t)
    BY <2>3, <1>4
  <2>4. CASE PyFree(t)
    BY <2>4, <1>5
  <2>5. CASE \E op \in {"close", "read", "size_first", "unlock", "lock_free",
                        "locked", "set_key"},
                script \in {<<>>, <<"seek", "read">>} : Method(t, op, script)
    BY <2>1, <2>2, <2>5, <1>3
  <2> QED BY <1>6, <2>3, <2>4, <2>5
          DEF PyMethods, PyClose, PyReadBuffer, PyReadBufferAtOffset, PyUnlock,
              PyIsLocked, PyGetVolumeIdentifier, PySignalAbort, PySeekOffset,
              PyGetOffset, PyGetSize, PyGetEncryptionMethod, PySetKey,
              PySetPassword
<1>7. ASSUME NEW t \in Threads, LibraryChecks(t) PROVE PyInv'
  <2>2. /\ gil' = gil /\ lock' = lock /\ position' = position
        /\ pointer' = pointer /\ handles' = handles
        /\ references' = references /\ created' = created
        /\ py[t].script \in {<<>>, OpenScript, SeekRead}
    BY <1>0, <1>7 DEF LibraryChecks, ThreadInv, pyObjects
  <2>5. /\ py' \in [Threads -> PyRecord]
        /\ \A u \in Threads \ {t} : py'[u] = py[u]
        /\ py'[t].at \in {"failed", "return", "grab"}
        /\ py'[t].script = py[t].script
    BY <1>7, Checked
  <2>6. ThreadInv(t)'
    BY <2>2, <2>5, ScriptFacts DEF ThreadInv, Running
  <2>7. HandlesInv'
    BY <1>0, <2>2, HandlesKept
  <2> QED BY <2>2, <2>5, <2>6, <2>7, OneThread
<1>8. ASSUME NEW t \in Threads, LibraryGrabs(t) PROVE PyInv'
  <2>1. /\ lock = NoThread /\ lock' = t /\ gil' = gil
        /\ Place(t, "locked") /\ UNCHANGED pyObjects
        /\ py[t].script \in {<<>>, OpenScript, SeekRead}
    BY <1>0, <1>8 DEF LibraryGrabs, ThreadInv
  <2>2. "locked" \in PyPlaces
    BY DEF PyPlaces
  <2>3. /\ py'[t].at = "locked" /\ py'[t].script = py[t].script
        /\ py'[t].op = py[t].op
    BY <2>1, <2>2, Placed
  <2>4. ThreadInv(t)'
    BY <2>1, <2>3, ScriptFacts DEF ThreadInv, Running
  <2> QED BY <2>1, <2>2, <2>4, MovedOn
<1>9. ASSUME NEW t \in Threads, LibraryReturns(t) PROVE PyInv'
  <2>1. /\ lock = t /\ lock' = NoThread /\ gil' = gil /\ position' = position
        /\ pointer' = pointer /\ handles' = handles
        /\ references' = references /\ created' = created
        /\ Place(t, "return")
    BY <1>0, <1>9 DEF LibraryReturns, ThreadInv
  <2>2. "return" \in PyPlaces
    BY DEF PyPlaces
  <2>3. /\ py' \in [Threads -> PyRecord]
        /\ \A u \in Threads \ {t} : py'[u] = py[u]
        /\ py'[t].at = "return"
    BY <2>1, <2>2, Placed
  <2>4. ThreadInv(t)'
    BY <2>3, QuietThread
  <2>5. HandlesInv'
    BY <1>0, <2>1, HandlesKept
  <2> QED BY <2>1, <2>3, <2>4, <2>5, OneThread
<1>10. ASSUME NEW t \in Threads, LibraryFails(t) PROVE PyInv'
  <2>1. /\ lock = t /\ lock' = NoThread /\ gil' = gil
        /\ Place(t, "failed") /\ UNCHANGED pyObjects
    BY <1>0, <1>10 DEF LibraryFails, ThreadInv
  <2>2. "failed" \in PyPlaces
    BY DEF PyPlaces
  <2>3. /\ py'[t].at = "failed" /\ py'[t].script = py[t].script
        /\ py'[t].op = py[t].op
    BY <2>1, <2>2, Placed
  <2>4. ThreadInv(t)'
    BY <2>3, QuietThread
  <2> QED BY <2>1, <2>2, <2>4, MovedOn
<1>25. ASSUME NEW t \in Threads, LibraryRefuses(t) PROVE PyInv'
  <2>1. /\ gil' = gil /\ lock' = lock
        /\ Place(t, "failed") /\ UNCHANGED pyObjects
    BY <1>25 DEF LibraryRefuses
  <2>2. "failed" \in PyPlaces
    BY DEF PyPlaces
  <2>3. py'[t].at = "failed"
    BY <2>1, <2>2, Placed
  <2>4. ThreadInv(t)'
    BY <2>3, QuietThread
  <2> QED BY <2>1, <2>2, <2>4, MovedOn
<1>11. ASSUME NEW t \in Threads, CallbackBegins(t) PROVE PyInv'
  <2>1. /\ gil = NoThread /\ gil' = t /\ lock' = lock
        /\ Place(t, "callback") /\ UNCHANGED pyObjects
        /\ py[t].script # <<>>
    BY <1>11 DEF CallbackBegins, PyGILStateEnsure
  <2>2. "callback" \in PyPlaces
    BY DEF PyPlaces
  <2>3. /\ py'[t].at = "callback" /\ py'[t].script = py[t].script
        /\ py'[t].op = py[t].op /\ py'[t].handle = py[t].handle
    BY <2>1, <2>2, Placed
  <2>4. /\ position' = position /\ pointer' = pointer /\ handles' = handles
    BY <2>1 DEF pyObjects
  <2>5. py[t].script = Free =>
            /\ py[t].op \in FreeOps
            /\ py[t].handle \in handles /\ py[t].handle # pointer
    <3> SUFFICES ASSUME py[t].script = Free
                 PROVE  /\ py[t].op \in FreeOps
                        /\ py[t].handle \in handles /\ py[t].handle # pointer
      OBVIOUS
    <3>1. py[t].at = "freeing"
      BY <1>0, <1>11 DEF CallbackBegins, ThreadInv
    <3>2. py[t].op \in FreeOps /\ py[t].handle # pointer
      BY <1>0, <3>1 DEF ThreadInv
    <3>3. HandleOf(t) = py[t].handle
      BY <3>2 DEF HandleOf, ReadOps, FreeOps
    <3> QED BY <1>11, <3>2, <3>3 DEF CallbackBegins
  <2>6. py[t].script # Free => lock = t
    BY <1>0, <1>11 DEF CallbackBegins, ThreadInv
  <2>7. py[t].script = LastRead => position = t
    BY <1>0, <1>11, ScriptFacts DEF CallbackBegins, ThreadInv
  <2>8. ThreadInv(t)'
    BY <2>1, <2>3, <2>4, <2>5, <2>6, <2>7 DEF ThreadInv, Running
  <2> QED BY <2>1, <2>2, <2>8, MovedOn
<1>12. ASSUME NEW t \in Threads, UsesFreedHandle(t) PROVE PyInv'
  <2>1. /\ py' \in [Threads -> PyRecord]
        /\ \A u \in Threads : py'[u].at = "undefined"
    BY <1>0, <1>12 DEF UsesFreedHandle, PyRecord, PyPlaces
  <2>2. \A u \in Threads : ThreadInv(u)'
    BY <2>1, QuietThread
  <2>3. /\ gil' = gil /\ lock' = lock
        /\ pointer' = pointer /\ handles' = handles
        /\ references' = references /\ created' = created
    BY <1>12 DEF UsesFreedHandle, pyObjects
  <2>4. HandlesInv'
    BY <1>0, <2>3, HandlesKept
  <2> QED BY <2>1, <2>2, <2>3, <2>4 DEF PyInv
<1>13. ASSUME NEW t \in Threads, py[t].at = "callback"
       PROVE  /\ gil = t
              /\ py[t].script \in {OpenScript, SeekRead, LastRead, Free}
              /\ py[t].script # Free => lock = t
              /\ py[t].script = Free =>
                     py[t].handle \in handles /\ py[t].handle # pointer
  BY <1>0, <1>13 DEF ThreadInv, Running, PyRecord, Scripts
<1>14. ASSUME NEW t \in Threads, CallbackGetSize(t) PROVE PyInv'
  <2>1. py[t].script = OpenScript /\ gil = t /\ lock = t
    BY <1>13, <1>14, ScriptFacts DEF CallbackGetSize, InCallback
  <2>2. Tail(py[t].script) = SeekRead /\ SeekRead \in Scripts
    BY <2>1, ScriptFacts DEF Scripts
  <2>3. /\ CallbackReleases(t, "locked") /\ gil' = NoThread /\ lock' = lock
        /\ pointer' = pointer /\ handles' = handles
        /\ references' = references /\ created' = created
    BY <1>14 DEF CallbackGetSize, CallbackReleases
  <2>4. "locked" \in PyPlaces
    BY DEF PyPlaces
  <2>5. /\ py' \in [Threads -> PyRecord]
        /\ \A u \in Threads \ {t} : py'[u] = py[u]
        /\ py'[t].at = "locked" /\ py'[t].script = SeekRead
    BY <2>2, <2>3, <2>4, Released
  <2>6. ThreadInv(t)'
    BY <2>1, <2>3, <2>5, ScriptFacts DEF ThreadInv, Running
  <2>7. HandlesInv'
    BY <1>0, <2>3, HandlesKept
  <2> QED BY <2>1, <2>3, <2>5, <2>6, <2>7, OneThread
<1>15. ASSUME NEW t \in Threads, CallbackSeek(t) PROVE PyInv'
  <2>1. py[t].script = SeekRead /\ gil = t /\ lock = t
    BY <1>13, <1>15, ScriptFacts DEF CallbackSeek, InCallback
  <2>2. Tail(py[t].script) = LastRead /\ LastRead \in Scripts
    BY <2>1, ScriptFacts DEF Scripts
  <2>3. /\ CallbackReleases(t, "locked") /\ gil' = NoThread /\ lock' = lock
        /\ pointer' = pointer /\ handles' = handles
        /\ references' = references /\ created' = created
        /\ position' = t
    BY <1>15 DEF CallbackSeek, CallbackReleases
  <2>4. "locked" \in PyPlaces
    BY DEF PyPlaces
  <2>5. /\ py' \in [Threads -> PyRecord]
        /\ \A u \in Threads \ {t} : py'[u] = py[u]
        /\ py'[t].at = "locked" /\ py'[t].script = LastRead
    BY <2>2, <2>3, <2>4, Released
  <2>6. ThreadInv(t)'
    BY <2>1, <2>3, <2>5, ScriptFacts DEF ThreadInv, Running
  <2>7. HandlesInv'
    BY <1>0, <2>3, HandlesKept
  <2> QED BY <2>1, <2>3, <2>5, <2>6, <2>7, OneThread
<1>16. ASSUME NEW t \in Threads, CallbackRead(t) PROVE PyInv'
  <2>1. py[t].script = LastRead /\ gil = t /\ lock = t
    BY <1>13, <1>16, ScriptFacts DEF CallbackRead, InCallback
  <2>2. Tail(py[t].script) = <<>> /\ <<>> \in Scripts
    BY <2>1, ScriptFacts DEF Scripts
  <2>3. /\ CallbackReleases(t, "locked") /\ gil' = NoThread /\ lock' = lock
        /\ pointer' = pointer /\ handles' = handles
        /\ references' = references /\ created' = created
        /\ position' = t
    BY <1>16 DEF CallbackRead, CallbackReleases
  <2>4. "locked" \in PyPlaces
    BY DEF PyPlaces
  <2>5. /\ py' \in [Threads -> PyRecord]
        /\ \A u \in Threads \ {t} : py'[u] = py[u]
        /\ py'[t].at = "locked" /\ py'[t].script = <<>>
    BY <2>2, <2>3, <2>4, Released
  <2>6. ThreadInv(t)'
    BY <2>1, <2>3, <2>5, ScriptFacts DEF ThreadInv, Running
  <2>7. HandlesInv'
    BY <1>0, <2>3, HandlesKept
  <2> QED BY <2>1, <2>3, <2>5, <2>6, <2>7, OneThread
<1>17. ASSUME NEW t \in Threads, CallbackRaises(t) PROVE PyInv'
  <2>1. /\ gil = t /\ lock = t /\ gil' = NoThread
        /\ lock' = NoThread
        /\ Place(t, "failed") /\ UNCHANGED pyObjects
    BY <1>13, <1>17, ScriptFacts DEF CallbackRaises
  <2>2. "failed" \in PyPlaces
    BY DEF PyPlaces
  <2>3. /\ py'[t].at = "failed" /\ py'[t].script = py[t].script
        /\ py'[t].op = py[t].op
    BY <2>1, <2>2, Placed
  <2>4. ThreadInv(t)'
    BY <2>3, QuietThread
  <2> QED BY <2>1, <2>2, <2>4, MovedOn
<1>18. ASSUME NEW t \in Threads, CallbackFree(t) PROVE PyInv'
  <2>1. /\ py[t].script = Free /\ gil = t
        /\ py[t].handle \in handles /\ py[t].handle # pointer
    BY <1>13, <1>18, ScriptFacts DEF CallbackFree, InCallback
  <2>2. Tail(py[t].script) = <<>> /\ <<>> \in Scripts
    BY <2>1, ScriptFacts DEF Scripts
  <2>3. /\ CallbackReleases(t, "freed") /\ gil' = NoThread /\ lock' = lock
        /\ LetsGo(py[t].handle) /\ pointer' = pointer
        /\ created' = created /\ position' = position
    BY <1>18 DEF CallbackFree, CallbackReleases
  <2>4. "freed" \in PyPlaces
    BY DEF PyPlaces
  <2>5. /\ py' \in [Threads -> PyRecord]
        /\ \A u \in Threads \ {t} : py'[u] = py[u]
        /\ py'[t].at = "freed"
    BY <2>2, <2>3, <2>4, Released
  <2>6. ThreadInv(t)'
    BY <2>5, QuietThread
  <2>7. HandlesInv'
    BY <1>0, <2>1, <2>3, HandleLetGo
  <2> QED BY <2>1, <2>3, <2>5, <2>6, <2>7, OneThread
<1>19. ASSUME NEW t \in Threads, PyReturns(t) \/ PyClosed(t) PROVE PyInv'
  <2>1. /\ gil = NoThread /\ gil' = t /\ lock' = lock /\ position' = position
        /\ pointer' = pointer /\ handles' = handles
        /\ references' = references /\ created' = created
        /\ InPythonAgain(t)
    BY <1>19 DEF PyReturns, PyClosed, BackWithGil, pyObjects
  <2>2. /\ py' \in [Threads -> PyRecord]
        /\ \A u \in Threads \ {t} : py'[u] = py[u]
        /\ py'[t].at \in {"python", "gone"}
    BY <2>1, Returned
  <2>3. ThreadInv(t)'
    BY <2>1, <2>2, ThreadWithGil
  <2>4. HandlesInv'
    BY <1>0, <2>1, HandlesKept
  <2> QED BY <2>1, <2>2, <2>3, <2>4, OneThread
<1>20. ASSUME NEW t \in Threads, PyReadsAll(t) PROVE PyInv'
  <2>1. /\ gil' = gil /\ lock' = lock /\ position' = position
        /\ pointer' = pointer /\ handles' = handles
        /\ references' = references /\ created' = created
        /\ py' = [py EXCEPT ![t].op = "read", ![t].at = "checks",
                            ![t].script = SeekRead]
    BY <1>20 DEF PyReadsAll, pyObjects, SeekRead
  <2>2. SeekRead \in Scripts /\ "read" \in Ops /\ "checks" \in PyPlaces
    BY DEF Scripts, Ops, PyPlaces
  <2>3. py \in [Threads -> PyRecord]
    BY DEF PyInv
  <2>4. /\ py' \in [Threads -> PyRecord]
        /\ \A u \in Threads \ {t} : py'[u] = py[u]
        /\ py'[t].at = "checks" /\ py'[t].script = SeekRead
    BY <2>1, <2>2, <2>3 DEF PyRecord
  <2>5. ThreadInv(t)'
    BY <2>4 DEF ThreadInv, Running
  <2>6. HandlesInv'
    BY <1>0, <2>1, HandlesKept
  <2> QED BY <2>1, <2>4, <2>5, <2>6, OneThread
<1>21. ASSUME NEW t \in Threads, PyRaises(t) PROVE PyInv'
  <2>1. /\ gil = NoThread /\ gil' = t /\ lock' = lock
        /\ Place(t, "raises") /\ UNCHANGED pyObjects
    BY <1>21 DEF PyRaises, BackWithGil
  <2>2. "raises" \in PyPlaces
    BY DEF PyPlaces
  <2>3. /\ py'[t].at = "raises" /\ py'[t].script = py[t].script
        /\ py'[t].op = py[t].op
    BY <2>1, <2>2, Placed
  <2>4. ThreadInv(t)'
    BY <2>1, <2>3, ThreadWithGil
  <2> QED BY <2>1, <2>2, <2>4, MovedOn
<1>22. ASSUME NEW t \in Threads, PyOnError(t) PROVE PyInv'
  <2>1. /\ gil = t /\ gil' = gil /\ lock' = lock /\ position' = position
        /\ created' = created /\ InPythonAgain(t)
    BY <1>0, <1>22 DEF PyOnError, ThreadInv, Running
  <2>2. HandlesInv' /\ (pointer' = pointer \/ pointer' \notin 1 .. created)
    <3>1. CASE py[t].op = "open" /\ pointer # NoHandle
      BY <1>0, <1>22, <2>1, <3>1, PointerFreed DEF PyOnError
    <3>2. CASE ~ (py[t].op = "open" /\ pointer # NoHandle)
      BY <1>0, <1>22, <2>1, <3>2, HandlesKept DEF PyOnError
    <3> QED BY <3>1, <3>2
  <2>3. /\ py' \in [Threads -> PyRecord]
        /\ \A u \in Threads \ {t} : py'[u] = py[u]
        /\ py'[t].at \in {"python", "gone"}
    BY <2>1, Returned
  <2>4. ThreadInv(t)'
    BY <2>1, <2>3, ThreadWithGil
  <2> QED BY <2>1, <2>2, <2>3, <2>4, OneThread
<1>23. ASSUME NEW t \in Threads, PyFreesHandle(t) PROVE PyInv'
  <2>1. PICK at \in {"freed", "free"} :
            /\ Place(t, at) /\ UNCHANGED pyObjects
            /\ gil' = gil /\ lock' = lock /\ py[t].op \in FreeOps
    BY <1>23 DEF PyFreesHandle, FreeOps
  <2>2. at \in PyPlaces
    BY DEF PyPlaces
  <2>3. py'[t].at = at /\ py'[t].op = py[t].op
    BY <2>1, <2>2, Placed
  <2>4. ThreadInv(t)'
    BY <2>1, <2>3 DEF ThreadInv, Running
  <2> QED BY <2>1, <2>2, <2>4, MovedOn
<1>26. ASSUME NEW t \in Threads, HandleFreeReads(t) PROVE PyInv'
  <2>1. PICK at \in {"freed", "clear"} :
            py' = [py EXCEPT ![t].at = at, ![t].handle = pointer]
    BY <1>26 DEF HandleFreeReads
  <2>2. /\ gil' = gil /\ lock' = lock /\ position' = position
        /\ pointer' = pointer /\ handles' = handles
        /\ references' = references /\ created' = created
        /\ py[t].op \in FreeOps
    BY <1>0, <1>26 DEF HandleFreeReads, ThreadInv, pyObjects
  <2>3. at \in PyPlaces /\ pointer \in Nat \cup {NoHandle}
    BY <1>0 DEF PyPlaces, HandlesInv
  <2>4. py \in [Threads -> PyRecord]
    BY DEF PyInv
  <2>5. /\ py' \in [Threads -> PyRecord]
        /\ \A u \in Threads \ {t} : py'[u] = py[u]
        /\ py'[t].at = at /\ py'[t].op = py[t].op
    BY <2>1, <2>3, <2>4 DEF PyRecord
  <2>6. ThreadInv(t)'
    BY <2>2, <2>5 DEF ThreadInv, Running
  <2>7. HandlesInv'
    BY <1>0, <2>2, HandlesKept
  <2> QED BY <2>2, <2>5, <2>6, <2>7, OneThread
<1>27. ASSUME NEW t \in Threads, HandleFreeClears(t) PROVE PyInv'
  <2>1. /\ gil' = gil /\ lock' = lock /\ position' = position
        /\ handles' = handles /\ references' = references /\ created' = created
        /\ pointer' = NoHandle
        /\ py[t].handle \in handles /\ py[t].op \in FreeOps
        /\ py' = [py EXCEPT ![t].at = "freeing", ![t].script = Free]
    BY <1>0, <1>27 DEF HandleFreeClears, ThreadInv, Free
  <2>2. Free \in Scripts /\ "freeing" \in PyPlaces
    BY DEF Scripts, PyPlaces
  <2>3. py \in [Threads -> PyRecord]
    BY DEF PyInv
  <2>4. /\ py' \in [Threads -> PyRecord]
        /\ \A u \in Threads \ {t} : py'[u] = py[u]
        /\ py'[t].at = "freeing" /\ py'[t].script = Free
        /\ py'[t].op = py[t].op /\ py'[t].handle = py[t].handle
    BY <2>1, <2>2, <2>3 DEF PyRecord
  <2>5. pointer' \notin 1 .. created /\ py[t].handle \in 1 .. created
    BY <1>0, <2>1 DEF HandlesInv
  <2>6. ThreadInv(t)'
    BY <2>1, <2>4, <2>5 DEF ThreadInv, Running
  <2>7. HandlesInv'
    BY <1>0, <2>1 DEF HandlesInv
  <2> QED BY <2>1, <2>4, <2>5, <2>6, <2>7, OneThread
<1>24. CASE UNCHANGED pyVars
  BY <1>24 DEF pyVars, PyInv, HandlesInv, ThreadInv
<1> QED BY <1>1, <1>2, <1>6, <1>7, <1>8, <1>9, <1>10, <1>11, <1>12, <1>14,
           <1>15, <1>16, <1>17, <1>18, <1>19, <1>20, <1>21, <1>22, <1>23,
           <1>24, <1>25, <1>26, <1>27 DEF PyNext, PyGoesOn

\* PyInv holds in every state of every execution.
THEOREM PyInvariant == Spec => []PyInv
<1> QED BY ClientsApart, InitPyInv, NextPyInv, PTL DEF Spec

\* A read of the file object follows the seek of the same call with no seek,
\* read or size of another thread in between: the lock of the volume is held
\* over both, although the gil is given up between them.
THEOREM ReadsFollowSeeks == Spec => []ReadsAfterItsSeek
<1>1. PyInv => ReadsAfterItsSeek
  <2> SUFFICES ASSUME PyInv, NEW t \in Threads, InCallback(t, "read")
               PROVE  position = t
    BY DEF ReadsAfterItsSeek
  <2>1. /\ py[t].at = "callback" /\ Head(py[t].script) = "read"
        /\ py[t].script \in Scripts /\ ThreadInv(t)
    BY DEF PyInv, PyRecord, InCallback
  <2>2. py[t].script = LastRead
    BY <2>1, ScriptFacts DEF Scripts, ThreadInv
  <2> QED BY <2>1, <2>2 DEF ThreadInv
<1> QED BY <1>1, PyInvariant, PTL

\* References to the file object are counted and its methods called by the
\* thread that holds the interpreter lock only.
THEOREM GilProtectsObjects == Spec => PythonNeedsGil
<1> DEFINE Holder == \E t \in Threads :
                        gil = t /\ py[t].at \in {"python", "callback", "raises"}
<1>1. ASSUME PyInv, [PyNext]_pyVars,
             ~ (references' = references /\ position' = position)
      PROVE  Holder
  <2>0. \A t \in Threads : ThreadInv(t)
    BY <1>1 DEF PyInv
  <2>1. PICK t \in Threads : PyTakesGil(t) \/ PyYields(t) \/ PyMethods(t) \/ PyGoesOn(t)
    BY <1>1 DEF PyNext, pyVars
  <2>2. py[t].at \in Running
    BY <1>1, <2>1
       DEF PyTakesGil, PyYields, PyMethods, PyGoesOn, pyObjects, InPython, Running,
           PyOpenFileObject, PyFree, Method, InCallback, LibraryCall,
           PyClose, PyReadBuffer, PyReadBufferAtOffset, PyUnlock,
           PyIsLocked, PyGetVolumeIdentifier, PySignalAbort, PySeekOffset,
           PyGetOffset, PyGetSize, PyGetEncryptionMethod, PySetKey,
           PySetPassword, LibraryChecks, LibraryGrabs, LibraryRefuses,
           LibraryReturns, LibraryFails, CallbackBegins, UsesFreedHandle, CallbackGetSize,
           CallbackSeek, CallbackRead, CallbackRaises, CallbackFree, PyReturns,
           PyReadsAll, PyRaises, PyOnError, PyFreesHandle, HandleFreeReads,
           HandleFreeClears, PyClosed
  <2>3. gil = t
    BY <2>0, <2>2 DEF ThreadInv
  <2> QED BY <2>2, <2>3 DEF Running
<1>2. PyInv /\ [PyNext]_pyVars =>
        [references' # references \/ position' # position => Holder]_pyVars
  BY <1>1
<1> QED BY <1>2, PyInvariant, ClientsApart, PTL DEF Spec, PythonNeedsGil

-----------------------------------------------------------------------------
(* The IO handles that exist                                               *)

\* IsFreeing, in terms of the functions that are left.
InFree(t) ==
    \/ py[t].at \in {"clear", "freeing"}
    \/ py[t].at = "callback" /\ py[t].script = Free

\* In terms of the functions that are left a thread frees as HandlesAreOwned
\* says.
LEMMA FreeingIs ==
    ASSUME PyInv, NEW t \in Threads
    PROVE  IsFreeing(t) <=> InFree(t)
<1>1. py[t].script \in Scripts /\ (py[t].at = "callback" => py[t].script # <<>>)
  BY DEF PyInv, PyRecord, ThreadInv
<1> QED BY <1>1, ScriptFacts DEF IsFreeing, InFree, InCallback, Scripts

\* No handle was freed twice, or used when it had been freed.
Unharmed ==
    /\ \A t \in Threads : py[t].at # "undefined"
    /\ \A t \in Threads : InFree(t) =>
           /\ py[t].handle \in handles
           /\ \A u \in Threads \ {t} : InFree(u) => py[u].handle # py[t].handle

\* So far each handle that exists is the volume object's or is being freed, and
\* the volume object's stays so until the thread that frees it clears the pointer.
OwnedInv ==
    /\ \A t \in Threads : InFree(t) => py[t].handle \in 1 .. created
    /\ Unharmed =>
           /\ \A h \in handles :
                 h = pointer \/ \E t \in Threads : InFree(t) /\ py[t].handle = h
           /\ \A t \in Threads : py[t].at = "clear" => py[t].handle = pointer

LEMMA InitOwnedInv == PyInit => OwnedInv
<1> SUFFICES ASSUME PyInit PROVE OwnedInv
  OBVIOUS
<1>1. \A t \in Threads : py[t].at = "idle"
  BY DEF PyInit, NoMethod
<1>2. handles = {}
  BY DEF PyInit
<1> QED BY <1>1, <1>2 DEF OwnedInv, InFree

\* A step of a thread that frees nothing, and changes no handle.
LEMMA OwnedStays ==
    ASSUME OwnedInv, NEW t \in Threads, py[t].at # "undefined",
           \A u \in Threads \ {t} : py'[u] = py[u],
           ~ InFree(t), ~ InFree(t)',
           UNCHANGED <<pointer, handles, created>>
    PROVE  OwnedInv'
<1>1. \A u \in Threads : InFree(u)' <=> InFree(u)
  BY DEF InFree
<1>2. \A u \in Threads : InFree(u) => py'[u] = py[u]
  OBVIOUS
<1>3. Unharmed' => Unharmed
  BY <1>1, <1>2 DEF Unharmed
<1> QED BY <1>1, <1>2, <1>3 DEF OwnedInv, InFree

\* A method that raises frees the handle of the volume object: a thread that was
\* to clear the pointer frees it again.
LEMMA OwnedPointerFreed ==
    ASSUME PyInv, OwnedInv, NEW t \in Threads, py[t].at \in {"python", "raises"},
           py'[t].at \in {"python", "gone"},
           \A u \in Threads \ {t} : py'[u] = py[u],
           FreeHandle, pointer # NoHandle, created' = created
    PROVE  OwnedInv'
<1>1. handles' = handles \ {pointer} /\ pointer' = NoHandle
  BY DEF FreeHandle, LetsGo
<1>2. ~ InFree(t) /\ ~ InFree(t)'
  BY DEF InFree
<1>3. \A u \in Threads : InFree(u)' <=> InFree(u)
  BY <1>2 DEF InFree
<1>4. \A u \in Threads : InFree(u) => py'[u] = py[u]
  BY <1>2
<1>5. Unharmed' => Unharmed
  BY <1>1, <1>3, <1>4 DEF Unharmed
<1>6. ASSUME Unharmed', NEW u \in Threads, py'[u].at = "clear" PROVE FALSE
  <2>1. InFree(u) /\ py'[u] = py[u] /\ py[u].at = "clear"
    BY <1>3, <1>4, <1>6 DEF InFree
  <2>2. py[u].handle = pointer
    BY <1>5, <1>6, <2>1 DEF OwnedInv
  <2>3. py'[u].handle \in handles'
    BY <1>3, <1>6, <2>1 DEF Unharmed
  <2> QED BY <1>1, <2>1, <2>2, <2>3
<1>7. ASSUME Unharmed', NEW h \in handles'
      PROVE  \E u \in Threads : InFree(u)' /\ py'[u].handle = h
  <2>1. h \in handles /\ h # pointer
    BY <1>1
  <2>2. PICK u \in Threads : InFree(u) /\ py[u].handle = h
    BY <1>5, <1>7, <2>1 DEF OwnedInv
  <2> QED BY <1>3, <1>4, <2>2
<1>8. \A u \in Threads : InFree(u)' => py'[u].handle \in 1 .. created'
  BY <1>3, <1>4 DEF OwnedInv
<1> QED BY <1>6, <1>7, <1>8 DEF OwnedInv

LEMMA NextOwnedInv == PyInv /\ OwnedInv /\ [PyNext]_pyVars => OwnedInv'
<1> SUFFICES ASSUME PyInv, OwnedInv, [PyNext]_pyVars PROVE OwnedInv'
  OBVIOUS
<1>0. /\ HandlesInv
      /\ \A t \in Threads : py[t] \in PyRecord /\ ThreadInv(t)
  BY DEF PyInv
\* Steps that change the place of their thread only.
<1>1. ASSUME NEW t \in Threads, NEW at \in PyPlaces \ {"clear", "freeing", "callback"},
             Place(t, at), py[t].at # "undefined", ~ InFree(t),
             UNCHANGED <<pointer, handles, created>>
      PROVE  OwnedInv'
  <2>1. (\A u \in Threads \ {t} : py'[u] = py[u]) /\ py'[t].at = at
    BY <1>1, Placed
  <2>2. ~ InFree(t)'
    BY <2>1 DEF InFree
  <2> QED BY <1>1, <2>1, <2>2, OwnedStays
<1>2. ASSUME NEW t \in Threads, PyTakesGil(t) \/ PyYields(t) PROVE OwnedInv'
  <2>1. PICK at \in {"python", "idle"} : Place(t, at) /\ UNCHANGED pyObjects
    BY <1>2 DEF PyTakesGil, PyYields
  <2>2. at \in PyPlaces \ {"clear", "freeing", "callback"}
    BY DEF PyPlaces
  <2>3. py[t].at # "undefined" /\ ~ InFree(t)
    BY <1>2 DEF PyTakesGil, PyYields, InPython, InFree
  <2> QED BY <1>1, <2>1, <2>2, <2>3 DEF pyObjects
\* A method is called.
<1>3. ASSUME NEW t \in Threads, NEW op \in Ops, NEW script \in Scripts,
             LibraryCall(t, op, script), InPython(t),
             UNCHANGED <<pointer, handles, created>>
      PROVE  OwnedInv'
  <2>1. (\A u \in Threads \ {t} : py'[u] = py[u]) /\ py'[t].at = "checks"
    BY <1>3, CalledMethod
  <2>2. py[t].at # "undefined" /\ ~ InFree(t) /\ ~ InFree(t)'
    BY <1>3, <2>1 DEF InPython, InFree
  <2> QED BY <1>3, <2>1, <2>2, OwnedStays
<1>4. ASSUME NEW t \in Threads, PyOpenFileObject(t) PROVE OwnedInv'
  <2>1. InPython(t)
    BY <1>4 DEF PyOpenFileObject
  <2>2. CASE pointer # NoHandle
    <3>1. FreeHandle /\ py' = py /\ created' = created
      BY <1>4, <2>2 DEF PyOpenFileObject
    <3> QED BY <2>1, <2>2, <3>1, OwnedPointerFreed DEF InPython
  <2>3. CASE pointer = NoHandle
    <3>1. /\ handles' = handles \cup {created + 1} /\ pointer' = created + 1
          /\ created' = created + 1 /\ LibraryCall(t, "open", OpenScript)
      BY <1>4, <2>3 DEF PyOpenFileObject
    <3>2. OpenScript \in Scripts /\ "open" \in Ops
      BY DEF Scripts, Ops
    <3>3. (\A u \in Threads \ {t} : py'[u] = py[u]) /\ py'[t].at = "checks"
      BY <3>1, <3>2, CalledMethod
    <3>4. ~ InFree(t) /\ ~ InFree(t)' /\ py[t].at # "undefined"
      BY <2>1, <3>3 DEF InPython, InFree
    <3>5. \A u \in Threads : InFree(u)' <=> InFree(u)
      BY <3>3, <3>4 DEF InFree
    <3>6. \A u \in Threads : InFree(u) =>
              /\ py'[u] = py[u]
              /\ py[u].handle \in 1 .. created /\ py[u].handle # created + 1
      BY <1>0, <3>3, <3>4 DEF OwnedInv, HandlesInv
    <3>7. Unharmed' => Unharmed
      BY <3>1, <3>3, <3>4, <3>5, <3>6 DEF Unharmed
    <3>8. NoHandle \notin 1 .. created /\ NoHandle \notin handles
      BY <1>0, NoHandleIsNone
    <3>9. ASSUME Unharmed, NEW u \in Threads, py[u].at = "clear" PROVE FALSE
      <4>1. InFree(u) /\ py[u].handle = pointer
        BY <3>9 DEF OwnedInv, InFree
      <4> QED BY <2>3, <3>6, <3>8, <4>1
    <3>10. ASSUME Unharmed, NEW h \in handles
           PROVE  \E u \in Threads : InFree(u)' /\ py'[u].handle = h
      <4>1. PICK u \in Threads : InFree(u) /\ py[u].handle = h
        BY <2>3, <3>8, <3>10 DEF OwnedInv
      <4> QED BY <3>5, <3>6, <4>1
    <3>11. \A u \in Threads : InFree(u)' => py'[u].handle \in 1 .. created'
      BY <1>0, <3>1, <3>5, <3>6 DEF HandlesInv
    <3>12. \A u \in Threads : py'[u].at = "clear" => py[u].at = "clear"
      BY <3>3
    <3> QED BY <3>1, <3>7, <3>9, <3>10, <3>11, <3>12 DEF OwnedInv
  <2> QED BY <2>2, <2>3
<1>5. ASSUME NEW t \in Threads, PyFree(t) PROVE OwnedInv'
  <2>1. InPython(t) /\ UNCHANGED <<pointer, handles, created>>
    BY <1>5 DEF PyFree
  <2>2. "dealloc" \in Ops /\ <<>> \in Scripts
    BY DEF Ops, Scripts
  <2>3. CASE pointer # NoHandle
    <3>1. LibraryCall(t, "dealloc", <<>>)
      BY <1>5, <2>3 DEF PyFree
    <3> QED BY <1>3, <2>1, <2>2, <3>1
  <2>4. CASE pointer = NoHandle
    <3>1. Place(t, "gone") /\ "gone" \in PyPlaces \ {"clear", "freeing", "callback"}
      BY <1>5, <2>4 DEF PyFree, PyPlaces
    <3>2. py[t].at # "undefined" /\ ~ InFree(t)
      BY <2>1 DEF InPython, InFree
    <3> QED BY <1>1, <2>1, <3>1, <3>2
  <2> QED BY <2>3, <2>4
<1>6. ASSUME NEW t \in Threads, PyMethods(t) PROVE OwnedInv'
  <2>1. CASE PyOpenFileObject(t) \/ PyFree(t)
    BY <2>1, <1>4, <1>5
  <2>2. CASE \E op \in Ops, script \in Scripts : Method(t, op, script)
    BY <2>2, <1>3 DEF Method, pyObjects
  <2>3. {"close", "read", "size_first", "unlock", "lock_free", "locked",
         "set_key"} \subseteq Ops /\ {<<>>, SeekRead} \subseteq Scripts
    BY DEF Ops, Scripts
  <2> QED BY <1>6, <2>1, <2>2, <2>3
          DEF PyMethods, PyClose, PyReadBuffer, PyReadBufferAtOffset, PyUnlock,
              PyIsLocked, PyGetVolumeIdentifier, PySignalAbort, PySeekOffset,
              PyGetOffset, PyGetSize, PyGetEncryptionMethod, PySetKey,
              PySetPassword, SeekRead
<1>7. ASSUME NEW t \in Threads, LibraryChecks(t) PROVE OwnedInv'
  <2>1. py[t].at = "checks" /\ UNCHANGED <<pointer, handles, created>>
    BY <1>7 DEF LibraryChecks, pyObjects
  <2>2. /\ \A u \in Threads \ {t} : py'[u] = py[u]
        /\ py'[t].at \in {"failed", "return", "grab"}
    BY <1>7, Checked
  <2>3. ~ InFree(t) /\ ~ InFree(t)'
    BY <2>1, <2>2 DEF InFree
  <2> QED BY <2>1, <2>2, <2>3, OwnedStays
<1>8. ASSUME NEW t \in Threads,
             \/ LibraryGrabs(t) \/ LibraryRefuses(t) \/ LibraryReturns(t)
             \/ LibraryFails(t) \/ CallbackRaises(t) \/ PyRaises(t)
             \/ PyFreesHandle(t)
      PROVE  OwnedInv'
  <2>1. PICK at \in {"locked", "failed", "return", "raises", "freed", "free"} :
            Place(t, at)
    BY <1>8 DEF LibraryGrabs, LibraryRefuses, LibraryReturns, LibraryFails,
           CallbackRaises, PyRaises, PyFreesHandle
  <2>2. UNCHANGED <<pointer, handles, created>>
    BY <1>8 DEF LibraryGrabs, LibraryRefuses, LibraryReturns, LibraryFails,
           CallbackRaises, PyRaises, PyFreesHandle, pyObjects
  <2>3. at \in PyPlaces \ {"clear", "freeing", "callback"}
    BY DEF PyPlaces
  <2>4. py[t].at # "undefined"
    BY <1>8 DEF LibraryGrabs, LibraryRefuses, LibraryReturns, LibraryFails,
           CallbackRaises, PyRaises, PyFreesHandle
  <2>5. ~ InFree(t)
    BY <1>8, ScriptFacts
       DEF LibraryGrabs, LibraryRefuses, LibraryReturns, LibraryFails,
           CallbackRaises, PyRaises, PyFreesHandle, InFree
  <2> QED BY <1>1, <2>1, <2>2, <2>3, <2>4, <2>5
<1>9. ASSUME NEW t \in Threads, CallbackBegins(t) PROVE OwnedInv'
  <2>1. /\ Place(t, "callback") /\ "callback" \in PyPlaces
        /\ UNCHANGED <<pointer, handles, created>>
        /\ py[t].at \in {"locked", "freeing"}
    BY <1>9 DEF CallbackBegins, pyObjects, PyPlaces
  <2>2. /\ \A u \in Threads \ {t} : py'[u] = py[u]
        /\ py'[t].at = "callback"
        /\ py'[t].script = py[t].script /\ py'[t].handle = py[t].handle
    BY <2>1, Placed
  <2>3. InFree(t)' <=> InFree(t)
    BY <1>0, <2>1, <2>2 DEF InFree, ThreadInv
  <2>4. /\ \A u \in Threads : InFree(u)' <=> InFree(u)
        /\ \A u \in Threads : py'[u].handle = py[u].handle
        /\ \A u \in Threads : py'[u].at = "clear" <=> py[u].at = "clear"
    BY <2>1, <2>2, <2>3 DEF InFree
  <2>5. Unharmed' => Unharmed
    BY <2>1, <2>2, <2>4 DEF Unharmed
  <2> QED BY <2>1, <2>4, <2>5 DEF OwnedInv
<1>10. ASSUME NEW t \in Threads, UsesFreedHandle(t) PROVE OwnedInv'
  <2>1. \A u \in Threads : py'[u].at = "undefined"
    BY <1>0, <1>10 DEF UsesFreedHandle, PyRecord
  <2> QED BY <2>1 DEF OwnedInv, Unharmed, InFree
<1>11. ASSUME NEW t \in Threads,
              CallbackGetSize(t) \/ CallbackSeek(t) \/ CallbackRead(t)
       PROVE  OwnedInv'
  <2>1. /\ py[t].at = "callback" /\ CallbackReleases(t, "locked")
        /\ UNCHANGED <<pointer, handles, created>>
        /\ Head(py[t].script) \in {"get_size", "seek", "read"}
    BY <1>11 DEF CallbackGetSize, CallbackSeek, CallbackRead, InCallback
  <2>2. py[t].script \in {OpenScript, SeekRead, LastRead}
    BY <1>0, <2>1, ScriptFacts DEF PyRecord, Scripts, ThreadInv
  <2>3. Tail(py[t].script) \in Scripts /\ "locked" \in PyPlaces /\ py[t].script # Free
    BY <2>2, ScriptFacts DEF Scripts, PyPlaces
  <2>4. (\A u \in Threads \ {t} : py'[u] = py[u]) /\ py'[t].at = "locked"
    BY <2>1, <2>3, Released
  <2>5. ~ InFree(t) /\ ~ InFree(t)'
    BY <2>1, <2>3, <2>4 DEF InFree
  <2> QED BY <2>1, <2>4, <2>5, OwnedStays
\* Another thread that is to free the same handle comes to one that was freed.
<1>12. ASSUME NEW t \in Threads, CallbackFree(t) PROVE OwnedInv'
  <2>1. /\ py[t].at = "callback" /\ py[t].script = Free
        /\ CallbackReleases(t, "freed")
        /\ handles' = handles \ {py[t].handle}
        /\ UNCHANGED <<pointer, created>>
    BY <1>0, <1>12, ScriptFacts
       DEF CallbackFree, InCallback, LetsGo, PyRecord, Scripts, ThreadInv
  <2>2. Tail(py[t].script) \in Scripts /\ "freed" \in PyPlaces
    BY <2>1, ScriptFacts DEF Scripts, PyPlaces
  <2>3. (\A u \in Threads \ {t} : py'[u] = py[u]) /\ py'[t].at = "freed"
    BY <2>1, <2>2, Released
  <2>4. InFree(t) /\ ~ InFree(t)' /\ py[t].handle \in handles
    BY <1>0, <2>1, <2>3 DEF InFree, ThreadInv
  <2>5. \A u \in Threads \ {t} : InFree(u)' <=> InFree(u)
    BY <2>3 DEF InFree
  <2>6. ASSUME Unharmed', NEW u \in Threads \ {t}, InFree(u)
        PROVE  py[u].handle \in handles /\ py[u].handle # py[t].handle
    <3>1. py'[u].handle \in handles'
      BY <2>5, <2>6 DEF Unharmed
    <3> QED BY <2>1, <2>3, <3>1
  <2>7. Unharmed' => Unharmed
    <3> SUFFICES ASSUME Unharmed' PROVE Unharmed
      OBVIOUS
    <3>1. \A u \in Threads : py[u].at # "undefined"
      BY <2>1, <2>3 DEF Unharmed
    <3>2. ASSUME NEW u \in Threads \ {t}, NEW v \in Threads \ {u, t},
                 InFree(u), InFree(v)
          PROVE  py[v].handle # py[u].handle
      <4>1. InFree(u)' /\ InFree(v)'
        BY <2>5, <3>2
      <4> QED BY <2>3, <4>1 DEF Unharmed
    <3> QED BY <2>4, <2>6, <3>1, <3>2 DEF Unharmed
  <2>8. ASSUME Unharmed', NEW h \in handles'
        PROVE  h = pointer' \/ \E u \in Threads : InFree(u)' /\ py'[u].handle = h
    <3>1. h \in handles /\ h # py[t].handle
      BY <2>1
    <3>2. CASE h = pointer
      BY <2>1, <3>2
    <3>3. CASE \E u \in Threads : InFree(u) /\ py[u].handle = h
      <4>1. PICK u \in Threads \ {t} : InFree(u) /\ py[u].handle = h
        BY <3>1, <3>3
      <4> QED BY <2>3, <2>5, <4>1
    <3> QED BY <2>7, <2>8, <3>1, <3>2, <3>3 DEF OwnedInv
  <2>9. ASSUME Unharmed', NEW u \in Threads, py'[u].at = "clear"
        PROVE  py'[u].handle = pointer'
    <3>1. u # t /\ py'[u] = py[u]
      BY <2>3, <2>9
    <3> QED BY <2>1, <2>7, <2>9, <3>1 DEF OwnedInv
  <2>10. \A u \in Threads : InFree(u)' => py'[u].handle \in 1 .. created'
    BY <2>1, <2>3, <2>4, <2>5 DEF OwnedInv
  <2> QED BY <2>8, <2>9, <2>10 DEF OwnedInv
<1>13. ASSUME NEW t \in Threads, PyReturns(t) \/ PyClosed(t) PROVE OwnedInv'
  <2>1. /\ InPythonAgain(t) /\ UNCHANGED <<pointer, handles, created>>
        /\ py[t].at \in {"return", "freed"}
    BY <1>13 DEF PyReturns, PyClosed, pyObjects
  <2>2. /\ \A u \in Threads \ {t} : py'[u] = py[u]
        /\ py'[t].at \in {"python", "gone"}
    BY <2>1, Returned
  <2>3. ~ InFree(t) /\ ~ InFree(t)'
    BY <2>1, <2>2 DEF InFree
  <2> QED BY <2>1, <2>2, <2>3, OwnedStays
<1>14. ASSUME NEW t \in Threads, PyReadsAll(t) PROVE OwnedInv'
  <2>1. /\ py' = [py EXCEPT ![t].op = "read", ![t].at = "checks",
                            ![t].script = <<"seek", "read">>]
        /\ py[t].at = "return" /\ UNCHANGED <<pointer, handles, created>>
    BY <1>14 DEF PyReadsAll, pyObjects
  <2>2. (\A u \in Threads \ {t} : py'[u] = py[u]) /\ py'[t].at = "checks"
    BY <1>0, <2>1 DEF PyInv, PyRecord
  <2>3. ~ InFree(t) /\ ~ InFree(t)'
    BY <2>1, <2>2 DEF InFree
  <2> QED BY <2>1, <2>2, <2>3, OwnedStays
<1>15. ASSUME NEW t \in Threads, PyOnError(t) PROVE OwnedInv'
  <2>1. py[t].at = "raises" /\ InPythonAgain(t) /\ created' = created
    BY <1>15 DEF PyOnError
  <2>2. /\ \A u \in Threads \ {t} : py'[u] = py[u]
        /\ py'[t].at \in {"python", "gone"}
    BY <2>1, Returned
  <2>3. CASE py[t].op = "open" /\ pointer # NoHandle
    BY <1>15, <2>1, <2>2, <2>3, OwnedPointerFreed DEF PyOnError
  <2>4. CASE ~ (py[t].op = "open" /\ pointer # NoHandle)
    <3>1. UNCHANGED <<pointer, handles>>
      BY <1>15, <2>4 DEF PyOnError
    <3>2. ~ InFree(t) /\ ~ InFree(t)'
      BY <2>1, <2>2 DEF InFree
    <3> QED BY <2>1, <2>2, <3>1, <3>2, OwnedStays
  <2> QED BY <2>3, <2>4
<1>16. ASSUME NEW t \in Threads, HandleFreeReads(t) PROVE OwnedInv'
  <2>1. PICK at \in {"freed", "clear"} :
            /\ py' = [py EXCEPT ![t].at = at, ![t].handle = pointer]
            /\ at = "clear" => pointer # NoHandle
    BY <1>16 DEF HandleFreeReads
  <2>2. py[t].at = "free" /\ UNCHANGED <<pointer, handles, created>>
    BY <1>16 DEF HandleFreeReads, pyObjects
  <2>3. /\ \A u \in Threads \ {t} : py'[u] = py[u]
        /\ py'[t].at = at /\ py'[t].handle = pointer
    BY <1>0, <2>1 DEF PyInv, PyRecord
  <2>4. ~ InFree(t) /\ (InFree(t)' => pointer \in 1 .. created)
    BY <1>0, <2>1, <2>2, <2>3 DEF InFree, HandlesInv
  <2>5. \A u \in Threads \ {t} : InFree(u)' <=> InFree(u)
    BY <2>3 DEF InFree
  <2>6. Unharmed' => Unharmed
    <3> SUFFICES ASSUME Unharmed' PROVE Unharmed
      OBVIOUS
    <3>1. \A u \in Threads : py[u].at # "undefined"
      BY <2>2, <2>3 DEF Unharmed
    <3>2. ASSUME NEW u \in Threads, InFree(u)
          PROVE  u # t /\ InFree(u)' /\ py'[u] = py[u] /\ py[u].handle \in handles
      BY <2>2, <2>3, <2>4, <2>5, <3>2 DEF Unharmed
    <3>3. ASSUME NEW u \in Threads, NEW v \in Threads \ {u}, InFree(u), InFree(v)
          PROVE  py[v].handle # py[u].handle
      BY <3>2, <3>3 DEF Unharmed
    <3> QED BY <3>1, <3>2, <3>3 DEF Unharmed
  <2>7. \A u \in Threads : InFree(u) => InFree(u)' /\ py'[u].handle = py[u].handle
    BY <2>3, <2>4, <2>5
  <2>8. \A u \in Threads : InFree(u)' => py'[u].handle \in 1 .. created'
    BY <2>2, <2>3, <2>4, <2>5 DEF OwnedInv
  <2>9. ASSUME Unharmed', NEW u \in Threads, py'[u].at = "clear"
        PROVE  py'[u].handle = pointer'
    BY <2>2, <2>3, <2>6, <2>9 DEF OwnedInv
  <2>10. ASSUME Unharmed', NEW h \in handles'
         PROVE  h = pointer' \/ \E u \in Threads : InFree(u)' /\ py'[u].handle = h
    BY <2>2, <2>6, <2>7, <2>10 DEF OwnedInv
  <2> QED BY <2>8, <2>9, <2>10 DEF OwnedInv
\* The only thread that is to clear the pointer does.
<1>17. ASSUME NEW t \in Threads, HandleFreeClears(t) PROVE OwnedInv'
  <2>1. /\ py' = [py EXCEPT ![t].at = "freeing", ![t].script = Free]
        /\ py[t].at = "clear"
        /\ pointer' = NoHandle /\ UNCHANGED <<handles, created>>
    BY <1>17 DEF HandleFreeClears, Free
  <2>2. /\ \A u \in Threads \ {t} : py'[u] = py[u]
        /\ py'[t].at = "freeing" /\ py'[t].handle = py[t].handle
    BY <1>0, <2>1 DEF PyInv, PyRecord
  <2>3. /\ \A u \in Threads : InFree(u)' <=> InFree(u)
        /\ \A u \in Threads : py'[u].handle = py[u].handle
        /\ InFree(t)
    BY <2>1, <2>2 DEF InFree
  <2>4. Unharmed' => Unharmed
    <3>1. handles' = handles
      BY <2>1
    <3>2. \A u \in Threads : py'[u].at # "undefined" => py[u].at # "undefined"
      BY <2>1, <2>2
    <3> QED BY <2>3, <3>1, <3>2 DEF Unharmed
  <2>5. ASSUME Unharmed', NEW u \in Threads, py'[u].at = "clear" PROVE FALSE
    <3>1. u # t /\ py[u].at = "clear" /\ InFree(u)
      BY <2>2, <2>5 DEF InFree
    <3>2. py[u].handle = pointer /\ py[t].handle = pointer
      BY <2>1, <2>4, <2>5, <3>1 DEF OwnedInv
    <3> QED BY <2>3, <2>4, <2>5, <3>1, <3>2 DEF Unharmed
  <2>6. ASSUME Unharmed', NEW h \in handles'
        PROVE  \E u \in Threads : InFree(u)' /\ py'[u].handle = h
    <3>1. CASE h = pointer
      <4>1. py[t].handle = pointer
        BY <2>1, <2>4, <2>6 DEF OwnedInv
      <4> QED BY <2>3, <3>1, <4>1
    <3>2. CASE \E u \in Threads : InFree(u) /\ py[u].handle = h
      BY <2>3, <3>2
    <3> QED BY <2>1, <2>4, <2>6, <3>1, <3>2 DEF OwnedInv
  <2>7. \A u \in Threads : InFree(u)' => py'[u].handle \in 1 .. created'
    BY <2>1, <2>3 DEF OwnedInv
  <2> QED BY <2>5, <2>6, <2>7 DEF OwnedInv
<1>18. CASE UNCHANGED pyVars
  BY <1>18 DEF pyVars, OwnedInv, Unharmed, InFree
<1> QED BY <1>2, <1>6, <1>7, <1>8, <1>9, <1>10, <1>11, <1>12, <1>13, <1>14,
           <1>15, <1>16, <1>17, <1>18 DEF PyNext, PyGoesOn

\* The file object is referenced once by each IO handle that exists, and that is
\* the volume object's or one that is being freed, for any number of threads
\* that open, close and read the volume: no error path of pyluksde_volume.c
\* leaves a handle, until two of them free one handle or use a freed one.
THEOREM HandlesOwned == Spec => []HandlesAreOwned
<1>1. PyInv /\ OwnedInv => HandlesAreOwned
  <2> SUFFICES ASSUME PyInv, OwnedInv, HandlesAreFreedOnce,
                      \A t \in Threads : py[t].at # "undefined"
               PROVE  handles = ({pointer} \cup BeingFreed) \ {NoHandle}
    BY DEF HandlesAreOwned, PyInv, HandlesInv
  <2>1. NoHandle \notin handles /\ pointer \in handles \cup {NoHandle}
    BY NoHandleIsNone DEF PyInv, HandlesInv
  <2>2. BeingFreed \subseteq handles
    BY DEF BeingFreed, HandlesAreFreedOnce
  <2>3. Unharmed
    BY FreeingIs DEF Unharmed, HandlesAreFreedOnce
  <2>4. \A h \in handles : h = pointer \/ h \in BeingFreed
    BY <2>3, FreeingIs DEF OwnedInv, BeingFreed
  <2> QED BY <2>1, <2>2, <2>4
<1> QED BY <1>1, InitOwnedInv, NextOwnedInv, PyInvariant, ClientsApart, PTL DEF Spec

-----------------------------------------------------------------------------
(* One owner of the IO handle                                              *)

\* The methods that make or free the IO handle of the volume object are called
\* by one thread.
OneOwner == \A t, u \in Owners : t = u

Busy(t) == py[t].at \notin {"idle", "python", "gone", "undefined"}

\* Where a method that closes the volume is once libluksde has closed it.
AfterClose == {"return", "free", "clear", "freeing", "callback", "freed"}

\* A thread that opens or closes is the owner, or the last one to use the
\* volume object; the volume is closed before its handle is freed; and the
\* handle that is freed is the only one.
OwnerThread(t) ==
    /\ Busy(t) /\ py[t].op \in {"open", "close"} => t \in Owners
    /\ Busy(t) /\ py[t].op = "dealloc" =>
           /\ deallocated
           /\ \A u \in Threads \ {t} : py[u].at \in {"idle", "gone"}
    /\ py[t].at \in {"checks", "grab", "locked", "callback"}
       /\ py[t].script \notin {<<>>, Free} => py[t].op \in ReadOps \cup {"open"}
    /\ py[t].at \in AfterClose /\ py[t].op \in FreeOps => lib = NoHandle
    /\ py[t].at = "clear" => py[t].handle = pointer
    /\ InFree(t) /\ py[t].at # "clear" => pointer = NoHandle
    /\ InFree(t) => py[t].handle \in Nat /\ handles = {py[t].handle}

\* While nothing is freed the volume object has all handles that exist.
NoneFreed == (\A t \in Threads : ~ InFree(t)) => handles = {pointer} \ {NoHandle}

OwnerInv ==
    /\ \A t \in Threads : OwnerThread(t)
    /\ NoneFreed

LEMMA InitOwnerInv == PyInit => OwnerInv
<1> SUFFICES ASSUME PyInit PROVE OwnerInv
  OBVIOUS
<1>1. \A t \in Threads : py[t].at = "idle"
  BY DEF PyInit, NoMethod
<1>2. handles = {} /\ pointer = NoHandle
  BY DEF PyInit
<1> QED BY <1>1, <1>2 DEF OwnerInv, OwnerThread, NoneFreed, InFree, Busy, AfterClose

\* A thread that frees or closes is the owner.
LEMMA FreerOps ==
    ASSUME PyInv, NEW t \in Threads, InFree(t)
    PROVE  Busy(t) /\ py[t].op \in FreeOps /\ py[t].at \in AfterClose
BY DEF PyInv, ThreadInv, InFree, Busy, AfterClose

\* A thread may take a step when it is not gone, nor the volume object when it
\* begins; and what belongs to the owner is changed by the owner only.
Stepping(t) ==
    /\ py[t].at \notin {"gone", "undefined"}
    /\ py[t].at = "idle" => ~ deallocated

Owning(t) ==
    t \in Owners \/ (Busy(t) /\ py[t].op \in {"open", "close", "dealloc"})

\* Beside the owner no other thread closes or frees, and the last thread that
\* uses the volume object is alone.
LEMMA OwnerIsAlone ==
    ASSUME PyInv, OneOwner, OwnerInv, NEW t \in Threads, NEW u \in Threads \ {t},
           Stepping(t)
    PROVE  /\ ~ (Busy(u) /\ py[u].op = "dealloc")
           /\ Owning(t) => ~ (Busy(u) /\ py[u].op \in {"open", "close"}) /\ ~ InFree(u)
<1>1. OwnerThread(t) /\ OwnerThread(u)
  BY DEF OwnerInv
<1>2. ~ (Busy(u) /\ py[u].op = "dealloc")
  BY <1>1 DEF OwnerThread, Stepping
<1>3. ASSUME Owning(t), Busy(u), py[u].op \in {"open", "close"} PROVE FALSE
  <2>1. u \in Owners
    BY <1>1, <1>3 DEF OwnerThread
  <2>2. t \notin Owners
    BY <2>1 DEF OneOwner
  <2>3. Busy(t) /\ py[t].op = "dealloc"
    BY <1>1, <1>3, <2>2 DEF Owning, OwnerThread
  <2> QED BY <1>1, <1>3, <2>3 DEF OwnerThread, Busy
<1> QED BY <1>2, <1>3, FreerOps DEF FreeOps

\* What a step of one thread leaves of the invariant: the rest is what becomes
\* of its thread and of the handles.
LEMMA OwnersStep ==
    ASSUME PyInv, OneOwner, OwnerInv, NEW t \in Threads, Stepping(t),
           \A u \in Threads \ {t} : py'[u] = py[u],
           \/ UNCHANGED <<pointer, handles>> /\ lib' \in {lib, NoHandle}
           \/ Owning(t),
           OwnerThread(t)', NoneFreed'
    PROVE  OwnerInv'
<1> SUFFICES ASSUME NEW u \in Threads \ {t} PROVE OwnerThread(u)'
  BY DEF OwnerInv
<1>1. OwnerThread(u) /\ py'[u] = py[u]
  BY DEF OwnerInv
<1>2. ~ (Busy(u) /\ py[u].op = "dealloc")
  BY OwnerIsAlone
<1>3. CASE UNCHANGED <<pointer, handles>> /\ lib' \in {lib, NoHandle}
  BY <1>1, <1>2, <1>3 DEF OwnerThread, Busy, InFree
<1>4. CASE Owning(t)
  <2>1. ~ (Busy(u) /\ py[u].op \in {"open", "close"}) /\ ~ InFree(u)
    BY <1>4, OwnerIsAlone
  <2>2. ~ (Busy(u) /\ py[u].op \in FreeOps)
    BY <1>2, <2>1 DEF FreeOps
  <2> QED BY <1>1, <1>2, <2>1, <2>2
          DEF OwnerThread, Busy, InFree, AfterClose
<1> QED BY <1>3, <1>4

LEMMA NoneFreedStays ==
    ASSUME OwnerInv, NEW t \in Threads, ~ InFree(t),
           \A u \in Threads \ {t} : py'[u] = py[u],
           UNCHANGED <<pointer, handles>>
    PROVE  NoneFreed'
BY DEF OwnerInv, NoneFreed, InFree

\* Where the owner frees nothing nobody does.
LEMMA NoneIsFreed ==
    ASSUME PyInv, OneOwner, OwnerInv, NEW t \in Threads, Stepping(t), Owning(t),
           ~ InFree(t)
    PROVE  handles = {pointer} \ {NoHandle}
BY OwnerIsAlone DEF OwnerInv, NoneFreed

\* A step that moves its thread on and changes no handle.
LEMMA OwnerMovesOn ==
    ASSUME PyInv, OneOwner, OwnerInv, NEW t \in Threads, Stepping(t),
           \A u \in Threads \ {t} : py'[u] = py[u],
           UNCHANGED <<pointer, handles>>,
           lib' \in {lib, NoHandle} \/ Owning(t),
           ~ InFree(t), OwnerThread(t)'
    PROVE  OwnerInv'
BY OwnersStep, NoneFreedStays

\* A thread outside of the library, or that failed, is at none of the places
\* that OwnerThread is about.
LEMMA OutsideOwner ==
    ASSUME NEW t \in Threads, py'[t].at \in {"idle", "python", "gone", "undefined"}
    PROVE  OwnerThread(t)' /\ ~ InFree(t)'
BY DEF OwnerThread, Busy, InFree, AfterClose

LEMMA FailedOwner ==
    ASSUME OwnerInv, NEW t \in Threads, Busy(t),
           py'[t].at \in {"failed", "raises"}, py'[t].op = py[t].op,
           \A u \in Threads \ {t} : py'[u] = py[u],
           deallocated' = deallocated
    PROVE  OwnerThread(t)' /\ ~ InFree(t)'
BY DEF OwnerInv, OwnerThread, Busy, InFree, AfterClose

LEMMA NextOwnerInv == PyInv /\ OneOwner /\ OwnerInv /\ [PyNext]_pyVars => OwnerInv'
<1> SUFFICES ASSUME PyInv, OneOwner, OwnerInv, [PyNext]_pyVars PROVE OwnerInv'
  OBVIOUS
<1>0. /\ HandlesInv
      /\ \A t \in Threads : py[t] \in PyRecord /\ ThreadInv(t) /\ OwnerThread(t)
  BY DEF PyInv, OwnerInv
<1>1. ASSUME NEW t \in Threads, PyTakesGil(t) \/ PyYields(t) PROVE OwnerInv'
  <2>1. PICK at \in {"python", "idle"} : Place(t, at) /\ UNCHANGED pyObjects
    BY <1>1 DEF PyTakesGil, PyYields
  <2>2. at \in PyPlaces
    BY DEF PyPlaces
  <2>3. /\ \A u \in Threads \ {t} : py'[u] = py[u]
        /\ py'[t].at = at
    BY <2>1, <2>2, Placed
  <2>4. Stepping(t) /\ ~ InFree(t)
    BY <1>1 DEF PyTakesGil, PyYields, InPython, Stepping, InFree
  <2>5. UNCHANGED <<pointer, handles, lib>>
    BY <2>1 DEF pyObjects
  <2> QED BY <2>3, <2>4, <2>5, OutsideOwner, OwnerMovesOn
<1>2. ASSUME NEW t \in Threads, InPython(t)
      PROVE  Stepping(t) /\ ~ InFree(t)
  BY <1>2 DEF InPython, Stepping, InFree
<1>3. ASSUME NEW t \in Threads, NEW op \in Ops \ {"open", "dealloc"},
             NEW script \in {<<>>, SeekRead}, Method(t, op, script),
             op = "close" => t \in Owners,
             script # <<>> => op \in ReadOps
      PROVE  OwnerInv'
  <2>1. LibraryCall(t, op, script) /\ UNCHANGED pyObjects /\ InPython(t)
    BY <1>3 DEF Method
  <2>2. script \in Scripts
    BY DEF Scripts
  <2>3. /\ \A u \in Threads \ {t} : py'[u] = py[u]
        /\ py'[t].at = "checks" /\ py'[t].script = script /\ py'[t].op = op
    BY <2>1, <2>2, CalledMethod
  <2>4. OwnerThread(t)'
    BY <1>3, <2>3 DEF OwnerThread, Busy, InFree, AfterClose
  <2>5. UNCHANGED <<pointer, handles, lib>>
    BY <2>1 DEF pyObjects
  <2> QED BY <1>2, <2>1, <2>3, <2>4, <2>5, OwnerMovesOn
<1>4. ASSUME NEW t \in Threads, PyOpenFileObject(t) PROVE OwnerInv'
  <2>1. t \in Owners /\ InPython(t)
    BY <1>4 DEF PyOpenFileObject
  <2>2. Stepping(t) /\ ~ InFree(t) /\ Owning(t)
    BY <1>2, <2>1 DEF Owning
  <2>3. handles = {pointer} \ {NoHandle}
    BY <2>2, NoneIsFreed
  <2>4. CASE pointer = NoHandle
    <3>1. /\ handles' = handles \cup {created + 1} /\ pointer' = created + 1
          /\ LibraryCall(t, "open", OpenScript)
      BY <1>4, <2>4 DEF PyOpenFileObject
    <3>2. OpenScript \in Scripts /\ "open" \in Ops
      BY DEF Scripts, Ops
    <3>3. /\ \A u \in Threads \ {t} : py'[u] = py[u]
          /\ py'[t].at = "checks" /\ py'[t].script = OpenScript /\ py'[t].op = "open"
      BY <3>1, <3>2, CalledMethod
    <3>4. OwnerThread(t)'
      BY <2>1, <3>3 DEF OwnerThread, Busy, InFree, AfterClose
    <3>5. created + 1 # NoHandle
      BY <1>0, InterpreterAssumption DEF HandlesInv
    <3>6. NoneFreed'
      BY <2>3, <2>4, <3>1, <3>5 DEF NoneFreed
    <3> QED BY <2>2, <3>3, <3>4, <3>6, OwnersStep
  <2>5. CASE pointer # NoHandle
    <3>1. /\ handles' = handles \ {pointer} /\ pointer' = NoHandle /\ py' = py
      BY <1>4, <2>5 DEF PyOpenFileObject, FreeHandle, LetsGo
    <3>2. OwnerThread(t)'
      BY <2>1, <3>1, OutsideOwner DEF InPython
    <3>3. NoneFreed'
      BY <2>3, <3>1 DEF NoneFreed
    <3> QED BY <2>2, <3>1, <3>2, <3>3, OwnersStep
  <2> QED BY <2>4, <2>5
<1>5. ASSUME NEW t \in Threads, PyFree(t) PROVE OwnerInv'
  <2>1. /\ InPython(t) /\ deallocated' = TRUE
        /\ \A u \in Threads \ {t} : py[u].at = "idle"
        /\ UNCHANGED <<pointer, handles, lib>>
    BY <1>5 DEF PyFree
  <2>2. CASE pointer # NoHandle
    <3>1. LibraryCall(t, "dealloc", <<>>)
      BY <1>5, <2>2 DEF PyFree
    <3>2. <<>> \in Scripts /\ "dealloc" \in Ops
      BY DEF Scripts, Ops
    <3>3. /\ \A u \in Threads \ {t} : py'[u] = py[u]
          /\ py'[t].at = "checks" /\ py'[t].script = <<>> /\ py'[t].op = "dealloc"
      BY <3>1, <3>2, CalledMethod
    <3>4. OwnerThread(t)'
      BY <2>1, <3>3 DEF OwnerThread, Busy, InFree, AfterClose
    <3> QED BY <1>2, <2>1, <3>3, <3>4, OwnerMovesOn
  <2>3. CASE pointer = NoHandle
    <3>1. Place(t, "gone") /\ "gone" \in PyPlaces
      BY <1>5, <2>3 DEF PyFree, PyPlaces
    <3>2. (\A u \in Threads \ {t} : py'[u] = py[u]) /\ py'[t].at = "gone"
      BY <3>1, Placed
    <3> QED BY <1>2, <2>1, <3>2, OutsideOwner, OwnerMovesOn
  <2> QED BY <2>2, <2>3
<1>6. ASSUME NEW t \in Threads, PyMethods(t) PROVE OwnerInv'
  <2>1. CASE PyOpenFileObject(t) \/ PyFree(t)
    BY <2>1, <1>4, <1>5
  <2>2. {"close", "read", "size_first", "unlock", "lock_free", "locked",
         "set_key"} \subseteq Ops \ {"open", "dealloc"}
    BY DEF Ops
  <2>3. CASE PyClose(t)
    BY <2>2, <2>3, <1>3 DEF PyClose
  <2>4. CASE \E op \in ReadOps : Method(t, op, SeekRead)
    BY <2>2, <2>4, <1>3 DEF ReadOps
  <2>5. CASE \E op \in {"size_first", "lock_free", "locked", "set_key"} :
                 Method(t, op, <<>>)
    BY <2>2, <2>5, <1>3
  <2> QED BY <1>6, <2>1, <2>3, <2>4, <2>5
          DEF PyMethods, PyReadBuffer, PyReadBufferAtOffset, PyUnlock,
              PyIsLocked, PyGetVolumeIdentifier, PySignalAbort, PySeekOffset,
              PyGetOffset, PyGetSize, PyGetEncryptionMethod, PySetKey,
              PySetPassword, ReadOps, SeekRead
<1>7. ASSUME NEW t \in Threads, LibraryChecks(t) PROVE OwnerInv'
  <2>2. /\ py[t].at = "checks" /\ UNCHANGED <<pointer, handles, lib, deallocated>>
    BY <1>7 DEF LibraryChecks, pyObjects
  <2>3. /\ \A u \in Threads \ {t} : py'[u] = py[u]
        /\ py'[t].at \in {"failed", "return", "grab"}
        /\ py'[t].at = "return" => py[t].op = "lock_free"
        /\ py'[t].op = py[t].op /\ py'[t].script = py[t].script
    BY <1>7, Checked
  <2>4. Stepping(t) /\ ~ InFree(t)
    BY <2>2 DEF Stepping, InFree
  <2>5. OwnerThread(t)'
    BY <1>0, <2>2, <2>3 DEF OwnerThread, Busy, InFree, AfterClose, FreeOps
  <2> QED BY <2>2, <2>3, <2>4, <2>5, OwnerMovesOn
<1>8. ASSUME NEW t \in Threads, LibraryGrabs(t) PROVE OwnerInv'
  <2>1. /\ py[t].at = "grab" /\ Place(t, "locked") /\ "locked" \in PyPlaces
        /\ UNCHANGED <<pointer, handles, lib, deallocated>>
    BY <1>8 DEF LibraryGrabs, pyObjects, PyPlaces
  <2>2. /\ \A u \in Threads \ {t} : py'[u] = py[u]
        /\ py'[t].at = "locked" /\ py'[t].op = py[t].op /\ py'[t].script = py[t].script
    BY <2>1, Placed
  <2>3. Stepping(t) /\ ~ InFree(t)
    BY <2>1 DEF Stepping, InFree
  <2>4. OwnerThread(t)'
    BY <1>0, <2>1, <2>2 DEF OwnerThread, Busy, InFree, AfterClose
  <2> QED BY <2>1, <2>2, <2>3, <2>4, OwnerMovesOn
<1>9. ASSUME NEW t \in Threads, LibraryReturns(t) PROVE OwnerInv'
  <2>1. /\ py[t].at = "locked" /\ Place(t, "return") /\ "return" \in PyPlaces
        /\ UNCHANGED <<pointer, handles, deallocated>>
    BY <1>9 DEF LibraryReturns, PyPlaces
  <2>2. /\ \A u \in Threads \ {t} : py'[u] = py[u]
        /\ py'[t].at = "return" /\ py'[t].op = py[t].op
    BY <2>1, Placed
  <2>3. Stepping(t) /\ ~ InFree(t) /\ Busy(t)
    BY <2>1 DEF Stepping, InFree, Busy
  <2>4. lib' \in {lib, NoHandle} \/ Owning(t)
    BY <1>9, <2>3 DEF LibraryReturns, Owning
  <2>5. py[t].op \in FreeOps => lib' = NoHandle
    BY <1>9 DEF LibraryReturns, FreeOps
  <2>6. OwnerThread(t)'
    BY <1>0, <2>1, <2>2, <2>5 DEF OwnerThread, Busy, InFree, AfterClose
  <2> QED BY <2>1, <2>2, <2>3, <2>4, <2>6, OwnerMovesOn
\* A call that fails, and the gil that it waits for to raise.
<1>10. ASSUME NEW t \in Threads, NEW at \in {"failed", "raises"}, Place(t, at),
              UNCHANGED pyObjects, Busy(t), ~ InFree(t)
       PROVE  OwnerInv'
  <2>1. at \in PyPlaces
    BY DEF PyPlaces
  <2>2. /\ \A u \in Threads \ {t} : py'[u] = py[u]
        /\ py'[t].at = at /\ py'[t].op = py[t].op
    BY <1>10, <2>1, Placed
  <2>3. UNCHANGED <<pointer, handles, lib, deallocated>>
    BY <1>10 DEF pyObjects
  <2>4. Stepping(t)
    BY <1>10 DEF Stepping, Busy
  <2>5. OwnerThread(t)'
    BY <1>10, <2>2, <2>3, FailedOwner
  <2> QED BY <1>10, <2>2, <2>3, <2>4, <2>5, OwnerMovesOn
<1>11. ASSUME NEW t \in Threads,
              LibraryRefuses(t) \/ LibraryFails(t) \/ CallbackRaises(t) \/ PyRaises(t)
       PROVE  OwnerInv'
  <2>1. PICK at \in {"failed", "raises"} : Place(t, at) /\ UNCHANGED pyObjects
    BY <1>11 DEF LibraryRefuses, LibraryFails, CallbackRaises, PyRaises
  <2>2. Busy(t)
    BY <1>11 DEF LibraryRefuses, LibraryFails, CallbackRaises, PyRaises, Busy
  <2>3. ~ InFree(t)
    BY <1>11, ScriptFacts
       DEF LibraryRefuses, LibraryFails, CallbackRaises, PyRaises, InFree
  <2> QED BY <2>1, <2>2, <2>3, <1>10
<1>12. ASSUME NEW t \in Threads, CallbackBegins(t) PROVE OwnerInv'
  <2>1. /\ Place(t, "callback") /\ "callback" \in PyPlaces
        /\ UNCHANGED <<pointer, handles, lib, deallocated>>
        /\ py[t].at \in {"locked", "freeing"} /\ py[t].script # <<>>
    BY <1>12 DEF CallbackBegins, pyObjects, PyPlaces
  <2>2. /\ \A u \in Threads \ {t} : py'[u] = py[u]
        /\ py'[t].at = "callback" /\ py'[t].op = py[t].op
        /\ py'[t].script = py[t].script /\ py'[t].handle = py[t].handle
    BY <2>1, Placed
  <2>3. Stepping(t) /\ Busy(t)
    BY <2>1 DEF Stepping, Busy
  <2>4. CASE py[t].at = "locked"
    <3>1. py[t].script # Free /\ ~ InFree(t)
      BY <1>0, <2>4 DEF ThreadInv, InFree
    <3>2. py[t].op \in ReadOps \cup {"open"}
      BY <1>0, <2>1, <2>4, <3>1 DEF OwnerThread
    <3>3. OwnerThread(t)'
      BY <1>0, <2>1, <2>2, <2>3, <2>4, <3>1, <3>2
         DEF OwnerThread, Busy, InFree, AfterClose, FreeOps, ReadOps
    <3> QED BY <2>1, <2>2, <2>3, <3>1, <3>3, OwnerMovesOn
  <2>5. CASE py[t].at = "freeing"
    <3>1. py[t].script = Free /\ InFree(t) /\ py[t].op \in FreeOps
      BY <1>0, <2>5 DEF ThreadInv, InFree
    <3>2. OwnerThread(t)'
      BY <1>0, <2>1, <2>2, <2>3, <2>5, <3>1
         DEF OwnerThread, Busy, InFree, AfterClose, FreeOps
    <3>3. NoneFreed'
      BY <2>2, <3>1 DEF NoneFreed, InFree
    <3> QED BY <2>1, <2>2, <2>3, <3>2, <3>3, OwnersStep
  <2> QED BY <2>1, <2>4, <2>5
\* Only a thread that reads can come to a handle that was freed, and not while
\* another one is being freed, before which the volume is closed.
<1>13. ASSUME NEW t \in Threads, UsesFreedHandle(t) PROVE OwnerInv'
  <2>1. /\ \A u \in Threads : py'[u].at = "undefined"
        /\ UNCHANGED <<pointer, handles>>
        /\ HandleOf(t) \notin handles \cup {NoHandle}
        /\ py[t].at \in {"locked", "freeing", "clear"}
        /\ py[t].at \in {"locked", "freeing"} => py[t].script # <<>>
    BY <1>0, <1>13 DEF UsesFreedHandle, PyRecord, pyObjects
  <2>2. Stepping(t) /\ Busy(t)
    BY <2>1 DEF Stepping, Busy
  <2>3. ~ InFree(t)
    <3> SUFFICES ASSUME InFree(t) PROVE FALSE
      OBVIOUS
    <3>1. py[t].handle \in handles /\ py[t].op \in FreeOps
      BY <1>0, FreerOps DEF OwnerThread
    <3> QED BY <2>1, <3>1 DEF HandleOf, ReadOps, FreeOps
  <2>4. ASSUME NEW u \in Threads, InFree(u) PROVE FALSE
    <3>1. lib = NoHandle /\ Busy(u) /\ py[u].op \in FreeOps /\ u # t
      BY <1>0, <2>3, <2>4, FreerOps DEF OwnerThread
    <3>2. py[t].at = "locked" /\ py[t].script \notin {<<>>, Free}
      <4>1. py[t].at = "locked" /\ py[t].script # <<>>
        BY <2>1, <2>3 DEF InFree
      <4>2. py[t].script # Free
        BY <1>0, <4>1 DEF ThreadInv
      <4> QED BY <4>1, <4>2
    <3>3. py[t].op \in ReadOps \cup {"open"}
      BY <1>0, <3>2 DEF OwnerThread
    <3>4. py[t].op # "open"
      BY <2>2, <2>4, <3>1, OwnerIsAlone DEF Owning
    <3>5. HandleOf(t) = NoHandle
      BY <3>1, <3>3, <3>4 DEF HandleOf
    <3> QED BY <2>1, <3>5
  <2>5. handles = {pointer} \ {NoHandle}
    BY <2>4 DEF OwnerInv, NoneFreed
  <2>6. \A u \in Threads : OwnerThread(u)'
    BY <2>1, OutsideOwner
  <2> QED BY <2>1, <2>5, <2>6 DEF OwnerInv, NoneFreed
\* The functions that read.
<1>14. ASSUME NEW t \in Threads,
              CallbackGetSize(t) \/ CallbackSeek(t) \/ CallbackRead(t)
       PROVE  OwnerInv'
  <2>1. /\ py[t].at = "callback" /\ CallbackReleases(t, "locked")
        /\ UNCHANGED <<pointer, handles, lib, deallocated>>
        /\ Head(py[t].script) \in {"get_size", "seek", "read"}
    BY <1>14 DEF CallbackGetSize, CallbackSeek, CallbackRead, InCallback
  <2>2. py[t].script \in {OpenScript, SeekRead, LastRead}
    BY <1>0, <2>1, ScriptFacts DEF PyRecord, Scripts, ThreadInv
  <2>3. /\ Tail(py[t].script) \in {<<>>, SeekRead, LastRead}
        /\ py[t].script \notin {<<>>, Free}
    BY <2>2, ScriptFacts
  <2>4. Tail(py[t].script) \in Scripts /\ "locked" \in PyPlaces
    BY <2>3 DEF Scripts, PyPlaces
  <2>5. /\ \A u \in Threads \ {t} : py'[u] = py[u]
        /\ py'[t].at = "locked" /\ py'[t].op = py[t].op
    BY <2>1, <2>4, Released
  <2>6. Stepping(t) /\ ~ InFree(t)
    BY <2>1, <2>3 DEF Stepping, InFree
  <2>7. py[t].op \in ReadOps \cup {"open"}
    BY <1>0, <2>1, <2>3 DEF OwnerThread
  <2>8. OwnerThread(t)'
    BY <1>0, <2>1, <2>5, <2>7
       DEF OwnerThread, Busy, InFree, AfterClose, FreeOps, ReadOps
  <2> QED BY <2>1, <2>5, <2>6, <2>8, OwnerMovesOn
<1>15. ASSUME NEW t \in Threads, CallbackFree(t) PROVE OwnerInv'
  <2>1. /\ py[t].at = "callback" /\ py[t].script = Free
        /\ CallbackReleases(t, "freed")
        /\ handles' = handles \ {py[t].handle}
        /\ UNCHANGED <<pointer, lib, deallocated>>
    BY <1>0, <1>15, ScriptFacts
       DEF CallbackFree, InCallback, LetsGo, PyRecord, Scripts, ThreadInv
  <2>2. Tail(py[t].script) \in Scripts /\ "freed" \in PyPlaces
    BY <2>1, ScriptFacts DEF Scripts, PyPlaces
  <2>3. /\ \A u \in Threads \ {t} : py'[u] = py[u]
        /\ py'[t].at = "freed" /\ py'[t].op = py[t].op
    BY <2>1, <2>2, Released
  <2>4. Stepping(t) /\ InFree(t) /\ Busy(t) /\ py[t].op \in FreeOps
    BY <1>0, <2>1 DEF Stepping, InFree, Busy, ThreadInv
  <2>5. pointer' = NoHandle /\ handles' = {}
    BY <1>0, <2>1, <2>4 DEF OwnerThread
  <2>6. OwnerThread(t)'
    BY <1>0, <2>1, <2>3, <2>4 DEF OwnerThread, Busy, InFree, AfterClose
  <2>7. NoneFreed' /\ Owning(t)
    BY <2>4, <2>5 DEF NoneFreed, Owning, FreeOps
  <2> QED BY <2>3, <2>4, <2>6, <2>7, OwnersStep
<1>16. ASSUME NEW t \in Threads, PyReturns(t) \/ PyClosed(t) PROVE OwnerInv'
  <2>1. /\ InPythonAgain(t) /\ UNCHANGED pyObjects
        /\ py[t].at \in {"return", "freed"}
    BY <1>16 DEF PyReturns, PyClosed
  <2>2. /\ \A u \in Threads \ {t} : py'[u] = py[u]
        /\ py'[t].at \in {"python", "gone"}
    BY <2>1, Returned
  <2>3. Stepping(t) /\ ~ InFree(t) /\ UNCHANGED <<pointer, handles, lib>>
    BY <2>1 DEF Stepping, InFree, pyObjects
  <2> QED BY <2>2, <2>3, OutsideOwner, OwnerMovesOn
<1>17. ASSUME NEW t \in Threads, PyReadsAll(t) PROVE OwnerInv'
  <2>1. /\ py' = [py EXCEPT ![t].op = "read", ![t].at = "checks",
                            ![t].script = <<"seek", "read">>]
        /\ py[t].at = "return" /\ UNCHANGED <<pointer, handles, lib>>
    BY <1>17 DEF PyReadsAll, pyObjects
  <2>2. /\ \A u \in Threads \ {t} : py'[u] = py[u]
        /\ py'[t].at = "checks" /\ py'[t].op = "read"
    BY <1>0, <2>1 DEF PyInv, PyRecord
  <2>3. Stepping(t) /\ ~ InFree(t)
    BY <2>1 DEF Stepping, InFree
  <2>4. OwnerThread(t)'
    BY <2>2 DEF OwnerThread, Busy, InFree, AfterClose, FreeOps, ReadOps
  <2> QED BY <2>1, <2>2, <2>3, <2>4, OwnerMovesOn
<1>18. ASSUME NEW t \in Threads, PyOnError(t) PROVE OwnerInv'
  <2>1. /\ py[t].at = "raises" /\ InPythonAgain(t)
        /\ UNCHANGED <<lib, deallocated>>
    BY <1>18 DEF PyOnError
  <2>2. /\ \A u \in Threads \ {t} : py'[u] = py[u]
        /\ py'[t].at \in {"python", "gone"}
    BY <2>1, Returned
  <2>3. Stepping(t) /\ ~ InFree(t) /\ Busy(t)
    BY <2>1 DEF Stepping, InFree, Busy
  <2>4. CASE py[t].op = "open" /\ pointer # NoHandle
    <3>1. Owning(t)
      BY <2>3, <2>4 DEF Owning
    <3>2. handles = {pointer}
      BY <2>3, <2>4, <3>1, NoneIsFreed
    <3>3. handles' = {} /\ pointer' = NoHandle
      BY <1>18, <2>4, <3>2 DEF PyOnError, FreeHandle, LetsGo
    <3>4. NoneFreed'
      BY <3>3 DEF NoneFreed
    <3> QED BY <2>2, <2>3, <3>1, <3>4, OutsideOwner, OwnersStep
  <2>5. CASE ~ (py[t].op = "open" /\ pointer # NoHandle)
    <3>1. UNCHANGED <<pointer, handles>>
      BY <1>18, <2>5 DEF PyOnError
    <3> QED BY <2>1, <2>2, <2>3, <3>1, OutsideOwner, OwnerMovesOn
  <2> QED BY <2>4, <2>5
<1>19. ASSUME NEW t \in Threads, PyFreesHandle(t) PROVE OwnerInv'
  <2>1. PICK at \in {"freed", "free"} : Place(t, at)
    BY <1>19 DEF PyFreesHandle
  <2>2. /\ py[t].at = "return" /\ py[t].op \in FreeOps /\ at \in PyPlaces
        /\ UNCHANGED <<pointer, handles, lib, deallocated>>
    BY <1>19 DEF PyFreesHandle, FreeOps, pyObjects, PyPlaces
  <2>3. /\ \A u \in Threads \ {t} : py'[u] = py[u]
        /\ py'[t].at = at /\ py'[t].op = py[t].op
    BY <2>1, <2>2, Placed
  <2>4. Stepping(t) /\ ~ InFree(t)
    BY <2>2 DEF Stepping, InFree
  <2>5. OwnerThread(t)'
    BY <1>0, <2>2, <2>3 DEF OwnerThread, Busy, InFree, AfterClose
  <2> QED BY <2>2, <2>3, <2>4, <2>5, OwnerMovesOn
<1>20. ASSUME NEW t \in Threads, HandleFreeReads(t) PROVE OwnerInv'
  <2>1. PICK at \in {"freed", "clear"} :
            /\ py' = [py EXCEPT ![t].at = at, ![t].handle = pointer]
            /\ at = "clear" => pointer # NoHandle
    BY <1>20 DEF HandleFreeReads
  <2>2. /\ py[t].at = "free" /\ UNCHANGED <<pointer, handles, lib, deallocated>>
        /\ py[t].op \in FreeOps
    BY <1>0, <1>20 DEF HandleFreeReads, pyObjects, ThreadInv
  <2>3. /\ \A u \in Threads \ {t} : py'[u] = py[u]
        /\ py'[t].at = at /\ py'[t].op = py[t].op /\ py'[t].handle = pointer
    BY <1>0, <2>1 DEF PyInv, PyRecord
  <2>4. Stepping(t) /\ ~ InFree(t) /\ Owning(t)
    BY <2>2 DEF Stepping, InFree, Owning, Busy, FreeOps
  <2>5. pointer # NoHandle => pointer \in Nat /\ handles = {pointer}
    <3>1. handles = {pointer} \ {NoHandle}
      BY <2>4, NoneIsFreed
    <3> QED BY <1>0, <3>1 DEF HandlesInv
  <2>6. OwnerThread(t)'
    BY <1>0, <2>1, <2>2, <2>3, <2>5 DEF OwnerThread, Busy, InFree, AfterClose
  <2> QED BY <2>2, <2>3, <2>4, <2>6, OwnerMovesOn
<1>21. ASSUME NEW t \in Threads, HandleFreeClears(t) PROVE OwnerInv'
  <2>1. /\ py' = [py EXCEPT ![t].at = "freeing", ![t].script = Free]
        /\ py[t].at = "clear" /\ py[t].op \in FreeOps
        /\ pointer' = NoHandle /\ UNCHANGED <<handles, lib, deallocated>>
    BY <1>0, <1>21 DEF HandleFreeClears, Free, ThreadInv
  <2>2. /\ \A u \in Threads \ {t} : py'[u] = py[u]
        /\ py'[t].at = "freeing" /\ py'[t].op = py[t].op
        /\ py'[t].handle = py[t].handle
    BY <1>0, <2>1 DEF PyInv, PyRecord
  <2>3. Stepping(t) /\ InFree(t) /\ Owning(t)
    BY <2>1 DEF Stepping, InFree, Owning, Busy, FreeOps
  <2>4. OwnerThread(t)'
    BY <1>0, <2>1, <2>2, <2>3 DEF OwnerThread, Busy, InFree, AfterClose
  <2>5. NoneFreed'
    BY <2>2 DEF NoneFreed, InFree
  <2> QED BY <2>2, <2>3, <2>4, <2>5, OwnersStep
<1>22. CASE UNCHANGED pyVars
  BY <1>22 DEF pyVars, OwnerInv, OwnerThread, NoneFreed, InFree, Busy
<1> QED BY <1>1, <1>6, <1>7, <1>8, <1>9, <1>11, <1>12, <1>13, <1>14, <1>15,
           <1>16, <1>17, <1>18, <1>19, <1>20, <1>21, <1>22 DEF PyNext, PyGoesOn

\* With one owner OwnerInv holds in every state of every execution.
LEMMA OwnerInvariant == Spec => [](PyInv /\ (OneOwner => OwnerInv))
<1>1. PyInv /\ (OneOwner => OwnerInv) /\ [PyNext]_pyVars => (OneOwner => OwnerInv)'
  BY NextOwnerInv DEF OneOwner
<1> QED BY <1>1, InitOwnerInv, PyInvariant, ClientsApart, PTL DEF Spec

\* With one thread that opens and closes, beside any number of others, no IO
\* handle is freed that was freed before or is being freed, by an error path
\* either.  With two there is one: both look at the pointer, which neither has
\* cleared, and free what it leads to.
THEOREM HandlesFreedOnce == Spec => [](OneOwner => HandlesAreFreedOnce)
<1>1. PyInv /\ (OneOwner => OwnerInv) => (OneOwner => HandlesAreFreedOnce)
  <2> SUFFICES ASSUME PyInv, OneOwner, OwnerInv, NEW t \in Threads, IsFreeing(t)
               PROVE  /\ py[t].handle \in handles
                      /\ \A u \in Threads \ {t} : ~ IsFreeing(u)
    BY DEF HandlesAreFreedOnce
  <2>1. InFree(t)
    BY FreeingIs
  <2>2. py[t].handle \in handles
    BY <2>1 DEF OwnerInv, OwnerThread
  <2>3. Stepping(t) /\ Owning(t)
    BY <2>1, FreerOps DEF Stepping, Owning, Busy, FreeOps
  <2>4. \A u \in Threads \ {t} : ~ InFree(u)
    BY <2>3, OwnerIsAlone
  <2> QED BY <2>2, <2>4, FreeingIs
<1> QED BY <1>1, OwnerInvariant, PTL

HIDE InterpreterAssumption

-----------------------------------------------------------------------------
(* The tools                                                               *)

\* The callbacks touch neither main nor the volume nor what it was opened with.
LEMMA CallbacksKeep ==
    ASSUME CallbackStep \/ Callback
    PROVE  callUnchanged
BY DEF CallbackStep, Callback, FuseStep, DokanFillDots, DokanFillSubEntries,
       DokanFindFilesEnds, DokanFileInformationEnds, FillDot, FillParent,
       NextSubEntry, FillSubEntry, DirectoryEnds, AttributesEnd, CallFails,
       FuseRead, FuseRelease, FuseReaddir, FuseReleasedir, DokanCloseFile,
       DokanReadFile, FuseOpendir, DokanOpenDirectory, FuseOpen,
       DokanCreateFile, DokanZwCreateFile, FuseGetattr, DokanFindFiles,
       DokanGetFileInformation, DokanGetVolumeInformation, GetEntry

LEMMA PasswordStays ==
    ASSUME PasswordIsCleared, [ToolsNext]_toolsVars
    PROVE  PasswordIsCleared'
<1> USE DEF PasswordIsCleared, Goto, MayFail
<1>1. CASE \E next \in {"set_offset", "set_password", "open_range",
                        "set_path_prefix"} :
               SetKey(next) \/ SetOffset(next) \/ SetPassword(next)
  BY <1>1 DEF SetKey, SetOffset, SetPassword
<1>2. CASE \/ OpenRange \/ OpenVolume \/ OpenSetKey \/ OpenSetPassword
           \/ OpenLibrary \/ OpenAsks \/ FindKey
  BY <1>2 DEF OpenRange, OpenVolume, OpenSetKey, OpenSetPassword, OpenLibrary,
              OpenAsks, FindKey
<1>3. CASE Prompt \/ OpenPrompted \/ OpenUnlock \/ OpenStepFails \/ OpenFails
  BY <1>3 DEF Prompt, OpenPrompted, OpenUnlock, OpenStepFails, OpenFails,
              OpenPlaces
<1>4. CASE \/ Initialize \/ SetPathPrefix \/ FuseNew \/ FuseReturns \/ FuseFails
           \/ MountReturns \/ MountSucceeds \/ OpenAppend \/ Unmount
  BY <1>4 DEF Initialize, SetPathPrefix, FuseNew, FuseReturns, FuseFails,
              MountReturns, MountSucceeds, OpenAppend, Unmount
<1>5. CASE \/ InfoInitialize \/ InfoOpened \/ InfoVolumeFprint \/ InfoClose
           \/ InfoFree
  BY <1>5 DEF InfoInitialize, InfoOpened, InfoVolumeFprint, InfoClose, InfoFree
<1>6. CASE CallbackStep \/ Callback
  BY <1>6, CallbacksKeep DEF callUnchanged
<1>7. CASE UNCHANGED toolsVars
  BY <1>7 DEF toolsVars, toolVars
<1> QED BY <1>1, <1>2, <1>3, <1>4, <1>5, <1>6, <1>7
        DEF ToolsNext, ProgramStep, MountStep, MountFrees, InfoStep, OpenStep, InfoSetKey,
            InfoSetPassword, InfoSetVolumeOffset, InfoOpenRange, InfoOpenVolume,
            InfoOpenPrompt, InfoOpenFails

\* A password that was typed is not in its buffer any more when a tool is done
\* with opening the volume, on every way through the open functions of
\* mount_handle.c and info_handle.c.
THEOREM TypedPasswordCleared == Spec => []PasswordIsCleared
<1>1. ToolsInit => PasswordIsCleared
  BY DEF ToolsInit, ToolInit, PasswordIsCleared
<1> QED BY <1>1, PasswordStays, ClientsApart, PTL DEF Spec

\* Something that was given or typed fits the volume.
Fits == "right" \in {options.key, options.password, options.typed}

\* What the handle and the library keep is what was given or typed, and a key
\* that is found comes from it.
SuppliedInv ==
    /\ settings = [key |-> settings.key, offset |-> settings.offset,
                   password |-> settings.password]
    /\ settings.key \in {options.key, "none"}
    /\ settings.password \in {options.password, "none"}
    /\ prompt \in {options.typed, "none"}
    /\ password \in {options.password, options.typed, "none"}
    /\ volume \in {"source", "none"}
    /\ key = "right" => Fits
    /\ unlocked => Fits

\* A mount never opens again what it has mounted.
MountedInv ==
    tool = "mount" /\ volumes_array > 0 =>
        /\ unlocked
        /\ pc \in {"fuse_mount", "loop", "unmounted", "unmounted_dokan",
                   "destroyed", "on_error", "destroyed_on_error", "returned"}

\* The steps of opening that supply a key or a password, or use one.
LEMMA OpenStepsSupply ==
    ASSUME SuppliedInv,
           \/ OpenSetKey \/ OpenSetPassword \/ OpenLibrary \/ OpenPrompted
           \/ OpenUnlock \/ FindKey \/ OpenFails \/ OpenStepFails \/ Prompt
    PROVE  SuppliedInv'
<1> USE DEF SuppliedInv, Fits, OpenUnchanged, accessVars
<1>1. CASE OpenSetKey
  BY <1>1 DEF OpenSetKey, Access!SupplyKey
<1>2. CASE OpenSetPassword
  BY <1>2 DEF OpenSetPassword, Access!SupplyPassword
<1>3. CASE OpenLibrary
  BY <1>3 DEF OpenLibrary, Access!Open
<1>4. CASE OpenPrompted
  BY <1>4 DEF OpenPrompted, Access!SupplyPassword
<1>5. CASE OpenUnlock
  BY <1>5 DEF OpenUnlock, Access!Unlock
<1>6. CASE FindKey
  <2>1. /\ ~unlocked /\ unlocked' = unlocked /\ password' = password
        /\ UNCHANGED <<options, settings, prompt, volume>>
    BY <1>6 DEF FindKey, Access!FindKey
  <2>2. key' = "none" \/ password = "right"
    BY <1>6 DEF FindKey, Access!FindKey, SlotIsOpenedBy
  <2>3. password = "right" => Fits
    OBVIOUS
  <2> QED BY <2>1, <2>2, <2>3
<1>7. CASE OpenFails \/ OpenStepFails \/ Prompt
  BY <1>7 DEF OpenFails, OpenStepFails, Prompt, VolumeIsGone
<1> QED BY <1>1, <1>2, <1>3, <1>4, <1>5, <1>6, <1>7

LEMMA NextSuppliedInv ==
    ASSUME SuppliedInv, [ToolsNext]_toolsVars
    PROVE  SuppliedInv'
<1>1. CASE \E next \in {"set_offset", "set_password", "open_range",
                        "set_path_prefix"} :
               SetKey(next) \/ SetOffset(next) \/ SetPassword(next)
  BY <1>1 DEF SetKey, SetOffset, SetPassword, SuppliedInv, Fits, accessVars
<1>2. CASE \/ OpenSetKey \/ OpenSetPassword \/ OpenLibrary \/ OpenPrompted
           \/ OpenUnlock \/ FindKey \/ OpenFails \/ OpenStepFails \/ Prompt
  BY <1>2, OpenStepsSupply
<1>3. CASE OpenRange \/ OpenVolume \/ OpenAsks \/ OpenAppend
  BY <1>3 DEF OpenRange, OpenVolume, OpenAsks, OpenAppend, OpenUnchanged,
              accessVars, SuppliedInv, Fits
<1>4. CASE \/ Initialize \/ SetPathPrefix \/ FuseNew \/ FuseReturns \/ FuseFails
           \/ MountReturns \/ MountSucceeds \/ Unmount
  <2>1. CASE MountReturns
    BY <2>1 DEF MountReturns, NoSettings, accessVars, SuppliedInv, Fits
  <2>2. CASE ~ MountReturns
    <3>1. UNCHANGED <<options, settings, prompt, volume, unlocked, key, password>>
      BY <1>4, <2>2 DEF Initialize, SetPathPrefix, FuseNew, FuseReturns,
                        FuseFails, MountSucceeds, Unmount, accessVars
    <3> QED BY <3>1 DEF SuppliedInv, Fits
  <2> QED BY <2>1, <2>2
<1>5. CASE \/ InfoInitialize \/ InfoOpened \/ InfoVolumeFprint \/ InfoClose
           \/ InfoFree
  BY <1>5 DEF InfoInitialize, InfoOpened, InfoVolumeFprint, InfoClose, InfoFree,
              OpenUnchanged, VolumeIsGone, NoSettings, accessVars, SuppliedInv,
              Fits
<1>6. CASE UNCHANGED <<options, settings, prompt, accessVars>>
  BY <1>6 DEF accessVars, SuppliedInv, Fits
<1>7. CASE CallbackStep \/ Callback
  BY <1>6, <1>7, CallbacksKeep DEF callUnchanged
<1>8. CASE UNCHANGED toolsVars
  BY <1>6, <1>8 DEF toolsVars, toolVars
<1> QED BY <1>1, <1>2, <1>3, <1>4, <1>5, <1>7, <1>8
        DEF ToolsNext, ProgramStep, MountStep, MountFrees, InfoStep, OpenStep, InfoSetKey,
            InfoSetPassword, InfoSetVolumeOffset, InfoOpenRange, InfoOpenVolume,
            InfoOpenPrompt, InfoOpenFails

LEMMA NextMountedInv ==
    ASSUME MountedInv, [ToolsNext]_toolsVars
    PROVE  MountedInv'
<1> USE DEF MountedInv, Goto, MayFail, mountVars, accessVars
<1>1. CASE tool = "info" /\ [ToolsNext]_toolsVars
  <2>1. tool' = "info"
    BY <1>1 DEF ToolsNext, ProgramStep, InfoStep, toolsVars, toolVars,
           InfoInitialize, InfoSetKey, InfoSetPassword, InfoSetVolumeOffset,
           InfoOpenRange, InfoOpenVolume, InfoOpenPrompt, InfoOpenFails,
           InfoOpened, InfoVolumeFprint, InfoClose, InfoFree, SetKey, SetOffset,
           SetPassword, OpenRange, OpenVolume, OpenSetKey, OpenSetPassword,
           OpenLibrary, OpenAsks, Prompt, OpenPrompted, OpenUnlock,
           OpenStepFails, OpenFails, OpenUnchanged, FindKey
  <2> QED BY <2>1
<1>2. CASE MountStep /\ UNCHANGED mountVars
  <2>1. CASE \/ Initialize \/ SetKey("set_offset") \/ SetOffset("set_password")
             \/ SetPassword("set_path_prefix") \/ SetPathPrefix
    BY <1>2, <2>1 DEF Initialize, SetKey, SetOffset, SetPassword, SetPathPrefix
  <2>2. CASE OpenStep
    BY <1>2, <2>2 DEF OpenStep, OpenRange, OpenVolume, OpenSetKey,
           OpenSetPassword, OpenLibrary, OpenAsks, Prompt, OpenPrompted,
           OpenUnlock, OpenStepFails, OpenFails, OpenUnchanged, OpenPlaces
  <2>3. CASE FuseNew \/ MountSucceeds
    BY <1>2, <2>3 DEF FuseNew, MountSucceeds
  <2> QED BY <1>2, <2>1, <2>2, <2>3 DEF MountStep
<1>8. CASE MountFrees /\ UNCHANGED volumes_array
  BY <1>8 DEF MountFrees, FuseReturns, FuseFails, MountReturns
<1>3. CASE OpenAppend
  BY <1>3 DEF OpenAppend, OpenIsUnlocked, OpenUnchanged
<1>4. CASE CallbackStep \/ Callback
  BY <1>4, CallbacksKeep DEF callUnchanged
<1>5. CASE FindKey /\ UNCHANGED mountVars
  BY <1>5 DEF FindKey, OpenUnchanged, Access!FindKey
<1>6. CASE Unmount /\ UNCHANGED mountVars
  BY <1>6 DEF Unmount
<1>7. CASE UNCHANGED toolsVars
  BY <1>7 DEF toolsVars, toolVars
<1> QED BY <1>1, <1>2, <1>3, <1>4, <1>5, <1>6, <1>7, <1>8 DEF ToolsNext, ProgramStep

\* What is mounted can be decrypted, with a key or a password that was given or
\* typed: neither a volume that stays locked nor one whose opening failed half
\* way is appended by mount_handle_open, whatever fails.
THEOREM MountsAreUnlocked == Spec => []MountedIsUnlocked
<1>1. ToolsInit => SuppliedInv /\ MountedInv
  BY DEF ToolsInit, ToolInit, MountInit, NoSettings, Access!Init, SuppliedInv,
         MountedInv
<1>2. SuppliedInv /\ MountedInv /\ [ToolsNext]_toolsVars
          => SuppliedInv' /\ MountedInv'
  BY NextSuppliedInv, NextMountedInv
<1>3. SuppliedInv /\ MountedInv => MountedIsUnlocked
  BY DEF SuppliedInv, MountedInv, MountedIsUnlocked, Fits
<1> QED BY <1>1, <1>2, <1>3, ClientsApart, PTL DEF Spec

-----------------------------------------------------------------------------
(* Numbers and their digits                                                *)

IsValues(f, s, n) ==
    f = [i \in 0 .. n |-> IF i = 0 THEN 0 ELSE (f[i - 1] * 10) + s[i]]

LEMMA ValuesExist ==
    ASSUME NEW s, NEW n \in Nat
    PROVE  \E f : IsValues(f, s, n)
<1> DEFINE S == {k \in 0 .. n : \E f : IsValues(f, s, k)}
<1>1. 0 \in S
  <2> DEFINE g == [i \in 0 .. 0 |-> 0]
  <2>1. g = [i \in 0 .. 0 |-> g[i]] /\ \A i \in 0 .. 0 : i = 0 /\ g[i] = 0
    OBVIOUS
  <2> HIDE DEF g
  <2>2. IsValues(g, s, 0)
    BY <2>1 DEF IsValues
  <2> QED BY <2>2
<1>2. ASSUME NEW k \in 0 .. (n - 1), k \in S PROVE k + 1 \in S
  <2>1. PICK f : IsValues(f, s, k)
    BY <1>2
  <2> DEFINE g == [i \in 0 .. (k + 1) |->
                     IF i <= k THEN f[i] ELSE (f[i - 1] * 10) + s[i]]
  <2>2. ASSUME NEW i \in 0 .. (k + 1)
        PROVE  g[i] = IF i = 0 THEN 0 ELSE (g[i - 1] * 10) + s[i]
    <3>1. i # 0 => g[i - 1] = f[i - 1]
      OBVIOUS
    <3>2. \A j \in 0 .. k : f[j] = IF j = 0 THEN 0 ELSE (f[j - 1] * 10) + s[j]
      BY <2>1, Zenon DEF IsValues
    <3>3. g[i] = IF i <= k THEN f[i] ELSE (f[i - 1] * 10) + s[i]
      OBVIOUS
    <3>4. (~(i <= k) => i # 0) /\ (i <= k => i \in 0 .. k)
      OBVIOUS
    <3> HIDE DEF g
    <3> QED BY <3>1, <3>2, <3>3, <3>4
  <2>3. g = [i \in 0 .. (k + 1) |-> g[i]]
    OBVIOUS
  <2> HIDE DEF g
  <2>4. IsValues(g, s, k + 1)
    BY <2>2, <2>3 DEF IsValues
  <2> QED BY <2>4
<1> HIDE DEF S
<1>3. 0 .. n \subseteq S
  BY <1>1, <1>2, IntervalInduction
<1> QED BY <1>3 DEF S

\* The value of digits is that of all but the last, times ten, and the last.
LEMMA ValuesAre ==
    ASSUME NEW s, Len(s) \in Nat
    PROVE  /\ Values(s)[0] = 0
           /\ \A i \in 1 .. Len(s) : Values(s)[i] = (Values(s)[i - 1] * 10) + s[i]
<1>1. Values(s) = CHOOSE f : IsValues(f, s, Len(s))
  BY Zenon DEF Values, IsValues
<1>2. IsValues(Values(s), s, Len(s))
  BY <1>1, ValuesExist
<1>3. \A i \in 0 .. Len(s) :
         Values(s)[i] = IF i = 0 THEN 0 ELSE (Values(s)[i - 1] * 10) + s[i]
  BY <1>2, Zenon DEF IsValues
<1>4. 0 \in 0 .. Len(s) /\ \A i \in 1 .. Len(s) : i \in 0 .. Len(s) /\ i # 0
  OBVIOUS
<1> QED BY <1>3, <1>4

IsWrapped(f, s, n) ==
    f = [i \in 0 .. n |-> IF i = 0 THEN 0 ELSE ((f[i - 1] * 10) + s[i]) % WordSize]

LEMMA WrappedExist ==
    ASSUME NEW s, NEW n \in Nat
    PROVE  \E f : IsWrapped(f, s, n)
<1> DEFINE S == {k \in 0 .. n : \E f : IsWrapped(f, s, k)}
<1>1. 0 \in S
  <2> DEFINE g == [i \in 0 .. 0 |-> 0]
  <2>1. g = [i \in 0 .. 0 |-> g[i]] /\ \A i \in 0 .. 0 : i = 0 /\ g[i] = 0
    OBVIOUS
  <2> HIDE DEF g
  <2>2. IsWrapped(g, s, 0)
    BY <2>1 DEF IsWrapped
  <2> QED BY <2>2
<1>2. ASSUME NEW k \in 0 .. (n - 1), k \in S PROVE k + 1 \in S
  <2>1. PICK f : IsWrapped(f, s, k)
    BY <1>2
  <2> DEFINE g == [i \in 0 .. (k + 1) |->
                     IF i <= k THEN f[i] ELSE ((f[i - 1] * 10) + s[i]) % WordSize]
  <2>2. ASSUME NEW i \in 0 .. (k + 1)
        PROVE  g[i] = IF i = 0 THEN 0 ELSE ((g[i - 1] * 10) + s[i]) % WordSize
    <3>1. i # 0 => g[i - 1] = f[i - 1]
      OBVIOUS
    <3>2. \A j \in 0 .. k : f[j] = IF j = 0 THEN 0 ELSE ((f[j - 1] * 10) + s[j]) % WordSize
      BY <2>1, Zenon DEF IsWrapped
    <3>3. g[i] = IF i <= k THEN f[i] ELSE ((f[i - 1] * 10) + s[i]) % WordSize
      OBVIOUS
    <3>4. (~(i <= k) => i # 0) /\ (i <= k => i \in 0 .. k)
      OBVIOUS
    <3> HIDE DEF g
    <3> QED BY <3>1, <3>2, <3>3, <3>4, Zenon
  <2>3. g = [i \in 0 .. (k + 1) |-> g[i]]
    OBVIOUS
  <2> HIDE DEF g
  <2>4. IsWrapped(g, s, k + 1)
    BY <2>2, <2>3, Zenon DEF IsWrapped
  <2> QED BY <2>4
<1> HIDE DEF S
<1>3. 0 .. n \subseteq S
  BY <1>1, <1>2, IntervalInduction
<1> QED BY <1>3 DEF S

LEMMA WrappedAre ==
    ASSUME NEW s, Len(s) \in Nat
    PROVE  /\ WrappedValues(s)[0] = 0
           /\ \A i \in 1 .. Len(s) :
                 WrappedValues(s)[i] = ((WrappedValues(s)[i - 1] * 10) + s[i]) % WordSize
<1>1. WrappedValues(s) = CHOOSE f : IsWrapped(f, s, Len(s))
  BY Zenon DEF WrappedValues, IsWrapped
<1>2. IsWrapped(WrappedValues(s), s, Len(s))
  BY <1>1, WrappedExist
<1>3. \A i \in 0 .. Len(s) :
         WrappedValues(s)[i] =
             IF i = 0 THEN 0 ELSE ((WrappedValues(s)[i - 1] * 10) + s[i]) % WordSize
  BY <1>2, Zenon DEF IsWrapped
<1>4. 0 \in 0 .. Len(s) /\ \A i \in 1 .. Len(s) : i \in 0 .. Len(s) /\ i # 0
  OBVIOUS
<1> QED BY <1>3, <1>4, Zenon

\* Of any number of digits, what wraps around differs from the number by a
\* multiple of the size of a word.
LEMMA WrappedNumberIs ==
    ASSUME NEW s \in Seq(0 .. 9)
    PROVE  /\ Number(s) \in Nat
           /\ WrappedNumber(s) \in 0 .. WordSize - 1
           /\ \E q \in Nat : Number(s) = WrappedNumber(s) + (q * WordSize)
<1> DEFINE v == Values(s)
           w == WrappedValues(s)
           Right(i) == /\ v[i] \in Nat
                       /\ w[i] \in 0 .. WordSize - 1
                       /\ \E q \in Nat : v[i] = w[i] + (q * WordSize)
<1>0. PICK n \in Nat : n = Len(s)
  OBVIOUS
<1> DEFINE S == {i \in 0 .. n : Right(i)}
<1>1. v[0] = 0 /\ w[0] = 0
  BY <1>0, ValuesAre, WrappedAre
<1>2. ASSUME NEW i \in 1 .. n
      PROVE  /\ v[i] = (v[i - 1] * 10) + s[i]
             /\ w[i] = ((w[i - 1] * 10) + s[i]) % WordSize
             /\ s[i] \in 0 .. 9
  BY <1>0, ValuesAre, WrappedAre
<1>3. WordSize \in Nat \ {0}
  BY WordAssumption
<1>4. \A a \in Nat : a * WordSize \in Nat /\ (a * 10) * WordSize = (a * WordSize) * 10
  BY <1>3
<1> HIDE DEF v, w
<1>5. 0 \in S
  <2>1. v[0] = w[0] + (0 * WordSize) /\ 0 \in Nat /\ 0 \in 0 .. WordSize - 1
    BY <1>1, <1>3
  <2>2. Right(0)
    BY <1>1, <2>1
  <2> QED BY <2>2
<1>6. ASSUME NEW k \in 0 .. (n - 1), k \in S PROVE k + 1 \in S
  <2>1. /\ v[k] \in Nat /\ w[k] \in Nat
        /\ k + 1 \in 1 .. n /\ (k + 1) - 1 = k
    BY <1>3, <1>6
  <2>2. PICK q \in Nat : v[k] = w[k] + (q * WordSize)
    BY <1>6
  <2>3. PICK d \in 0 .. 9 : /\ v[k + 1] = (v[k] * 10) + d
                           /\ w[k + 1] = ((w[k] * 10) + d) % WordSize
    BY <1>2, <2>1
  <2>4. PICK x \in Nat : x = (w[k] * 10) + d
    BY <2>1
  <2>5. v[k + 1] = x + ((q * WordSize) * 10)
    <3>1. PICK m \in Nat : m = q * WordSize
      BY <1>4
    <3>2. v[k] = w[k] + m
      BY <2>2, <3>1
    <3>3. v[k + 1] = x + (m * 10)
      BY <2>1, <2>3, <2>4, <3>2
    <3> QED BY <3>1, <3>3
  <2>6. /\ x = (x % WordSize) + ((x \div WordSize) * WordSize)
        /\ x \div WordSize \in Nat /\ x % WordSize \in 0 .. WordSize - 1
    BY <1>3
  <2>7. PICK e \in Nat : e = (x \div WordSize) + (q * 10)
    BY <2>6
  <2>8. e * WordSize = ((x \div WordSize) * WordSize) + ((q * WordSize) * 10)
    <3>1. \A a, b \in Nat : (a + b) * WordSize = (a * WordSize) + (b * WordSize)
      BY <1>3
    <3>2. PICK m \in Nat : m = q * 10
      OBVIOUS
    <3>3. e * WordSize = ((x \div WordSize) * WordSize) + (m * WordSize)
      BY <2>6, <2>7, <3>1, <3>2
    <3>4. m * WordSize = (q * WordSize) * 10
      BY <1>4, <3>2
    <3> QED BY <3>3, <3>4
  <2>9. v[k + 1] = w[k + 1] + (e * WordSize)
    <3>1. (x \div WordSize) * WordSize \in Nat /\ q * WordSize \in Nat
      BY <1>4, <2>6
    <3>2. w[k + 1] = x % WordSize
      BY <2>3, <2>4
    <3> QED BY <2>5, <2>6, <2>8, <3>1, <3>2
  <2>10. v[k + 1] \in Nat /\ w[k + 1] \in 0 .. WordSize - 1
    BY <2>1, <2>3, <2>4, <2>6
  <2> QED BY <2>1, <2>9, <2>10
<1>7. 0 .. n \subseteq S
  <2> HIDE DEF S
  <2> QED BY <1>5, <1>6, IntervalInduction
<1>8. Right(n)
  BY <1>7
<1> QED BY <1>0, <1>8 DEF v, w, Number, WrappedNumber

\* The decimal string of a number that a word holds is read as that number.
LEMMA OffsetIsRead ==
    ASSUME NEW o \in Options
    PROVE  LET typed == SignOf(o.offset) * Number(o.offset.digits)
               read == ToSigned(DecimalValue(o.offset))
           IN  /\ read \in -(WordSize \div 2) .. (WordSize \div 2) - 1
               /\ typed \in -(WordSize \div 2) .. (WordSize \div 2) - 1 => read = typed
<1> DEFINE sign == SignOf(o.offset)
           number == Number(o.offset.digits)
           wrapped == WrappedNumber(o.offset.digits)
           value == (sign * wrapped) % WordSize
<1>1. o.offset.digits \in Seq(0 .. 9)
  BY OptionsAssumption
<1>2. sign \in {-1, 1}
  BY DEF SignOf
<1>3. number \in Nat /\ wrapped \in 0 .. WordSize - 1
  BY <1>1, WrappedNumberIs
<1>4. PICK q \in Nat : number = wrapped + (q * WordSize)
  BY <1>1, WrappedNumberIs
<1>5. PICK half \in Nat \ {0} : WordSize = 2 * half /\ WordSize \div 2 = half
  <2>1. /\ WordSize \in Nat \ {0} /\ WordSize % 2 = 0
        /\ WordSize = (2 * (WordSize \div 2)) + (WordSize % 2)
    BY WordAssumption
  <2> QED BY <2>1
<1>6. DecimalValue(o.offset) = value
  BY DEF DecimalValue
<1> HIDE DEF sign, number, wrapped
<1>7. \E p \in Int : sign * number = (sign * wrapped) + (p * WordSize)
  <2>1. CASE sign = 1
    BY <1>3, <1>4, <1>5, <2>1
  <2>2. CASE sign = -1
    <3>1. (-q) \in Int /\ (-q) * WordSize = -(q * WordSize) /\ q * WordSize \in Nat
      BY <1>5
    <3>2. sign * number = (sign * wrapped) + ((-q) * WordSize)
      BY <1>3, <1>4, <2>2, <3>1
    <3> QED BY <3>1, <3>2
  <2> QED BY <1>2, <2>1, <2>2
<1>8. PICK p \in Int : sign * number = (sign * wrapped) + (p * WordSize)
  BY <1>7
<1>9. /\ value \in 0 .. WordSize - 1
      /\ \E r \in Int : sign * wrapped = value + (r * WordSize)
  <2> DEFINE y == sign * wrapped
  <2>1. y \in Int
    BY <1>2, <1>3
  <2> HIDE DEF y
  <2>2. /\ y = (y % WordSize) + ((y \div WordSize) * WordSize)
        /\ y \div WordSize \in Int /\ y % WordSize \in 0 .. WordSize - 1
    BY <1>5, <2>1
  <2> QED BY <2>2 DEF y
<1>10. PICK r \in Int : sign * wrapped = value + (r * WordSize)
  BY <1>9
<1> DEFINE typed == sign * number
           read == ToSigned(value)
<1>11. PICK e \in Int : typed = value + (e * WordSize)
  <2>1. (r + p) * WordSize = (r * WordSize) + (p * WordSize)
    BY <1>5
  <2>2. r * WordSize \in Int /\ p * WordSize \in Int /\ r + p \in Int
    BY <1>5
  <2> HIDE DEF value
  <2>3. typed = value + ((r + p) * WordSize)
    BY <1>8, <1>9, <1>10, <2>1, <2>2
  <2> QED BY <2>2, <2>3
<1>12. typed \in Int
  BY <1>2, <1>3
<1> HIDE DEF value, typed
<1>13. /\ read = IF value < half THEN value ELSE value - WordSize
       /\ read \in -half .. half - 1
  BY <1>5, <1>9 DEF ToSigned
<1>14. ASSUME typed \in -half .. half - 1 PROVE read = typed
  <2>1. CASE e >= 1
    <3>1. e * WordSize >= WordSize
      BY <1>5, <2>1
    <3> QED BY <1>5, <1>9, <1>11, <1>14, <3>1
  <2>2. CASE e <= -2
    <3>1. e * WordSize <= -(2 * WordSize)
      BY <1>5, <2>2
    <3> QED BY <1>5, <1>9, <1>11, <1>14, <3>1
  <2>3. CASE e = 0
    BY <1>5, <1>9, <1>11, <1>13, <1>14, <2>3
  <2>4. CASE e = -1
    BY <1>5, <1>9, <1>11, <1>13, <1>14, <2>4
  <2> QED BY <2>1, <2>2, <2>3, <2>4
<1> QED BY <1>5, <1>6, <1>13, <1>14 DEF typed, sign, number

IsDigits(f, n) ==
    f = [i \in 0 .. n |-> IF i = 0 THEN <<>> ELSE Append(f[i \div 10], i % 10)]

LEMMA Quotient ==
    ASSUME NEW i \in Nat \ {0}
    PROVE  /\ i \div 10 \in 0 .. (i - 1)
           /\ i % 10 \in 0 .. 9
           /\ i = ((i \div 10) * 10) + (i % 10)
OBVIOUS

LEMMA DigitsExist ==
    ASSUME NEW n \in Nat
    PROVE  \E f : IsDigits(f, n)
<1> DEFINE S == {k \in 0 .. n : \E f : IsDigits(f, k)}
<1>1. 0 \in S
  <2> DEFINE g == [i \in 0 .. 0 |-> <<>>]
  <2>1. g = [i \in 0 .. 0 |-> g[i]] /\ \A i \in 0 .. 0 : i = 0 /\ g[i] = <<>>
    OBVIOUS
  <2> HIDE DEF g
  <2>2. IsDigits(g, 0)
    BY <2>1 DEF IsDigits
  <2> QED BY <2>2
<1>2. ASSUME NEW k \in 0 .. (n - 1), k \in S PROVE k + 1 \in S
  <2>1. PICK f : IsDigits(f, k)
    BY <1>2
  <2> DEFINE g == [i \in 0 .. (k + 1) |->
                     IF i <= k THEN f[i] ELSE Append(f[i \div 10], i % 10)]
  <2>2. ASSUME NEW i \in 0 .. (k + 1)
        PROVE  g[i] = IF i = 0 THEN <<>> ELSE Append(g[i \div 10], i % 10)
    <3>1. i # 0 => g[i \div 10] = f[i \div 10]
      <4>1. SUFFICES ASSUME i # 0 PROVE g[i \div 10] = f[i \div 10]
        OBVIOUS
      <4>2. i \div 10 \in 0 .. (i - 1)
        BY <4>1, Quotient
      <4>3. i \div 10 \in 0 .. (k + 1) /\ i \div 10 <= k
        BY <4>2
      <4> QED BY <4>3
    <3>2. \A j \in 0 .. k : f[j] = IF j = 0 THEN <<>> ELSE Append(f[j \div 10], j % 10)
      BY <2>1, Zenon DEF IsDigits
    <3>3. g[i] = IF i <= k THEN f[i] ELSE Append(f[i \div 10], i % 10)
      OBVIOUS
    <3>4. (~(i <= k) => i # 0) /\ (i <= k => i \in 0 .. k)
      OBVIOUS
    <3> HIDE DEF g
    <3> QED BY <3>1, <3>2, <3>3, <3>4, Zenon
  <2>3. g = [i \in 0 .. (k + 1) |-> g[i]]
    OBVIOUS
  <2> HIDE DEF g
  <2>4. IsDigits(g, k + 1)
    BY <2>2, <2>3, Zenon DEF IsDigits
  <2> QED BY <2>4
<1> HIDE DEF S
<1>3. 0 .. n \subseteq S
  BY <1>1, <1>2, IntervalInduction
<1> QED BY <1>3 DEF S

LEMMA DigitsAgree ==
    ASSUME NEW m \in Nat, NEW n \in Nat, NEW f, NEW g, IsDigits(f, m), IsDigits(g, n),
           NEW i \in 0 .. m, i <= n
    PROVE  f[i] = g[i]
<1> DEFINE T == {j \in Nat : j <= m /\ j <= n /\ f[j] # g[j]}
<1>1. SUFFICES ASSUME f[i] # g[i] PROVE FALSE
  OBVIOUS
<1>2. PICK x \in T : \A y \in T : ~(y < x)
  <2>1. T \subseteq Nat /\ i \in T
    BY <1>1
  <2> HIDE DEF T
  <2> QED BY <2>1, LeastNumber
<1>3. /\ \A j \in 0 .. m : f[j] = IF j = 0 THEN <<>> ELSE Append(f[j \div 10], j % 10)
      /\ \A j \in 0 .. n : g[j] = IF j = 0 THEN <<>> ELSE Append(g[j \div 10], j % 10)
  BY Zenon DEF IsDigits
<1>4. x \in 0 .. m /\ x \in 0 .. n /\ f[x] # g[x]
  OBVIOUS
<1>5. x # 0
  BY <1>3, <1>4
<1>6. f[x \div 10] = g[x \div 10]
  <2>1. x \div 10 \in 0 .. (x - 1)
    BY <1>4, <1>5, Quotient
  <2>2. x \div 10 \in Nat /\ x \div 10 < x /\ x \div 10 <= m /\ x \div 10 <= n
    BY <1>4, <2>1
  <2> QED BY <1>2, <2>2
<1>7. f[x] = Append(f[x \div 10], x % 10) /\ g[x] = Append(g[x \div 10], x % 10)
  BY <1>3, <1>4, <1>5
<1> QED BY <1>4, <1>6, <1>7

AllDigits(f) ==
    f = [i \in Nat |-> IF i = 0 THEN <<>> ELSE Append(f[i \div 10], i % 10)]

LEMMA DigitsAre ==
    /\ Digits[0] = <<>>
    /\ \A i \in Nat \ {0} : Digits[i] = Append(Digits[i \div 10], i % 10)
<1> DEFINE upto(n) == CHOOSE f : IsDigits(f, n)
           g == [n \in Nat |-> upto(n)[n]]
<1>1. \A n \in Nat : IsDigits(upto(n), n)
  BY DigitsExist
<1> HIDE DEF upto
<1>2. ASSUME NEW n \in Nat
      PROVE  g[n] = IF n = 0 THEN <<>> ELSE Append(g[n \div 10], n % 10)
  <2>1. \A j \in 0 .. n :
           upto(n)[j] = IF j = 0 THEN <<>> ELSE Append(upto(n)[j \div 10], j % 10)
    BY <1>1, Zenon DEF IsDigits
  <2>2. g[n] = IF n = 0 THEN <<>> ELSE Append(upto(n)[n \div 10], n % 10)
    <3>1. n \in 0 .. n /\ g[n] = upto(n)[n]
      OBVIOUS
    <3> HIDE DEF g
    <3> QED BY <2>1, <3>1, Zenon
  <2>3. ASSUME n # 0 PROVE upto(n)[n \div 10] = g[n \div 10]
    <3>1. PICK k \in Nat : k = n \div 10 /\ k <= n
      BY <2>3, Quotient
    <3>2. IsDigits(upto(n), n) /\ IsDigits(upto(k), k) /\ k \in 0 .. k
      BY <1>1
    <3>3. upto(k)[k] = upto(n)[k]
      BY <3>1, <3>2, DigitsAgree
    <3>4. g[k] = upto(k)[k]
      OBVIOUS
    <3> QED BY <3>1, <3>3, <3>4
  <2> HIDE DEF g
  <2> QED BY <2>2, <2>3
<1>3. g = [n \in Nat |-> g[n]]
  OBVIOUS
<1> HIDE DEF g
<1>4. AllDigits(g)
  BY <1>2, <1>3 DEF AllDigits
<1>5. Digits = CHOOSE f : AllDigits(f)
  BY Zenon DEF Digits, AllDigits
<1>6. AllDigits(Digits)
  BY <1>4, <1>5
<1>7. \A i \in Nat : Digits[i] = IF i = 0 THEN <<>> ELSE Append(Digits[i \div 10], i % 10)
  BY <1>6, Zenon DEF AllDigits
<1>8. 0 \in Nat /\ \A i \in Nat \ {0} : i \in Nat /\ i # 0
  OBVIOUS
<1> QED BY <1>7, <1>8

\* A digit behind a sequence of them.
LEMMA NumberAppend ==
    ASSUME NEW s \in Seq(0 .. 9), NEW d \in 0 .. 9
    PROVE  Number(Append(s, d)) = (Number(s) * 10) + d
<1> DEFINE t == Append(s, d)
           v == Values(s)
           w == Values(t)
<1>0. PICK n \in Nat : n = Len(s)
  OBVIOUS
<1> DEFINE S == {i \in 0 .. n : w[i] = v[i]}
<1>1. /\ Len(t) = n + 1 /\ Len(t) \in Nat /\ t[n + 1] = d
      /\ \A i \in 1 .. n : t[i] = s[i]
  BY <1>0
<1>2. /\ v[0] = 0 /\ w[0] = 0
      /\ \A i \in 1 .. n : v[i] = (v[i - 1] * 10) + s[i]
      /\ \A i \in 1 .. (n + 1) : w[i] = (w[i - 1] * 10) + t[i]
  BY <1>0, <1>1, ValuesAre
<1> HIDE DEF v, w, t
<1>3. 0 \in S
  BY <1>2
<1>4. ASSUME NEW k \in 0 .. (n - 1), k \in S PROVE k + 1 \in S
  <2>1. k + 1 \in 1 .. n /\ k + 1 \in 1 .. (n + 1) /\ (k + 1) - 1 = k
    OBVIOUS
  <2>2. v[k + 1] = (v[k] * 10) + s[k + 1] /\ w[k + 1] = (w[k] * 10) + t[k + 1]
    BY <1>2, <2>1
  <2>3. w[k + 1] = v[k + 1]
    BY <1>1, <1>4, <2>1, <2>2
  <2> QED BY <2>1, <2>3
<1>5. 0 .. n \subseteq S
  <2> HIDE DEF S
  <2> QED BY <1>3, <1>4, IntervalInduction
<1>6. w[n] = v[n]
  BY <1>5
<1>7. n + 1 \in 1 .. (n + 1) /\ (n + 1) - 1 = n
  OBVIOUS
<1>8. w[n + 1] = (v[n] * 10) + d
  BY <1>1, <1>2, <1>6, <1>7
<1> QED BY <1>0, <1>1, <1>8 DEF v, w, t, Number

\* The digits of a number are those of that number, and it has no more of them
\* than its size takes.
LEMMA DigitsOfNumber ==
    ASSUME NEW n \in Nat
    PROVE  /\ Digits[n] \in Seq(0 .. 9)
           /\ Number(Digits[n]) = n
<1> DEFINE Right(k) == Digits[k] \in Seq(0 .. 9) /\ Number(Digits[k]) = k
           T == {k \in Nat : ~ Right(k)}
<1>1. SUFFICES ASSUME ~ Right(n) PROVE FALSE
  OBVIOUS
<1>2. PICK x \in T : \A y \in T : ~(y < x)
  <2>1. T \subseteq Nat /\ n \in T
    BY <1>1
  <2> HIDE DEF T
  <2> QED BY <2>1, LeastNumber
<1>3. x # 0
  <2>1. Digits[0] \in Seq(0 .. 9) /\ Len(Digits[0]) = 0
    BY DigitsAre
  <2>2. Number(Digits[0]) = 0
    BY <2>1, ValuesAre DEF Number
  <2> QED BY <2>1, <2>2
<1>4. PICK k \in Nat, d \in 0 .. 9 :
          k = x \div 10 /\ d = x % 10 /\ k < x /\ x = (k * 10) + d
  BY <1>3, Quotient
<1>5. Right(k)
  BY <1>2, <1>4
<1>6. Digits[x] = Append(Digits[k], d)
  BY <1>3, <1>4, DigitsAre
<1>7. PICK s \in Seq(0 .. 9) : s = Digits[k] /\ Number(s) = k
  BY <1>5
<1>8. Append(s, d) \in Seq(0 .. 9) /\ Number(Append(s, d)) = (Number(s) * 10) + d
  BY NumberAppend
<1>9. Digits[x] \in Seq(0 .. 9) /\ Number(Digits[x]) = x
  BY <1>4, <1>6, <1>7, <1>8
<1> QED BY <1>9

LEMMA DigitsInAPath ==
    ASSUME NEW n \in Nat \ {0}, n < 100 * 100
    PROVE  Len(Digits[n]) \in 1 .. 4
<1> DEFINE L(k) == Len(Digits[k])
<1>1. ASSUME NEW k \in Nat \ {0}
      PROVE  \E j \in Nat : j * 10 <= k /\ k < (j * 10) + 10 /\ L(k) = L(j) + 1
  <2>1. PICK j \in Nat, d \in 0 .. 9 : j = k \div 10 /\ d = k % 10 /\ k = (j * 10) + d
    BY Quotient
  <2>2. Digits[j] \in Seq(0 .. 9)
    BY DigitsOfNumber
  <2>3. Digits[k] = Append(Digits[j], d)
    <3>1. \A i \in Nat \ {0} : Digits[i] = Append(Digits[i \div 10], i % 10)
      BY DigitsAre
    <3> QED BY <2>1, <3>1
  <2>4. L(k) = L(j) + 1
    BY <2>2, <2>3
  <2> QED BY <2>1, <2>4
<1>2. L(0) = 0
  BY DigitsAre
<1> HIDE DEF L
<1>3. ASSUME NEW k \in Nat \ {0}, k < 10 PROVE L(k) \in 1 .. 1
  BY <1>1, <1>2, <1>3
<1>4. ASSUME NEW k \in Nat \ {0}, k < 100 PROVE L(k) \in 1 .. 2
  <2>1. PICK j \in Nat : j * 10 <= k /\ L(k) = L(j) + 1
    BY <1>1
  <2>2. j = 0 \/ (j \in Nat \ {0} /\ j < 10)
    BY <1>4, <2>1
  <2> QED BY <1>2, <1>3, <2>1, <2>2
<1>5. ASSUME NEW k \in Nat \ {0}, k < 10 * 100 PROVE L(k) \in 1 .. 3
  <2>1. PICK j \in Nat : j * 10 <= k /\ L(k) = L(j) + 1
    BY <1>1
  <2>2. j = 0 \/ (j \in Nat \ {0} /\ j < 100)
    BY <1>5, <2>1
  <2> QED BY <1>2, <1>4, <2>1, <2>2
<1>6. L(n) \in 1 .. 4
  <2>1. PICK j \in Nat : j * 10 <= n /\ L(n) = L(j) + 1
    BY <1>1
  <2>2. j = 0 \/ (j \in Nat \ {0} /\ j < 10 * 100)
    BY <2>1
  <2> QED BY <1>2, <1>5, <2>1, <2>2
<1> QED BY <1>6 DEF L

\* The path of each of fewer than ten thousand volumes is looked up as that
\* volume's.
THEOREM PathsAreVolumes ==
    ASSUME NEW volumes \in Nat, volumes < 100 * 100, NEW i \in Nat, i < volumes,
           NEW caseless \in BOOLEAN
    PROVE  VolumeByPath(PathFromVolumeIndex(i), volumes, caseless) = i + 1
<1> DEFINE path == PathFromVolumeIndex(i)
           digits == Digits[i + 1]
<1>1. i + 1 \in Nat \ {0} /\ i + 1 < 100 * 100 /\ i + 1 \in 1 .. volumes
  OBVIOUS
<1>2. Len(digits) \in 1 .. 4 /\ Number(digits) = i + 1
  <2>1. PICK n \in Nat \ {0} : n = i + 1
    BY <1>1
  <2> QED BY <1>1, <2>1, DigitsInAPath, DigitsOfNumber
<1> HIDE DEF digits
<1>3. path.name = "/luksde" /\ path.digits = digits
  BY DEF PathFromVolumeIndex, Path, digits
<1>4. path # Root
  BY <1>3 DEF Root, Path
<1> HIDE DEF path
<1>5. VolumeByPath(path, volumes, caseless) = Number(path.digits)
  BY <1>1, <1>2, <1>3, <1>4 DEF VolumeByPath
<1> QED BY <1>2, <1>3, <1>5 DEF path

-----------------------------------------------------------------------------
(* The invariant of the tools                                               *)

\* What main holds: its handle, the range the volume is in, the volume.
HandleOnly == {"handle"}
RangeOpened == {"handle", "file_io_handle"}
VolumeMade == RangeOpened \cup {"volume"}
FuseMounted == RangeOpened \cup {"fuse"}

InfoPlaces == OpenPlaces \cup
    {"initialize", "set_key", "set_password", "set_offset", "open_failed",
     "open_done", "fprint", "close", "free", "on_error", "returned"}

\* Before a volume is appended, and after.
UnmountedPlaces == OpenPlaces \cup
    {"initialize", "set_key", "set_offset", "set_password", "set_path_prefix",
     "open_failed", "open_done"}

MountedPlaces == {"fuse_mount", "loop", "unmounted", "unmounted_dokan",
                  "destroyed", "destroyed_on_error"}

\* The places of each program, and whether a volume is mounted there.
PlacesInv ==
    /\ tool \in {"mount", "info"}
    /\ driver \in {"fuse", "dokan", "dokany"}
    /\ volumes_array \in 0 .. 1
    /\ tool = "info" => pc \in InfoPlaces /\ volumes_array = 0 /\ driver = "fuse"
    /\ tool = "mount" =>
           pc \in UnmountedPlaces \cup MountedPlaces \cup {"on_error", "returned"}
    /\ pc \in UnmountedPlaces => volumes_array = 0
    /\ pc \in MountedPlaces => volumes_array = 1
    /\ pc = "unmounted_dokan" => driver # "fuse"
    /\ pc \in MountedPlaces \ {"unmounted_dokan", "loop"} => driver = "fuse"
    /\ "fuse" \in held => driver = "fuse" /\ volumes_array = 1
    /\ tool = "mount" /\ pc = "on_error" /\ "file_io_handle" \in held =>
           volumes_array = 1

\* Which pointers of main are not NULL, at every place.
HeldInv ==
    /\ pc = "initialize" => held = {}
    /\ pc \in {"set_key", "set_offset", "set_password", "set_path_prefix",
               "open_range", "free"} => held = HandleOnly
    /\ pc = "open_volume" => held = RangeOpened
    /\ pc \in (OpenPlaces \ {"open_range", "open_volume"})
                \cup {"open_done", "fprint", "close"} => held = VolumeMade
    /\ pc = "open_failed" => held \in {HandleOnly, RangeOpened, VolumeMade}
    /\ pc \in {"fuse_mount", "unmounted_dokan"} => held = RangeOpened
    /\ pc = "loop" => held = IF driver = "fuse" THEN FuseMounted ELSE RangeOpened
    /\ pc = "unmounted" => held = FuseMounted
    /\ pc = "destroyed" => held = {"fuse"}
    /\ pc = "destroyed_on_error" => held \in {{"fuse"}, FuseMounted}
    /\ pc = "on_error" =>
           held \in {{}, HandleOnly, RangeOpened,
                     IF tool = "mount" THEN FuseMounted ELSE VolumeMade}
    /\ pc = "returned" =>
           \/ held = {}
           \/ driver # "fuse" /\ volumes_array = 1 /\ held = RangeOpened

Bit(condition) == IF condition THEN 1 ELSE 0

\* A range is lost when its handle is freed, of which there is one.
Freed == {"destroyed", "destroyed_on_error", "returned"}

LostInv ==
    /\ lost \in 0 .. 1
    /\ lost # 0 => pc \in Freed /\ "file_io_handle" \notin held /\ volumes_array = 1

\* The objects of each kind: main's, the volumes that are mounted, and what is
\* lost.
HeapInv ==
    /\ heap \in [Kinds -> Int]
    /\ heap["handle"] = Bit("handle" \in held)
    /\ heap["file_system"] = Bit(tool = "mount" /\ "handle" \in held)
    /\ heap["file_io_handle"] = Bit("file_io_handle" \in held) + lost
    /\ heap["volume"] = Bit("volume" \in held) + volumes_array
    /\ heap["fuse"] = Bit("fuse" \in held)
    /\ heap["name"] = Bit("name" \in call.pointers)
    /\ heap["stat"] = Bit("stat" \in call.pointers)

LocalPointers == {"file_entry", "parent", "sub", "name", "stat"}

ListedPaths == {Path(".", <<>>), Path("..", <<>>)}
                   \cup {PathFromVolumeIndex(i) : i \in Nat}

Answers == {"none", "opened", "data", "closed", "listed", "directory", "file",
            "LUKSDE", "ENOENT", "EACCES", "EIO"}

CallRecord ==
    [op : {"none", "getattr"} \cup DirectoryOps,
     at : {"none", "dot", "parent", "sub", "fill"},
     entry : Nat \cup {NoEntry}, index : Nat, pointers : SUBSET LocalPointers,
     listing : Seq([path : ListedPaths, entry : Nat \cup {NoEntry}]),
     answer : Answers]

\* The pointers a callback holds at each place; between callbacks there are none.
PointersInv ==
    /\ call.op = "none" => call.pointers = {}
    /\ call.op # "none" =>
           pc = "loop" /\ call.answer = "none" /\ call.entry \in 0 .. volumes_array
    /\ call.op = "getattr" => call.at = "dot" /\ call.pointers = {"file_entry"}
    /\ call.op \in DirectoryOps =>
           LET attributes == IF call.op = "readdir" THEN {"stat"} ELSE {"file_entry"}
           IN  \/ call.at \in {"dot", "sub"} /\ call.pointers = attributes
               \/ /\ call.at = "parent"
                  /\ call.pointers = attributes \cup
                         (IF call.entry = RootEntry THEN {} ELSE {"parent"})
               \/ /\ call.at = "fill"
                  /\ call.pointers = attributes \cup {"sub", "name"}

\* A directory is listed up to its n-th sub entry.
ListedUpTo(listing, entry, n) ==
    /\ Len(listing) = n + 2
    /\ listing[1].entry = entry
    /\ \A k \in 1 .. n : listing[k + 2] = [path |-> PathFromVolumeIndex(k - 1), entry |-> k]

ListingInv ==
    /\ call.op \in DirectoryOps =>
           /\ call.at = "dot" => call.listing = <<>> /\ call.index = 0
           /\ call.at = "parent" =>
                  /\ Len(call.listing) = 1 /\ call.index = 0
                  /\ call.listing[1].entry = call.entry
           /\ call.at \in {"sub", "fill"} =>
                  ListedUpTo(call.listing, call.entry, call.index)
           /\ call.index <= NumberOfSubFileEntries(call.entry, volumes_array)
           /\ call.at = "fill" => HasSubEntry
    /\ call.answer = "listed" =>
           /\ Len(call.listing) >= 2
           /\ ListedUpTo(call.listing, call.listing[1].entry,
                 NumberOfSubFileEntries(call.listing[1].entry, volumes_array))

CallInv ==
    /\ call \in CallRecord
    /\ pc \in UnmountedPlaces \/ tool = "info" => call = NoCall
    /\ PointersInv
    /\ ListingInv

OpenFiles == {f \in Files : fh[f] # NoEntry}

OpenFile(f) ==
    fh[f] = NoEntry \/ fh[f] \in [entry : 0 .. volumes_array, is_directory : BOOLEAN]

FilesInv ==
    /\ fh \in [Files -> {NoEntry} \cup [entry : Nat, is_directory : BOOLEAN]]
    /\ \A f \in Files : OpenFile(f)
    /\ IsFiniteSet(OpenFiles)
    /\ leaked \in Nat
    /\ EntriesAreAccountedFor

\* Where the offset of the volume has been set.
OffsetSet == OpenPlaces \cup
    (IF tool = "mount" THEN {"set_password", "set_path_prefix"} ELSE {})

OffsetInv ==
    /\ options \in Options
    /\ settings.offset \in -(WordSize \div 2) .. (WordSize \div 2) - 1
    /\ pc \in OffsetSet =>
           settings.offset = ToSigned(DecimalValue(options.offset))

ToolsInv ==
    /\ PlacesInv
    /\ HeldInv
    /\ HeapInv
    /\ LostInv
    /\ CallInv
    /\ FilesInv
    /\ OffsetInv

-----------------------------------------------------------------------------
(* Objects and pointers                                                    *)

\* A set with one more element, if another set has it.
IsExtended(T, S, x, R) ==
    IsFiniteSet(T) /\ Cardinality(T) = Cardinality(S) + Bit(x \in R)

LEMMA CountOne ==
    ASSUME NEW S, IsFiniteSet(S), NEW x, x \notin S, NEW R
    PROVE  IsExtended(S \cup (R \cap {x}), S, x, R)
<1>0. Cardinality(S) \in Nat
  BY FS_CardinalityType
<1>1. CASE x \in R
  <2>1. S \cup (R \cap {x}) = S \cup {x}
    BY <1>1
  <2>2. IsFiniteSet(S \cup {x}) /\ Cardinality(S \cup {x}) = Cardinality(S) + 1
    BY FS_AddElement
  <2> QED BY <1>1, <2>1, <2>2 DEF IsExtended, Bit
<1>2. CASE x \notin R
  <2>1. S \cup (R \cap {x}) = S
    BY <1>2
  <2>2. Bit(x \in R) = 0 /\ Cardinality(S) = Cardinality(S) + 0
    BY <1>0, <1>2 DEF Bit
  <2> QED BY <2>1, <2>2, Zenon DEF IsExtended
<1> QED BY <1>1, <1>2

PointersTo(pointers, kind) == {p \in pointers : KindOf(p) = kind}

Count(pointers, kind) == Cardinality(PointersTo(pointers, kind))

\* The pointers of a callback, by what they point to.
LEMMA PointersOfKinds ==
    ASSUME NEW pointers \in SUBSET LocalPointers
    PROVE  /\ Count(pointers, "entry") =
                  Bit("file_entry" \in pointers) + Bit("parent" \in pointers)
                      + Bit("sub" \in pointers)
           /\ Count(pointers, "name") = Bit("name" \in pointers)
           /\ Count(pointers, "stat") = Bit("stat" \in pointers)
           /\ \A k \in Kinds \ {"entry", "name", "stat"} : Count(pointers, k) = 0
<1>1. IsFiniteSet({}) /\ Cardinality({}) = 0
  BY FS_EmptySet
<1>2. Count(pointers, "name") = Bit("name" \in pointers)
  <2>1. PointersTo(pointers, "name") = {} \cup (pointers \cap {"name"})
    BY DEF PointersTo, KindOf, LocalPointers
  <2>2. IsExtended({} \cup (pointers \cap {"name"}), {}, "name", pointers)
    BY <1>1, CountOne
  <2> QED BY <1>1, <2>1, <2>2 DEF IsExtended, Count, Bit
<1>3. Count(pointers, "stat") = Bit("stat" \in pointers)
  <2>1. PointersTo(pointers, "stat") = {} \cup (pointers \cap {"stat"})
    BY DEF PointersTo, KindOf, LocalPointers
  <2>2. IsExtended({} \cup (pointers \cap {"stat"}), {}, "stat", pointers)
    BY <1>1, CountOne
  <2> QED BY <1>1, <2>1, <2>2 DEF IsExtended, Count, Bit
<1>4. ASSUME NEW k \in Kinds \ {"entry", "name", "stat"}
      PROVE  Count(pointers, k) = 0
  <2>1. PointersTo(pointers, k) = {}
    BY DEF PointersTo, KindOf, LocalPointers, Kinds
  <2> QED BY <1>1, <2>1 DEF Count
<1>5. Count(pointers, "entry") =
          Bit("file_entry" \in pointers) + Bit("parent" \in pointers)
              + Bit("sub" \in pointers)
  <2> DEFINE A == {} \cup (pointers \cap {"file_entry"})
             B == A \cup (pointers \cap {"parent"})
             C == B \cup (pointers \cap {"sub"})
  <2>1. PointersTo(pointers, "entry") = C
    BY DEF PointersTo, KindOf, LocalPointers
  <2>2. "parent" \notin A /\ "sub" \notin B
    OBVIOUS
  <2>3. IsExtended(A, {}, "file_entry", pointers)
    BY <1>1, CountOne
  <2> HIDE DEF A
  <2>4. IsExtended(B, A, "parent", pointers)
    BY <2>2, <2>3, CountOne DEF IsExtended
  <2> HIDE DEF B
  <2>5. IsExtended(C, B, "sub", pointers)
    BY <2>2, <2>4, CountOne DEF IsExtended
  <2> HIDE DEF C
  <2>6. Cardinality(A) \in Nat /\ Cardinality(B) \in Nat
    BY <2>3, <2>4, FS_CardinalityType DEF IsExtended
  <2>7. /\ Cardinality(A) = 0 + Bit("file_entry" \in pointers)
        /\ Cardinality(B) = Cardinality(A) + Bit("parent" \in pointers)
        /\ Cardinality(C) = Cardinality(B) + Bit("sub" \in pointers)
    BY <1>1, <2>3, <2>4, <2>5 DEF IsExtended
  <2> QED BY <2>1, <2>6, <2>7 DEF Count, Bit
<1> QED BY <1>2, <1>3, <1>4, <1>5

\* What a callback allocates, or frees, is counted by kind.
LEMMA LocalsCount ==
    ASSUME heap \in [Kinds -> Int], NEW pointers \in SUBSET LocalPointers,
           NEW by \in {1, -1}, heap' = Locals(pointers, by)
    PROVE  /\ heap' \in [Kinds -> Int]
           /\ heap'["entry"] = heap["entry"] +
                  (by * (Bit("file_entry" \in pointers) + Bit("parent" \in pointers)
                             + Bit("sub" \in pointers)))
           /\ heap'["name"] = heap["name"] + (by * Bit("name" \in pointers))
           /\ heap'["stat"] = heap["stat"] + (by * Bit("stat" \in pointers))
           /\ \A k \in Kinds \ {"entry", "name", "stat"} : heap'[k] = heap[k]
<1>1. heap' = [k \in Kinds |-> heap[k] + (by * Count(pointers, k))]
  BY DEF Locals, Count, PointersTo
<1>2. \A P \in BOOLEAN : Bit(P) \in {0, 1}
  BY DEF Bit
<1> DEFINE entries == Bit("file_entry" \in pointers) + Bit("parent" \in pointers)
                          + Bit("sub" \in pointers)
<1>3. entries \in 0 .. 3
  <2>1. /\ Bit("file_entry" \in pointers) \in {0, 1}
        /\ Bit("parent" \in pointers) \in {0, 1}
        /\ Bit("sub" \in pointers) \in {0, 1}
    BY DEF Bit
  <2> QED BY <2>1
<1>4. "entry" \in Kinds /\ "name" \in Kinds /\ "stat" \in Kinds
  BY DEF Kinds
<1>5. /\ Count(pointers, "entry") = entries
      /\ Count(pointers, "name") = Bit("name" \in pointers)
      /\ Count(pointers, "stat") = Bit("stat" \in pointers)
      /\ \A k \in Kinds \ {"entry", "name", "stat"} : Count(pointers, k) = 0
  BY PointersOfKinds
<1> HIDE DEF entries
<1>6. Bit("name" \in pointers) \in {0, 1} /\ Bit("stat" \in pointers) \in {0, 1}
  BY DEF Bit
<1>7. \A k \in Kinds : Count(pointers, k) \in Int /\ heap'[k] = heap[k] + (by * Count(pointers, k))
  <2>1. \A k \in Kinds : k \in {"entry", "name", "stat"} \/ Count(pointers, k) = 0
    BY <1>5
  <2>2. \A k \in Kinds : Count(pointers, k) \in Int
    BY <1>3, <1>5, <1>6, <2>1
  <2> QED BY <1>1, <2>2
<1>8. heap' \in [Kinds -> Int]
  <2>1. \A k \in Kinds : heap[k] + (by * Count(pointers, k)) \in Int
    BY <1>7
  <2> QED BY <1>1, <2>1
<1>9. \A k \in Kinds \ {"entry", "name", "stat"} : heap'[k] = heap[k]
  <2>1. SUFFICES ASSUME NEW k \in Kinds \ {"entry", "name", "stat"}
                 PROVE  heap'[k] = heap[k]
    OBVIOUS
  <2>2. Count(pointers, k) = 0 /\ heap[k] \in Int /\ by * 0 = 0
    BY <1>5
  <2> QED BY <1>7, <2>2
<1>10. heap'["entry"] = heap["entry"] + (by * entries)
  BY <1>4, <1>5, <1>7
<1> QED BY <1>4, <1>5, <1>7, <1>8, <1>9, <1>10 DEF entries

\* What main allocates, or frees.
LEMMA ChangedCount ==
    ASSUME heap \in [Kinds -> Int], NEW kinds, NEW by \in {1, -1},
           heap' = Changed(kinds, by)
    PROVE  /\ heap' \in [Kinds -> Int]
           /\ \A k \in Kinds : heap'[k] = heap[k] + (by * Bit(k \in kinds))
<1>1. \A k \in Kinds : heap'[k] = heap[k] + (IF k \in kinds THEN by ELSE 0)
  BY DEF Changed
<1>2. \A k \in Kinds : (IF k \in kinds THEN by ELSE 0) = by * Bit(k \in kinds)
  BY DEF Bit
<1>3. heap' \in [Kinds -> Int]
  <2>1. \A k \in Kinds : heap[k] + (IF k \in kinds THEN by ELSE 0) \in Int
    OBVIOUS
  <2> QED BY <2>1 DEF Changed
<1> QED BY <1>1, <1>2, <1>3

-----------------------------------------------------------------------------
(* The steps of main                                                       *)

\* The pointers, or what is lost, change with what is allocated or freed.
Balanced(kinds, by) ==
    /\ heap' = Changed(kinds, by)
    /\ {"entry", "name", "stat"} \cap kinds = {}
    /\ \A k \in {"handle", "fuse"} :
          Bit(k \in held') = Bit(k \in held) + (by * Bit(k \in kinds))
    /\ Bit("file_io_handle" \in held') + lost' =
           Bit("file_io_handle" \in held) + lost + (by * Bit("file_io_handle" \in kinds))
    /\ Bit("volume" \in held') + volumes_array' =
           Bit("volume" \in held) + volumes_array + (by * Bit("volume" \in kinds))
    /\ Bit(tool = "mount" /\ "handle" \in held') =
           Bit(tool = "mount" /\ "handle" \in held) + (by * Bit("file_system" \in kinds))

LEMMA HeapKept ==
    ASSUME HeapInv, UNCHANGED <<tool, call>>, NEW kinds, NEW by \in {1, -1},
           Balanced(kinds, by)
    PROVE  HeapInv' /\ heap'["entry"] = heap["entry"]
<1>1. /\ heap' \in [Kinds -> Int]
      /\ \A k \in Kinds : heap'[k] = heap[k] + (by * Bit(k \in kinds))
  BY ChangedCount DEF HeapInv, Balanced
<1>2. Bit("entry" \in kinds) = 0 /\ Bit("name" \in kinds) = 0 /\ Bit("stat" \in kinds) = 0
  BY DEF Bit, Balanced
<1>3. /\ heap'["handle"] = heap["handle"] + (by * Bit("handle" \in kinds))
      /\ heap'["file_io_handle"] = heap["file_io_handle"] + (by * Bit("file_io_handle" \in kinds))
      /\ heap'["fuse"] = heap["fuse"] + (by * Bit("fuse" \in kinds))
      /\ heap'["volume"] = heap["volume"] + (by * Bit("volume" \in kinds))
      /\ heap'["file_system"] = heap["file_system"] + (by * Bit("file_system" \in kinds))
      /\ heap'["entry"] = heap["entry"] + (by * 0)
      /\ heap'["name"] = heap["name"] + (by * 0)
      /\ heap'["stat"] = heap["stat"] + (by * 0)
  BY <1>1, <1>2 DEF Kinds
<1>4. heap["entry"] \in Int /\ heap["name"] \in Int /\ heap["stat"] \in Int
  BY DEF HeapInv, Kinds
<1>5. /\ heap'["entry"] = heap["entry"] /\ heap'["name"] = heap["name"]
      /\ heap'["stat"] = heap["stat"]
  BY <1>3, <1>4
<1> QED BY <1>1, <1>3, <1>5 DEF HeapInv, Balanced

LEMMA HeapStays ==
    ASSUME HeapInv, UNCHANGED <<tool, call, heap, held, volumes_array, lost>>
    PROVE  HeapInv' /\ heap'["entry"] = heap["entry"]
BY DEF HeapInv

MainInv == PlacesInv /\ HeldInv /\ HeapInv /\ LostInv

MainUnchanged == UNCHANGED <<tool, driver, call>>

USE DEF Goto, MayFail

\* Nothing is lost before a handle is freed.
LEMMA LostStays ==
    ASSUME LostInv, pc \notin Freed, lost' = lost
    PROVE  lost = 0 /\ LostInv'
BY DEF LostInv

\* The steps that change no object of main.
LEMMA QuietSteps ==
    ASSUME PlacesInv, HeldInv, UNCHANGED <<tool, driver, volumes_array, held>>,
           \/ tool = "mount" /\ \/ SetKey("set_offset") \/ SetOffset("set_password")
                                \/ SetPassword("set_path_prefix") \/ SetPathPrefix
                                \/ Unmount
           \/ tool = "info" /\ \/ InfoSetKey \/ InfoSetPassword \/ InfoSetVolumeOffset
                               \/ InfoOpened \/ InfoVolumeFprint
           \/ OpenSetKey \/ OpenSetPassword \/ OpenLibrary \/ OpenAsks \/ Prompt
           \/ OpenPrompted \/ OpenUnlock \/ OpenStepFails
    PROVE  PlacesInv' /\ HeldInv'
<1> USE DEF PlacesInv, HeldInv, InfoPlaces, UnmountedPlaces, MountedPlaces,
            OpenPlaces, HandleOnly, RangeOpened, VolumeMade, FuseMounted
<1>1. CASE tool = "mount" /\ \/ SetKey("set_offset") \/ SetOffset("set_password")
                             \/ SetPassword("set_path_prefix") \/ SetPathPrefix
  BY <1>1 DEF SetKey, SetOffset, SetPassword, SetPathPrefix
<1>2. CASE tool = "mount" /\ Unmount
  BY <1>2 DEF Unmount
<1>3. CASE tool = "info" /\ \/ InfoSetKey \/ InfoSetPassword \/ InfoSetVolumeOffset
                            \/ InfoOpened \/ InfoVolumeFprint
  BY <1>3 DEF InfoSetKey, InfoSetPassword, InfoSetVolumeOffset, InfoOpened,
              InfoVolumeFprint, SetKey, SetOffset, SetPassword
<1>4. CASE OpenSetKey \/ OpenSetPassword \/ OpenLibrary
  BY <1>4 DEF OpenSetKey, OpenSetPassword, OpenLibrary
<1>5. CASE OpenAsks \/ Prompt \/ OpenPrompted \/ OpenUnlock
  BY <1>5 DEF OpenAsks, Prompt, OpenPrompted, OpenUnlock
<1>6. CASE OpenStepFails
  BY <1>6 DEF OpenStepFails
<1> QED BY <1>1, <1>2, <1>3, <1>4, <1>5, <1>6

\* The steps of opening that make or free objects.
LEMMA OpenStepsKeep ==
    ASSUME MainInv, MainUnchanged, UNCHANGED <<volumes_array, lost>>,
           OpenRange \/ OpenVolume \/ OpenFails
    PROVE  MainInv' /\ heap'["entry"] = heap["entry"]
<1> USE DEF MainInv, MainUnchanged, HandleOnly, RangeOpened, VolumeMade, FuseMounted
<1>0. volumes_array \in 0 .. 1 /\ lost = 0 /\ LostInv'
  BY LostStays DEF PlacesInv, Freed, OpenRange, OpenVolume, OpenFails
<1>1. CASE OpenRange
  <2>1. /\ pc = "open_range" /\ pc' \in {"open_volume", "open_failed"}
        /\ held = {"handle"} /\ held' = {"handle", "file_io_handle"}
        /\ heap' = Changed({"file_io_handle"}, 1)
    BY <1>1 DEF OpenRange, New, HeldInv, OpenPlaces
  <2>2. PlacesInv' /\ HeldInv'
    BY <2>1 DEF PlacesInv, HeldInv, InfoPlaces, UnmountedPlaces, MountedPlaces,
                OpenPlaces
  <2>3. Balanced({"file_io_handle"}, 1)
    BY <1>0, <2>1 DEF Balanced, Bit
  <2> QED BY <1>0, <2>2, <2>3, HeapKept
<1>2. CASE OpenVolume
  <2>1. /\ pc = "open_volume" /\ pc' = "open_key"
        /\ held = {"handle", "file_io_handle"}
        /\ held' = {"handle", "file_io_handle", "volume"}
        /\ heap' = Changed({"volume"}, 1)
    BY <1>2 DEF OpenVolume, New, HeldInv, OpenPlaces
  <2>2. PlacesInv' /\ HeldInv'
    BY <2>1 DEF PlacesInv, HeldInv, InfoPlaces, UnmountedPlaces, MountedPlaces,
                OpenPlaces
  <2>3. Balanced({"volume"}, 1)
    BY <1>0, <2>1 DEF Balanced, Bit
  <2> QED BY <1>0, <2>2, <2>3, HeapKept
<1>3. CASE OpenFails
  <2>1. /\ pc = "open_failed" /\ pc' = "on_error"
        /\ held \in {{"handle"}, {"handle", "file_io_handle"},
                    {"handle", "file_io_handle", "volume"}}
        /\ held' = {"handle"}
        /\ heap' = Changed(held \cap {"volume", "file_io_handle"}, -1)
    BY <1>3 DEF OpenFails, FreeHeld, HeldInv, OpenPlaces
  <2>2. PlacesInv' /\ HeldInv'
    BY <2>1 DEF PlacesInv, HeldInv, InfoPlaces, UnmountedPlaces, MountedPlaces,
                OpenPlaces
  <2>3. Balanced(held \cap {"volume", "file_io_handle"}, -1)
    BY <1>0, <2>1 DEF Balanced, Bit
  <2> QED BY <1>0, <2>2, <2>3, HeapKept
<1> QED BY <1>1, <1>2, <1>3

\* What mount_handle_free frees of a handle with a range: the range when it can
\* be closed.
FreedKinds == {{"handle", "file_system"}, {"handle", "file_io_handle", "file_system"}}

LEMMA HandleIsFreed ==
    ASSUME NEW others, MountHandleFree(others), volumes_array \in 0 .. 1, lost = 0,
           {"handle", "file_io_handle"} \subseteq held
    PROVE  \E kinds \in FreedKinds :
               /\ heap' = Changed(kinds \cup others, -1)
               /\ lost' = Bit("file_io_handle" \notin kinds)
<1>1. PICK closes \in {TRUE, FALSE} :
          /\ heap' = Changed(HandleFreed(closes) \cup others, -1)
          /\ lost' = lost + (IF ~ closes /\ {"handle", "file_io_handle"} \subseteq held
                             THEN 1 ELSE 0)
  <2>1. {TRUE} \cup (IF ToolFaults THEN {FALSE} ELSE {}) \subseteq {TRUE, FALSE}
    OBVIOUS
  <2> QED BY <2>1 DEF MountHandleFree
<1>2. HandleFreed(closes) = {"handle", "file_system"}
                               \cup (IF closes THEN {"file_io_handle"} ELSE {})
  BY DEF HandleFreed, HandleClosed, FileSystemFreed
<1>3. /\ HandleFreed(closes) \in FreedKinds
      /\ closes <=> "file_io_handle" \in HandleFreed(closes)
  BY <1>2 DEF FreedKinds
<1>4. lost' = IF closes THEN 0 ELSE 1
  BY <1>1
<1> QED BY <1>1, <1>3, <1>4 DEF Bit

\* What the mount allocates and frees besides: the volume that is mounted is
\* counted there, and the handle has one owner, the callback or main.
LEMMA MountStepsKeep ==
    ASSUME MainInv, MainUnchanged, tool = "mount",
           \/ /\ Initialize \/ FuseNew \/ MountSucceeds
              /\ UNCHANGED <<volumes_array, lost>>
           \/ MountFrees /\ UNCHANGED volumes_array
           \/ OpenAppend /\ UNCHANGED lost
    PROVE  MainInv' /\ heap'["entry"] = heap["entry"]
<1> USE DEF MainInv, MainUnchanged, HandleOnly, RangeOpened, VolumeMade, FuseMounted
<1>0. volumes_array \in 0 .. 1 /\ lost \in 0 .. 1
  BY DEF PlacesInv, LostInv
<1>11. CASE /\ UNCHANGED <<heap, held, volumes_array, lost>>
            /\ OpenAppend \/ Initialize \/ FuseNew \/ FuseFails
  <2>1. /\ held' = held /\ volumes_array' = volumes_array
        /\ \/ pc = "open_done" /\ pc' = "open_failed"
           \/ pc = "initialize" /\ pc' = "on_error"
           \/ pc = "fuse_mount" /\ pc' = "on_error"
           \/ pc = "on_error" /\ pc' = "destroyed_on_error" /\ "fuse" \in held
    <3>1. CASE OpenAppend
      BY <1>0, <1>11, <3>1 DEF OpenAppend
    <3>2. CASE Initialize
      BY <1>11, <3>2 DEF Initialize, HeldInv
    <3>3. CASE FuseNew
      BY <1>11, <3>3 DEF FuseNew, New, HeldInv
    <3>4. CASE FuseFails
      BY <1>11, <3>4 DEF FuseFails
    <3> QED BY <1>11, <3>1, <3>2, <3>3, <3>4
  <2>2. PlacesInv' /\ HeldInv'
    BY <1>0, <2>1 DEF PlacesInv, HeldInv, InfoPlaces, UnmountedPlaces, MountedPlaces,
                OpenPlaces
  <2>3. LostInv'
    BY <1>11, <2>1, LostStays DEF Freed
  <2> QED BY <1>11, <2>2, <2>3, HeapStays
<1>1. CASE UNCHANGED <<volumes_array, lost>> /\ Initialize /\ ~ UNCHANGED <<heap, held>>
  <2>1. /\ pc = "initialize" /\ pc' = "set_key"
        /\ held = {} /\ held' = {"handle"} /\ UNCHANGED volumes_array
        /\ heap' = Changed({"handle", "file_system"}, 1)
    BY <1>1 DEF Initialize, HeldInv, OpenPlaces
  <2>2. PlacesInv' /\ HeldInv'
    BY <2>1 DEF PlacesInv, HeldInv, InfoPlaces, UnmountedPlaces, MountedPlaces,
                OpenPlaces
  <2>3. Balanced({"handle", "file_system"}, 1)
    BY <1>0, <1>1, <2>1 DEF Balanced, Bit
  <2>4. LostInv'
    BY <1>1, <2>1, LostStays DEF Freed
  <2> QED BY <2>2, <2>3, <2>4, HeapKept
<1>2. CASE OpenAppend /\ lost' = lost /\ ~ UNCHANGED <<held, volumes_array>>
  <2>1. /\ pc = "open_done" /\ held = {"handle", "file_io_handle", "volume"}
        /\ pc' = IF driver = "fuse" THEN "fuse_mount" ELSE "loop"
        /\ held' = {"handle", "file_io_handle"} /\ heap' = heap
        /\ volumes_array = 0 /\ volumes_array' = 1
    BY <1>2 DEF OpenAppend, HeldInv, PlacesInv, UnmountedPlaces
  <2>2. PlacesInv' /\ HeldInv'
    BY <2>1 DEF PlacesInv, HeldInv, InfoPlaces, UnmountedPlaces, MountedPlaces,
                OpenPlaces
  <2>3. HeapInv' /\ heap'["entry"] = heap["entry"]
    BY <1>2, <2>1 DEF HeapInv, Bit
  <2>4. LostInv'
    BY <1>2, <2>1, LostStays DEF Freed
  <2> QED BY <2>2, <2>3, <2>4
<1>3. CASE UNCHANGED <<volumes_array, lost>> /\ FuseNew /\ ~ UNCHANGED <<heap, held>>
  <2>1. /\ pc = "fuse_mount" /\ pc' \in {"loop", "on_error"}
        /\ held = {"handle", "file_io_handle"} /\ UNCHANGED volumes_array
        /\ held' = {"handle", "file_io_handle", "fuse"}
        /\ driver = "fuse"
        /\ heap' = Changed({"fuse"}, 1)
    BY <1>3 DEF FuseNew, New, HeldInv, PlacesInv, MountedPlaces
  <2>2. PlacesInv' /\ HeldInv'
    BY <2>1 DEF PlacesInv, HeldInv, InfoPlaces, UnmountedPlaces, MountedPlaces,
                OpenPlaces
  <2>3. Balanced({"fuse"}, 1)
    BY <1>0, <1>3, <2>1 DEF Balanced, Bit
  <2>4. LostInv'
    BY <1>3, <2>1, LostStays DEF Freed
  <2> QED BY <2>2, <2>3, <2>4, HeapKept
<1>4. CASE UNCHANGED volumes_array /\ FuseReturns
  <2>1. /\ pc = "unmounted" /\ pc' = "destroyed"
        /\ held = {"handle", "file_io_handle", "fuse"}
        /\ held' = {"fuse"} /\ UNCHANGED volumes_array
        /\ driver = "fuse" /\ volumes_array = 1
        /\ MountHandleFree({})
    BY <1>4 DEF FuseReturns, FuseDestroy, HeldInv, PlacesInv, MountedPlaces
  <2>2. PlacesInv' /\ HeldInv'
    BY <2>1 DEF PlacesInv, HeldInv, InfoPlaces, UnmountedPlaces, MountedPlaces,
                OpenPlaces
  <2>3. lost = 0
    BY <2>1 DEF LostInv, Freed
  <2>4. PICK kinds \in FreedKinds :
            heap' = Changed(kinds, -1) /\ lost' = Bit("file_io_handle" \notin kinds)
    BY <2>1, <2>3, HandleIsFreed
  <2>5. Balanced(kinds, -1) /\ LostInv'
    BY <1>0, <2>1, <2>3, <2>4 DEF Balanced, Bit, LostInv, Freed, FreedKinds
  <2> QED BY <2>2, <2>5, HeapKept
<1>5. CASE UNCHANGED volumes_array /\ FuseFails /\ ~ UNCHANGED <<heap, held, lost>>
  <2>1. /\ pc = "on_error" /\ pc' = "destroyed_on_error"
        /\ held = {"handle", "file_io_handle", "fuse"} /\ held' = {"fuse"}
        /\ driver = "fuse" /\ volumes_array = 1 /\ UNCHANGED volumes_array
        /\ MountHandleFree({})
    BY <1>5 DEF FuseFails, FuseDestroy, HeldInv, PlacesInv
  <2>2. PlacesInv' /\ HeldInv'
    BY <2>1 DEF PlacesInv, HeldInv, InfoPlaces, UnmountedPlaces, MountedPlaces,
                OpenPlaces
  <2>3. lost = 0
    BY <2>1 DEF LostInv, Freed
  <2>4. PICK kinds \in FreedKinds :
            heap' = Changed(kinds, -1) /\ lost' = Bit("file_io_handle" \notin kinds)
    BY <2>1, <2>3, HandleIsFreed
  <2>5. Balanced(kinds, -1) /\ LostInv'
    BY <1>0, <2>1, <2>3, <2>4 DEF Balanced, Bit, LostInv, Freed, FreedKinds
  <2> QED BY <2>2, <2>5, HeapKept
<1>6. CASE UNCHANGED volumes_array /\ MountReturns
  <2>1. /\ pc \in {"on_error", "destroyed_on_error"} /\ pc' = "returned"
        /\ held \in {{}, {"handle"}, {"handle", "file_io_handle"}, {"fuse"},
                    {"handle", "file_io_handle", "fuse"}}
        /\ held' = {} /\ UNCHANGED volumes_array
        /\ MountHandleFree(held \cap {"fuse"})
    BY <1>6 DEF MountReturns, HeldInv
  <2>2. PlacesInv' /\ HeldInv'
    BY <2>1 DEF PlacesInv, HeldInv, InfoPlaces, UnmountedPlaces, MountedPlaces,
                OpenPlaces
  <2>3. CASE "file_io_handle" \in held
    <3>1. {"handle", "file_io_handle"} \subseteq held /\ lost = 0
      BY <2>1, <2>3 DEF LostInv
    <3>2. volumes_array = 1
      BY <2>1, <2>3 DEF PlacesInv, MountedPlaces
    <3>3. PICK kinds \in FreedKinds :
              /\ heap' = Changed(kinds \cup (held \cap {"fuse"}), -1)
              /\ lost' = Bit("file_io_handle" \notin kinds)
      BY <1>0, <2>1, <3>1, HandleIsFreed
    <3>4. Balanced(kinds \cup (held \cap {"fuse"}), -1) /\ LostInv'
      BY <1>0, <2>1, <3>1, <3>2, <3>3 DEF Balanced, Bit, LostInv, Freed, FreedKinds
    <3> QED BY <2>2, <3>4, HeapKept
  <2>4. CASE "file_io_handle" \notin held
    <3> DEFINE kinds == held \cup (IF "handle" \in held THEN {"file_system"} ELSE {})
    <3>1. heap' = Changed(kinds, -1) /\ lost' = lost
      <4>1. PICK closes \in BOOLEAN :
                heap' = Changed(HandleFreed(closes) \cup (held \cap {"fuse"}), -1)
        BY <2>1 DEF MountHandleFree
      <4>2. HandleFreed(closes) \cup (held \cap {"fuse"}) = kinds
        BY <1>0, <2>1, <2>4 DEF HandleFreed, HandleClosed, FileSystemFreed
      <4>3. lost' = lost
        BY <1>0, <2>1, <2>4 DEF MountHandleFree
      <4> QED BY <4>1, <4>2, <4>3
    <3>2. Balanced(kinds, -1) /\ LostInv'
      BY <1>0, <2>1, <2>4, <3>1 DEF Balanced, Bit, LostInv, Freed
    <3> QED BY <2>2, <3>1, <3>2, HeapKept
  <2> QED BY <2>3, <2>4
<1>7. CASE UNCHANGED <<volumes_array, lost>> /\ MountSucceeds
  <2>1. /\ pc \in {"destroyed", "unmounted_dokan"} /\ pc' = "returned"
        /\ pc = "destroyed" => held = {"fuse"} /\ held' = {}
        /\ pc = "unmounted_dokan" =>
               /\ held = {"handle", "file_io_handle"} /\ held' = held
               /\ driver # "fuse"
        /\ UNCHANGED volumes_array /\ volumes_array = 1
        /\ heap' = Changed(held \cap {"fuse"}, -1)
    BY <1>7 DEF MountSucceeds, HeldInv, PlacesInv, MountedPlaces
  <2>2. PlacesInv' /\ HeldInv'
    BY <2>1 DEF PlacesInv, HeldInv, InfoPlaces, UnmountedPlaces, MountedPlaces,
                OpenPlaces
  <2>3. Balanced(held \cap {"fuse"}, -1)
    BY <1>0, <1>7, <2>1 DEF Balanced, Bit
  <2>4. LostInv'
    BY <1>7, <2>1 DEF LostInv, Freed
  <2> QED BY <2>2, <2>3, <2>4, HeapKept
<1> QED BY <1>1, <1>2, <1>3, <1>4, <1>5, <1>6, <1>7, <1>11 DEF OpenAppend, MountFrees

\* What luksdeinfo allocates and frees besides.
LEMMA InfoStepsKeep ==
    ASSUME MainInv, MainUnchanged, UNCHANGED <<volumes_array, lost>>, tool = "info",
           InfoInitialize \/ InfoClose \/ InfoFree
    PROVE  MainInv' /\ heap'["entry"] = heap["entry"]
<1> USE DEF MainInv, MainUnchanged, HandleOnly, RangeOpened, VolumeMade, FuseMounted
<1>0. volumes_array \in 0 .. 1 /\ lost = 0 /\ LostInv'
  BY DEF PlacesInv, LostInv
<1>11. CASE InfoInitialize /\ UNCHANGED <<heap, held>>
  <2>1. PlacesInv' /\ HeldInv'
    BY <1>11 DEF InfoInitialize, New, PlacesInv, HeldInv, InfoPlaces, UnmountedPlaces, MountedPlaces,
                OpenPlaces
  <2> QED BY <1>0, <1>11, <2>1, HeapStays
<1>1. CASE InfoInitialize /\ ~ UNCHANGED <<heap, held>>
  <2>1. /\ pc = "initialize" /\ pc' = "set_key"
        /\ held = {} /\ held' = {"handle"}
        /\ heap' = Changed({"handle"}, 1)
    BY <1>1 DEF InfoInitialize, New, HeldInv
  <2>2. PlacesInv' /\ HeldInv'
    BY <2>1 DEF PlacesInv, HeldInv, InfoPlaces, UnmountedPlaces, MountedPlaces,
                OpenPlaces
  <2>3. Balanced({"handle"}, 1)
    BY <1>0, <2>1 DEF Balanced, Bit
  <2> QED BY <1>0, <2>2, <2>3, HeapKept
<1>2. CASE InfoClose
  <2>1. /\ pc = "close" /\ pc' \in {"free", "on_error"}
        /\ held = {"handle", "file_io_handle", "volume"}
        /\ held' = {"handle"}
        /\ heap' = Changed({"file_io_handle", "volume"}, -1)
    BY <1>2 DEF InfoClose, FreeHeld, InfoClosed, HeldInv
  <2>2. PlacesInv' /\ HeldInv'
    BY <2>1 DEF PlacesInv, HeldInv, InfoPlaces, UnmountedPlaces, MountedPlaces,
                OpenPlaces
  <2>3. Balanced({"file_io_handle", "volume"}, -1)
    BY <1>0, <2>1 DEF Balanced, Bit
  <2> QED BY <1>0, <2>2, <2>3, HeapKept
<1>3. CASE InfoFree
  <2>1. /\ pc \in {"free", "on_error"} /\ pc' = "returned"
        /\ held \in {{}, {"handle"}, {"handle", "file_io_handle"},
                    {"handle", "file_io_handle", "volume"}}
        /\ held' = {}
        /\ heap' = Changed(held, -1)
    BY <1>3 DEF InfoFree, FreeHeld, InfoClosed, HeldInv
  <2>2. PlacesInv' /\ HeldInv'
    BY <2>1 DEF PlacesInv, HeldInv, InfoPlaces, UnmountedPlaces, MountedPlaces,
                OpenPlaces
  <2>3. Balanced(held, -1)
    BY <1>0, <2>1 DEF Balanced, Bit
  <2> QED BY <1>0, <2>2, <2>3, HeapKept
<1> QED BY <1>1, <1>2, <1>3, <1>11

\* A step of the program that is no callback's.
MainStep ==
    \/ tool = "mount" /\ MountStep /\ UNCHANGED mountVars
    \/ /\ tool = "mount" /\ MountFrees
       /\ UNCHANGED <<driver, volumes_array, fh, call, directories, leaked>>
    \/ /\ tool = "mount" /\ OpenAppend
       /\ UNCHANGED <<driver, fh, call, directories, leaked, lost>>
    \/ tool = "info" /\ InfoStep /\ UNCHANGED mountVars
    \/ FindKey /\ UNCHANGED mountVars
    \/ tool = "mount" /\ Unmount /\ UNCHANGED mountVars

LEMMA MainSteps ==
    ASSUME ToolsNext
    PROVE  MainStep \/ (tool = "mount" /\ (CallbackStep \/ Callback))
BY DEF ToolsNext, ProgramStep, MainStep

\* No step of main is taken while a callback runs.
LEMMA MainStepChanges ==
    ASSUME MainStep
    PROVE  /\ UNCHANGED <<tool, options, driver, fh, call, leaked>>
           /\ pc # "loop" \/ call.op = "none"
           /\ \/ volumes_array' = volumes_array
              \/ pc = "open_done" /\ volumes_array' = volumes_array + 1
           /\ pc' \in UnmountedPlaces => pc \in UnmountedPlaces \/ tool = "info"
<1>1. CASE tool = "mount" /\ MountStep /\ UNCHANGED mountVars
  <2>1. CASE OpenStep
    <3>1. /\ UNCHANGED <<tool, options>> /\ pc # "loop"
          /\ pc \in OpenPlaces \cup {"open_failed"}
      BY <2>1 DEF OpenStep, OpenRange, OpenVolume, OpenSetKey, OpenSetPassword,
             OpenLibrary, OpenAsks, Prompt, OpenPrompted, OpenUnlock,
             OpenStepFails, OpenFails, OpenUnchanged, OpenPlaces
    <3> QED BY <1>1, <3>1 DEF mountVars, UnmountedPlaces
  <2>2. CASE ~ OpenStep
    BY <1>1, <2>2
       DEF MountStep, Initialize, SetKey, SetOffset, SetPassword, SetPathPrefix,
           FuseNew, MountSucceeds, mountVars, UnmountedPlaces, OpenPlaces
  <2> QED BY <2>1, <2>2
<1>6. CASE /\ tool = "mount" /\ MountFrees
           /\ UNCHANGED <<driver, volumes_array, fh, call, directories, leaked>>
  BY <1>6 DEF MountFrees, FuseReturns, FuseFails, MountReturns, UnmountedPlaces,
              OpenPlaces
<1>2. CASE /\ tool = "mount" /\ OpenAppend
           /\ UNCHANGED <<driver, fh, call, directories, leaked, lost>>
  BY <1>2 DEF OpenAppend, OpenUnchanged, UnmountedPlaces
<1>3. CASE tool = "info" /\ InfoStep /\ UNCHANGED mountVars
  <2>1. CASE OpenStep
    <3>1. UNCHANGED <<tool, options>> /\ pc # "loop"
      BY <2>1 DEF OpenStep, OpenRange, OpenVolume, OpenSetKey, OpenSetPassword,
             OpenLibrary, OpenAsks, Prompt, OpenPrompted, OpenUnlock,
             OpenStepFails, OpenFails, OpenUnchanged, OpenPlaces
    <3> QED BY <1>3, <3>1 DEF mountVars
  <2>2. CASE ~ OpenStep
    BY <1>3, <2>2
       DEF InfoStep, InfoInitialize, InfoSetKey, InfoSetPassword,
           InfoSetVolumeOffset, InfoOpenRange, InfoOpenVolume, InfoOpenPrompt,
           InfoOpenFails, InfoOpened, InfoVolumeFprint, InfoClose, InfoFree,
           SetKey, SetOffset, SetPassword, OpenStep, OpenUnchanged, mountVars
  <2> QED BY <2>1, <2>2
<1>4. CASE FindKey /\ UNCHANGED mountVars
  BY <1>4 DEF FindKey, OpenUnchanged, mountVars
<1>5. CASE tool = "mount" /\ Unmount /\ UNCHANGED mountVars
  BY <1>5 DEF Unmount, mountVars, UnmountedPlaces, OpenPlaces
<1> QED BY <1>1, <1>2, <1>3, <1>4, <1>5, <1>6 DEF MainStep

LEMMA MainStepKeeps ==
    ASSUME MainInv, MainStep
    PROVE  MainInv' /\ heap'["entry"] = heap["entry"]
<1>1. MainUnchanged
  BY MainStepChanges DEF MainUnchanged
<1>2. ASSUME UNCHANGED <<tool, driver, volumes_array, held, heap, call, lost>>,
             PlacesInv' /\ HeldInv', pc \in Freed => pc' = pc
      PROVE  MainInv' /\ heap'["entry"] = heap["entry"]
  BY <1>2, HeapStays DEF MainInv, LostInv
<1>3. CASE /\ UNCHANGED <<volumes_array, lost>>
           /\ \/ OpenSetKey \/ OpenSetPassword \/ OpenLibrary \/ OpenAsks \/ Prompt
              \/ OpenPrompted \/ OpenUnlock \/ OpenStepFails
  <2>1. UNCHANGED <<held, heap>> /\ pc \notin Freed
    BY <1>3 DEF OpenSetKey, OpenSetPassword, OpenLibrary, OpenAsks, Prompt,
           OpenPrompted, OpenUnlock, OpenStepFails, OpenPlaces, Freed
  <2>2. PlacesInv' /\ HeldInv'
    BY <1>1, <1>3, <2>1, QuietSteps DEF MainInv, MainUnchanged
  <2> QED BY <1>1, <1>2, <1>3, <2>1, <2>2 DEF MainUnchanged
<1>4. CASE UNCHANGED <<volumes_array, lost>> /\ (OpenRange \/ OpenVolume \/ OpenFails)
  BY <1>1, <1>4, OpenStepsKeep
<1>5. CASE tool = "mount" /\ MountStep /\ UNCHANGED mountVars
  <2>0. UNCHANGED <<volumes_array, lost>>
    BY <1>5 DEF mountVars
  <2>1. CASE \/ SetKey("set_offset") \/ SetOffset("set_password")
             \/ SetPassword("set_path_prefix") \/ SetPathPrefix
    <3>1. UNCHANGED <<held, heap>> /\ pc \notin Freed
      BY <2>1 DEF SetKey, SetOffset, SetPassword, SetPathPrefix, Freed
    <3>2. PlacesInv' /\ HeldInv'
      BY <1>1, <1>5, <2>0, <2>1, <3>1, QuietSteps DEF MainInv, MainUnchanged
    <3> QED BY <1>1, <1>2, <2>0, <3>1, <3>2 DEF MainUnchanged
  <2>2. CASE Initialize \/ FuseNew \/ MountSucceeds
    BY <1>1, <1>5, <2>0, <2>2, MountStepsKeep
  <2> QED BY <1>3, <1>4, <1>5, <2>0, <2>1, <2>2 DEF MountStep, OpenStep
<1>6. CASE \/ tool = "mount" /\ MountFrees /\ UNCHANGED volumes_array
           \/ tool = "mount" /\ OpenAppend /\ UNCHANGED lost
  BY <1>1, <1>6, MountStepsKeep
<1>7. CASE tool = "info" /\ InfoStep /\ UNCHANGED mountVars
  <2>0. UNCHANGED <<volumes_array, lost>>
    BY <1>7 DEF mountVars
  <2>1. CASE \/ InfoSetKey \/ InfoSetPassword \/ InfoSetVolumeOffset
             \/ InfoOpened \/ InfoVolumeFprint
    <3>1. UNCHANGED <<held, heap>> /\ pc \notin Freed
      BY <2>1 DEF InfoSetKey, InfoSetPassword, InfoSetVolumeOffset, InfoOpened,
             InfoVolumeFprint, SetKey, SetOffset, SetPassword, Freed
    <3>2. PlacesInv' /\ HeldInv'
      BY <1>1, <1>7, <2>0, <2>1, <3>1, QuietSteps DEF MainInv, MainUnchanged
    <3> QED BY <1>1, <1>2, <2>0, <3>1, <3>2 DEF MainUnchanged
  <2>2. CASE InfoInitialize \/ InfoClose \/ InfoFree
    BY <1>1, <1>7, <2>0, <2>2, InfoStepsKeep
  <2> QED BY <1>3, <1>4, <1>7, <2>0, <2>1, <2>2
          DEF InfoStep, InfoOpenRange, InfoOpenVolume, InfoOpenPrompt, InfoOpenFails
<1>8. CASE FindKey /\ UNCHANGED mountVars
  <2>1. UNCHANGED <<pc, held, heap, volumes_array, lost>>
    BY <1>8 DEF FindKey, mountVars
  <2>2. PlacesInv' /\ HeldInv'
    BY <1>1, <2>1 DEF MainInv, MainUnchanged, PlacesInv, HeldInv
  <2> QED BY <1>1, <1>2, <2>1, <2>2 DEF MainUnchanged
<1>9. CASE tool = "mount" /\ Unmount /\ UNCHANGED mountVars
  <2>1. UNCHANGED <<held, heap, volumes_array, lost>> /\ pc \notin Freed
    BY <1>9 DEF Unmount, mountVars, Freed
  <2>2. PlacesInv' /\ HeldInv'
    BY <1>1, <1>9, <2>1, QuietSteps DEF MainInv, MainUnchanged
  <2> QED BY <1>1, <1>2, <2>1, <2>2 DEF MainUnchanged
<1> QED BY <1>5, <1>6, <1>7, <1>8, <1>9 DEF MainStep

\* What main does leaves the callbacks and the open files as they are.
LEMMA MainStepKeepsCalls ==
    ASSUME PlacesInv, CallInv, FilesInv, MainStep, heap'["entry"] = heap["entry"]
    PROVE  CallInv' /\ FilesInv'
<1>1. /\ UNCHANGED <<tool, options, driver, fh, call, leaked>>
      /\ pc # "loop" \/ call.op = "none"
      /\ \/ volumes_array' = volumes_array
         \/ pc = "open_done" /\ volumes_array' = volumes_array + 1
      /\ pc' \in UnmountedPlaces => pc \in UnmountedPlaces \/ tool = "info"
  BY MainStepChanges
<1>2. call.op = "none" /\ call.pointers = {}
  BY <1>1 DEF CallInv, PointersInv
<1>3. volumes_array' = volumes_array \/ call = NoCall
  BY <1>1 DEF CallInv, UnmountedPlaces
<1>4. call \in CallRecord /\ (pc' \in UnmountedPlaces \/ tool' = "info" => call = NoCall)
  BY <1>1 DEF CallInv
<1>5. PointersInv'
  BY <1>1, <1>2 DEF PointersInv, DirectoryOps
<1>6. ListingInv'
  <2>1. CASE volumes_array' = volumes_array
    BY <1>1, <1>2, <2>1 DEF CallInv, ListingInv, DirectoryOps
  <2>2. CASE call = NoCall
    <3>1. call.answer = "none"
      BY <2>2 DEF NoCall
    <3> QED BY <1>1, <1>2, <3>1 DEF ListingInv, DirectoryOps
  <2> QED BY <1>3, <2>1, <2>2
<1>7. CallInv'
  BY <1>1, <1>4, <1>5, <1>6 DEF CallInv, CallRecord
<1>8. /\ fh' = fh /\ OpenFiles' = OpenFiles /\ leaked' = leaked
      /\ \A f \in Files : OpenFile(f) => OpenFile(f)'
  <2>1. 0 .. volumes_array \subseteq 0 .. volumes_array'
    BY <1>1 DEF PlacesInv
  <2> QED BY <1>1, <2>1 DEF OpenFiles, OpenFile
<1>9. EntriesAreAccountedFor'
  BY <1>1 DEF FilesInv, EntriesAreAccountedFor
<1>10. FilesInv'
  BY <1>8, <1>9 DEF FilesInv
<1> QED BY <1>7, <1>10

\* The offset stays what the option says once it was set.
LEMMA OffsetKept ==
    ASSUME SuppliedInv, OffsetInv, [ToolsNext]_toolsVars
    PROVE  OffsetInv'
<1> DEFINE read == ToSigned(DecimalValue(options.offset))
           bounds == -(WordSize \div 2) .. (WordSize \div 2) - 1
<1>1. read \in bounds /\ 0 \in bounds
  <2>1. read \in bounds
    BY OffsetIsRead DEF OffsetInv
  <2>2. WordSize \div 2 \in Nat \ {0}
    BY WordAssumption
  <2> QED BY <2>1, <2>2
<1>2. ASSUME UNCHANGED <<tool, options>>, settings'.offset = settings.offset,
             pc' \in OffsetSet => pc \in OffsetSet
      PROVE  OffsetInv'
  BY <1>2 DEF OffsetInv, OffsetSet
<1>3. ASSUME UNCHANGED options, settings'.offset = read
      PROVE  OffsetInv'
  BY <1>1, <1>3 DEF OffsetInv
<1>4. CASE \E next \in {"set_password", "open_range"} : SetOffset(next)
  <2>1. PICK next \in {"set_password", "open_range"} : SetOffset(next)
    BY <1>4
  <2>2. UNCHANGED <<tool, options>>
    BY <2>1 DEF SetOffset
  <2>3. CASE settings' = [settings EXCEPT !.offset = read]
    <3>1. settings'.offset = read
      BY <2>3 DEF SuppliedInv
    <3> QED BY <1>3, <2>2, <3>1
  <2>4. CASE UNCHANGED settings /\ pc' = "on_error"
    BY <1>2, <2>2, <2>4 DEF OffsetSet, OpenPlaces
  <2> QED BY <2>1, <2>3, <2>4 DEF SetOffset
<1>5. CASE \/ tool = "mount" /\ (SetKey("set_offset") \/ SetPassword("set_path_prefix"))
           \/ tool = "info" /\ (SetKey("set_password") \/ SetPassword("set_offset"))
  <2>1. /\ UNCHANGED <<tool, options>> /\ settings'.offset = settings.offset
        /\ pc' \in OffsetSet => pc \in OffsetSet
    BY <1>5 DEF SetKey, SetPassword, SuppliedInv, OffsetSet, OpenPlaces
  <2> QED BY <1>2, <2>1
<1>6. CASE OpenStep
  <2>1. UNCHANGED <<tool, options, settings>> /\ (pc' \in OffsetSet => pc \in OffsetSet)
    BY <1>6 DEF OpenStep, OpenRange, OpenVolume, OpenSetKey, OpenSetPassword,
           OpenLibrary, OpenAsks, Prompt, OpenPrompted, OpenUnlock,
           OpenStepFails, OpenFails, OpenUnchanged, OpenPlaces, OffsetSet
  <2> QED BY <1>2, <2>1
<1>7. CASE MountReturns \/ InfoFree
  <2>1. UNCHANGED <<tool, options>> /\ settings'.offset = 0 /\ pc' = "returned"
    BY <1>7 DEF MountReturns, InfoFree, NoSettings
  <2> QED BY <1>1, <2>1 DEF OffsetInv, OffsetSet, OpenPlaces
<1>8. CASE \/ Initialize \/ FuseNew \/ FuseReturns \/ FuseFails \/ MountSucceeds
           \/ OpenAppend \/ Unmount \/ InfoInitialize \/ InfoOpened
           \/ InfoVolumeFprint \/ InfoClose \/ FindKey
           \/ tool = "mount" /\ SetPathPrefix
  <2>1. UNCHANGED <<tool, options, settings>> /\ (pc' \in OffsetSet => pc \in OffsetSet)
    BY <1>8 DEF Initialize, FuseNew, FuseReturns, FuseFails, MountSucceeds,
           OpenAppend, Unmount, InfoInitialize, InfoOpened, InfoVolumeFprint,
           InfoClose, FindKey, SetPathPrefix, OpenUnchanged, OpenPlaces, OffsetSet
  <2> QED BY <1>2, <2>1
<1>9. CASE CallbackStep \/ Callback
  <2>1. UNCHANGED <<tool, options, settings, pc>>
    BY <1>9, CallbacksKeep DEF callUnchanged
  <2> QED BY <1>2, <2>1 DEF OffsetSet
<1>10. CASE UNCHANGED toolsVars
  BY <1>2, <1>10 DEF toolsVars, toolVars, OffsetSet
<1> QED BY <1>4, <1>5, <1>6, <1>7, <1>8, <1>9, <1>10
        DEF ToolsNext, ProgramStep, MountStep, MountFrees, InfoStep, OpenStep, InfoSetKey,
            InfoSetPassword, InfoSetVolumeOffset, InfoOpenRange, InfoOpenVolume,
            InfoOpenPrompt, InfoOpenFails

-----------------------------------------------------------------------------
(* The callbacks                                                           *)

Entries(pointers) ==
    Bit("file_entry" \in pointers) + Bit("parent" \in pointers) + Bit("sub" \in pointers)

LEMMA BitIsNumber == \A P \in BOOLEAN : Bit(P) \in {0, 1}
BY DEF Bit

LEMMA EntriesAreNumber ==
    ASSUME NEW pointers
    PROVE  Entries(pointers) \in 0 .. 3
<1>1. /\ Bit("file_entry" \in pointers) \in {0, 1}
      /\ Bit("parent" \in pointers) \in {0, 1}
      /\ Bit("sub" \in pointers) \in {0, 1}
  BY DEF Bit
<1> QED BY <1>1 DEF Entries

\* The account of entries, in terms of the pointers one by one.
LEMMA EntriesCount ==
    ASSUME call.pointers \in SUBSET LocalPointers
    PROVE  EntriesAreAccountedFor <=>
               heap["entry"] = Cardinality(OpenFiles) + Entries(call.pointers) + leaked
<1>1. Cardinality({p \in call.pointers : KindOf(p) = "entry"}) = Entries(call.pointers)
  BY PointersOfKinds DEF Count, PointersTo, Entries
<1> QED BY <1>1 DEF EntriesAreAccountedFor, OpenFiles

LEMMA EntriesCountNext ==
    ASSUME (call.pointers \in SUBSET LocalPointers)'
    PROVE  EntriesAreAccountedFor' <=>
               heap'["entry"] = Cardinality(OpenFiles') + Entries(call'.pointers) + leaked'
<1>1. Cardinality({p \in call'.pointers : KindOf(p) = "entry"}) = Entries(call'.pointers)
  BY PointersOfKinds DEF Count, PointersTo, Entries
<1> QED BY <1>1 DEF EntriesAreAccountedFor, OpenFiles

\* What a callback goes by: the program, its objects, itself and the files.
CallbackInv == PlacesInv /\ HeldInv /\ HeapInv /\ CallInv /\ FilesInv

\* A callback allocates what its pointers are set to, and frees what they lose.
LEMMA PointersChange ==
    ASSUME HeapInv, call.pointers \in SUBSET LocalPointers, leaked \in Nat,
           IsFiniteSet(OpenFiles), EntriesAreAccountedFor,
           callUnchanged, UNCHANGED <<fh, leaked>>,
           NEW pointers \in SUBSET LocalPointers,
           \/ /\ heap' = Locals(pointers, 1)
              /\ pointers \cap call.pointers = {}
              /\ call'.pointers = call.pointers \cup pointers
           \/ /\ heap' = Locals(pointers, -1)
              /\ pointers \subseteq call.pointers
              /\ call'.pointers = call.pointers \ pointers
    PROVE  HeapInv' /\ EntriesAreAccountedFor'
<1>1. PICK by \in {1, -1} :
        /\ heap' = Locals(pointers, by)
        /\ \A p \in LocalPointers :
              Bit(p \in call'.pointers) = Bit(p \in call.pointers) + (by * Bit(p \in pointers))
  <2>1. CASE /\ heap' = Locals(pointers, 1)
             /\ pointers \cap call.pointers = {}
             /\ call'.pointers = call.pointers \cup pointers
    <3>1. \A p \in LocalPointers :
             Bit(p \in call'.pointers) = Bit(p \in call.pointers) + (1 * Bit(p \in pointers))
      BY <2>1 DEF Bit
    <3> QED BY <2>1, <3>1
  <2>2. CASE /\ heap' = Locals(pointers, -1)
             /\ pointers \subseteq call.pointers
             /\ call'.pointers = call.pointers \ pointers
    <3>1. \A p \in LocalPointers :
             Bit(p \in call'.pointers) = Bit(p \in call.pointers) + ((-1) * Bit(p \in pointers))
      BY <2>2 DEF Bit
    <3> QED BY <2>2, <3>1
  <2> QED BY <2>1, <2>2
<1>2. call'.pointers \in SUBSET LocalPointers
  OBVIOUS
<1>3. /\ heap' \in [Kinds -> Int]
      /\ heap'["entry"] = heap["entry"] + (by * Entries(pointers))
      /\ heap'["name"] = heap["name"] + (by * Bit("name" \in pointers))
      /\ heap'["stat"] = heap["stat"] + (by * Bit("stat" \in pointers))
      /\ \A k \in Kinds \ {"entry", "name", "stat"} : heap'[k] = heap[k]
  BY <1>1, LocalsCount DEF HeapInv, Entries
<1>4. UNCHANGED <<tool, held, volumes_array, lost>>
  BY DEF callUnchanged
<1>5. HeapInv'
  <2>1. /\ heap'["handle"] = heap["handle"] /\ heap'["fuse"] = heap["fuse"]
        /\ heap'["file_system"] = heap["file_system"]
        /\ heap'["file_io_handle"] = heap["file_io_handle"]
        /\ heap'["volume"] = heap["volume"]
    BY <1>3 DEF Kinds
  <2>2. heap'["name"] = Bit("name" \in call'.pointers)
    BY <1>1, <1>3 DEF HeapInv, LocalPointers
  <2>3. heap'["stat"] = Bit("stat" \in call'.pointers)
    BY <1>1, <1>3 DEF HeapInv, LocalPointers
  <2> QED BY <1>3, <1>4, <2>1, <2>2, <2>3 DEF HeapInv
<1>6. Entries(call'.pointers) = Entries(call.pointers) + (by * Entries(pointers))
  <2>1. /\ Bit("file_entry" \in call'.pointers) =
               Bit("file_entry" \in call.pointers) + (by * Bit("file_entry" \in pointers))
        /\ Bit("parent" \in call'.pointers) =
               Bit("parent" \in call.pointers) + (by * Bit("parent" \in pointers))
        /\ Bit("sub" \in call'.pointers) =
               Bit("sub" \in call.pointers) + (by * Bit("sub" \in pointers))
    BY <1>1 DEF LocalPointers
  <2>2. \A p : /\ Bit(p \in call.pointers) \in Int /\ Bit(p \in pointers) \in Int
               /\ Bit(p \in call'.pointers) \in Int
    BY DEF Bit
  <2>3. CASE by = 1
    BY <2>1, <2>2, <2>3 DEF Entries
  <2>4. CASE by = -1
    BY <2>1, <2>2, <2>4 DEF Entries
  <2> QED BY <2>3, <2>4
<1>7. OpenFiles' = OpenFiles
  BY DEF OpenFiles
<1>8. heap["entry"] = Cardinality(OpenFiles) + Entries(call.pointers) + leaked
  BY EntriesCount
<1>9. /\ Cardinality(OpenFiles) \in Nat /\ Entries(call.pointers) \in Int
      /\ Entries(pointers) \in Int
  BY FS_CardinalityType, EntriesAreNumber
<1>10. heap'["entry"] = Cardinality(OpenFiles') + Entries(call'.pointers) + leaked'
  <2>1. by * Entries(pointers) \in Int
    BY <1>9
  <2> QED BY <1>3, <1>6, <1>7, <1>8, <1>9, <2>1
<1> QED BY <1>2, <1>5, <1>10, EntriesCountNext

LEMMA PointersStay ==
    ASSUME HeapInv, EntriesAreAccountedFor, callUnchanged,
           UNCHANGED <<heap, fh, leaked>>, call'.pointers = call.pointers
    PROVE  HeapInv' /\ EntriesAreAccountedFor'
BY DEF HeapInv, EntriesAreAccountedFor, callUnchanged

LEMMA NoCallRecord == NoCall \in CallRecord
<1> DEFINE Listings == Seq([path : ListedPaths, entry : Nat \cup {NoEntry}])
<1>1. <<>> \in Listings
  BY EmptySeq
<1> HIDE DEF Listings
<1>2. NoCall \in [op : {"none"}, at : {"none"}, entry : Nat \cup {NoEntry}, index : Nat,
                  pointers : SUBSET LocalPointers, listing : Listings, answer : Answers]
  BY <1>1 DEF NoCall, Answers
<1> QED BY <1>2 DEF CallRecord, Listings

\* The record of a callback that has come to its end.
LEMMA EndedCall ==
    ASSUME NEW answer \in Answers
    PROVE  /\ Ended(answer) \in CallRecord
           /\ Ended(answer).op = "none" /\ Ended(answer).pointers = {}
           /\ Ended(answer).answer = answer
<1>1. Ended(answer) \in CallRecord
  BY NoCallRecord DEF Ended, CallRecord
<1>2. /\ Ended(answer).op = "none" /\ Ended(answer).pointers = {}
      /\ Ended(answer).answer = answer
  BY DEF Ended, NoCall
<1> QED BY <1>1, <1>2

LEMMA CallEnds ==
    ASSUME pc' = "loop", tool' = "mount",
           NEW answer \in Answers, answer # "listed", call' = Ended(answer)
    PROVE  CallInv' /\ call'.pointers = {}
<1>1. /\ call' \in CallRecord /\ call'.op = "none" /\ call'.pointers = {}
      /\ call'.answer # "listed"
  BY EndedCall
<1>2. PointersInv'
  BY <1>1 DEF PointersInv, DirectoryOps
<1>3. ListingInv'
  BY <1>1 DEF ListingInv, DirectoryOps
<1>4. ~(pc' \in UnmountedPlaces)
  BY DEF UnmountedPlaces, OpenPlaces
<1> QED BY <1>1, <1>2, <1>3, <1>4 DEF CallInv, CallRecord

-----------------------------------------------------------------------------
(* A directory is read                                                     *)

\* A callback is given what these pointers are set to, or loses it.
PointersMove(pointers) ==
    \/ /\ heap' = Locals(pointers, 1)
       /\ pointers \cap call.pointers = {}
       /\ call'.pointers = call.pointers \cup pointers
    \/ /\ heap' = Locals(pointers, -1)
       /\ pointers \subseteq call.pointers
       /\ call'.pointers = call.pointers \ pointers

\* The kernel calls back a program that mounts, in its loop.
Looping == tool = "mount" /\ pc = "loop" /\ callUnchanged

LEMMA PlacesStay ==
    ASSUME PlacesInv, HeldInv, callUnchanged
    PROVE  PlacesInv' /\ HeldInv'
BY DEF PlacesInv, HeldInv, callUnchanged

LEMMA FilesStay ==
    ASSUME FilesInv, UNCHANGED <<fh, leaked, volumes_array>>, EntriesAreAccountedFor'
    PROVE  FilesInv'
<1>1. OpenFiles' = OpenFiles /\ \A f \in Files : OpenFile(f)' <=> OpenFile(f)
  BY DEF OpenFiles, OpenFile
<1> QED BY <1>1 DEF FilesInv

LEMMA CallGoesOn ==
    ASSUME Looping, call' \in CallRecord, PointersInv', ListingInv'
    PROVE  CallInv'
<1>1. tool' = "mount" /\ pc' = "loop"
  BY DEF Looping, callUnchanged
<1>2. ~(pc' \in UnmountedPlaces \/ tool' = "info")
  BY <1>1 DEF UnmountedPlaces, OpenPlaces
<1> QED BY <1>2 DEF CallInv, CallRecord

\* A step of a callback that opens and closes no file.
LEMMA CallbackKept ==
    ASSUME CallbackInv, Looping, UNCHANGED <<fh, leaked>>,
           call' \in CallRecord, PointersInv', ListingInv',
           NEW pointers \in SUBSET LocalPointers,
           \/ PointersMove(pointers)
           \/ UNCHANGED heap /\ call'.pointers = call.pointers
    PROVE  CallbackInv'
<1>1. PlacesInv' /\ HeldInv'
  BY PlacesStay DEF CallbackInv, Looping
<1>2. CallInv'
  BY CallGoesOn
<1>3. HeapInv' /\ EntriesAreAccountedFor'
  <2>1. /\ HeapInv /\ EntriesAreAccountedFor /\ leaked \in Nat /\ IsFiniteSet(OpenFiles)
        /\ call.pointers \in SUBSET LocalPointers /\ callUnchanged
    BY DEF CallbackInv, CallInv, CallRecord, FilesInv, Looping
  <2>2. CASE UNCHANGED heap /\ call'.pointers = call.pointers
    BY <2>1, <2>2, PointersStay
  <2>3. CASE PointersMove(pointers)
    BY <2>1, <2>3, PointersChange DEF PointersMove
  <2> QED BY <2>2, <2>3
<1>4. FilesInv'
  BY <1>3, FilesStay DEF CallbackInv, Looping, callUnchanged
<1> QED BY <1>1, <1>2, <1>3, <1>4 DEF CallbackInv

\* A callback that ends frees what its pointers hold.
LEMMA CallbackEnds ==
    ASSUME CallbackInv, Looping, UNCHANGED <<fh, leaked>>,
           NEW answer \in Answers \ {"listed"}, call' = Ended(answer),
           heap' = Locals(call.pointers, -1) \/ (UNCHANGED heap /\ call.pointers = {})
    PROVE  CallbackInv'
<1>1. CallInv' /\ call'.pointers = {}
  BY CallEnds DEF Looping, callUnchanged
<1>2. call' \in CallRecord /\ PointersInv' /\ ListingInv'
  BY <1>1 DEF CallInv, CallRecord
<1>3. call.pointers \in SUBSET LocalPointers
  BY DEF CallbackInv, CallInv, CallRecord
<1>4. \/ PointersMove(call.pointers)
      \/ UNCHANGED heap /\ call'.pointers = call.pointers
  BY <1>1 DEF PointersMove
<1> QED BY <1>2, <1>3, <1>4, CallbackKept

\* A directory has no sub entry beyond the volumes, and only the root has any.
LEMMA SubEntries ==
    ASSUME PlacesInv
    PROVE  NumberOfSubFileEntries(call.entry, volumes_array) \in Nat
BY DEF PlacesInv, NumberOfSubFileEntries

Listing == Seq([path : ListedPaths, entry : Nat \cup {NoEntry}])

LEMMA ListedIsOneMore ==
    ASSUME NEW path \in ListedPaths, NEW entry \in Nat \cup {NoEntry},
           call.listing \in Listing
    PROVE  /\ Listed(path, entry) \in Listing
           /\ Len(Listed(path, entry)) = Len(call.listing) + 1
           /\ \A k \in 1 .. Len(call.listing) : Listed(path, entry)[k] = call.listing[k]
           /\ Listed(path, entry)[Len(call.listing) + 1] = [path |-> path, entry |-> entry]
<1> DEFINE Items == [path : ListedPaths, entry : Nat \cup {NoEntry}]
<1>1. [path |-> path, entry |-> entry] \in Items
  OBVIOUS
<1> HIDE DEF Items
<1>2. call.listing \in Seq(Items)
  BY DEF Listing, Items
<1>3. /\ Listed(path, entry) \in Seq(Items)
      /\ Len(Listed(path, entry)) = Len(call.listing) + 1
      /\ \A k \in 1 .. Len(call.listing) : Listed(path, entry)[k] = call.listing[k]
      /\ Listed(path, entry)[Len(call.listing) + 1] = [path |-> path, entry |-> entry]
  BY <1>1, <1>2, AppendProperties DEF Listed
<1> QED BY <1>3 DEF Listing, Items

LEMMA FillDotKeeps ==
    ASSUME CallbackInv, tool = "mount", FillDot
    PROVE  CallbackInv'
<1> DEFINE parent == IF ParentFileEntry(call.entry) = NoEntry THEN {} ELSE {"parent"}
           listing == Listed(Path(".", <<>>), call.entry)
<1>1. /\ pc = "loop" /\ call.op \in DirectoryOps /\ call.at = "dot"
      /\ heap' = Locals(parent, 1)
      /\ call' = [call EXCEPT !.at = "parent", !.pointers = @ \cup parent,
                              !.listing = listing]
      /\ UNCHANGED <<fh, leaked>> /\ callUnchanged
  BY DEF FillDot, At
<1>2. /\ call \in CallRecord /\ PointersInv /\ ListingInv
      /\ call.listing \in Listing /\ call.entry \in Nat \cup {NoEntry}
  BY DEF CallbackInv, CallInv, CallRecord, Listing
<1>3. parent = IF call.entry = RootEntry THEN {} ELSE {"parent"}
  BY EntryAssumption DEF ParentFileEntry, RootEntry
<1>4. listing \in Listing /\ Len(listing) = 1 /\ listing[1].entry = call.entry
  <2>1. Path(".", <<>>) \in ListedPaths
    BY DEF ListedPaths
  <2>2. call.listing = <<>> /\ Len(call.listing) = 0
    BY <1>1, <1>2 DEF ListingInv
  <2>3. /\ listing \in Listing
        /\ Len(listing) = Len(call.listing) + 1
        /\ listing[Len(call.listing) + 1] = [path |-> Path(".", <<>>), entry |-> call.entry]
    BY <1>2, <2>1, ListedIsOneMore
  <2> QED BY <2>2, <2>3
<1> HIDE DEF parent, listing
<1>5. parent \in SUBSET LocalPointers
  BY <1>3 DEF LocalPointers
<1>6. /\ call'.op = call.op /\ call'.at = "parent" /\ call'.entry = call.entry
      /\ call'.index = call.index /\ call'.answer = call.answer
      /\ call'.pointers = call.pointers \cup parent /\ call'.listing = listing
  BY <1>1, <1>2 DEF CallRecord
<1>7. call' \in CallRecord
  BY <1>1, <1>2, <1>4, <1>5 DEF CallRecord, Listing
<1>8. PointersInv'
  BY <1>1, <1>2, <1>3, <1>6 DEF PointersInv, DirectoryOps, callUnchanged
<1>9. ListingInv'
  BY <1>1, <1>2, <1>4, <1>6 DEF ListingInv, PointersInv, DirectoryOps, callUnchanged
<1>10. PointersMove(parent)
  <2>1. parent \cap call.pointers = {}
    BY <1>1, <1>2, <1>3 DEF PointersInv, DirectoryOps
  <2> QED BY <1>1, <1>6, <2>1 DEF PointersMove
<1> QED BY <1>1, <1>5, <1>7, <1>8, <1>9, <1>10, CallbackKept DEF Looping

LEMMA FillParentKeeps ==
    ASSUME CallbackInv, tool = "mount", FillParent
    PROVE  CallbackInv'
<1> DEFINE parent == call.pointers \cap {"parent"}
           listing == Listed(Path("..", <<>>), ParentFileEntry(call.entry))
<1>1. /\ pc = "loop" /\ call.op \in DirectoryOps /\ call.at = "parent"
      /\ heap' = Locals(parent, -1)
      /\ call' = [call EXCEPT !.at = "sub", !.pointers = @ \ {"parent"},
                              !.listing = listing]
      /\ UNCHANGED <<fh, leaked>> /\ callUnchanged
  BY DEF FillParent, At
<1>2. /\ call \in CallRecord /\ PointersInv /\ ListingInv
      /\ call.listing \in Listing
  BY DEF CallbackInv, CallInv, CallRecord, Listing
<1>3. /\ listing \in Listing /\ Len(listing) = 2
      /\ listing[1].entry = call.entry
  <2>1. Path("..", <<>>) \in ListedPaths
    BY DEF ListedPaths
  <2>2. ParentFileEntry(call.entry) \in Nat \cup {NoEntry}
    BY DEF ParentFileEntry, RootEntry
  <2>3. Len(call.listing) = 1 /\ call.listing[1].entry = call.entry
    BY <1>1, <1>2 DEF ListingInv
  <2>4. /\ listing \in Listing
        /\ Len(listing) = Len(call.listing) + 1
        /\ \A k \in 1 .. Len(call.listing) : listing[k] = call.listing[k]
    BY <1>2, <2>1, <2>2, ListedIsOneMore
  <2> QED BY <2>3, <2>4
<1> HIDE DEF parent, listing
<1>5. parent \in SUBSET LocalPointers /\ call.pointers \ {"parent"} = call.pointers \ parent
  BY DEF LocalPointers, parent
<1>6. /\ call'.op = call.op /\ call'.at = "sub" /\ call'.entry = call.entry
      /\ call'.index = call.index /\ call'.answer = call.answer
      /\ call'.pointers = call.pointers \ {"parent"} /\ call'.listing = listing
  BY <1>1, <1>2 DEF CallRecord
<1>7. call' \in CallRecord
  BY <1>1, <1>2, <1>3 DEF CallRecord, Listing
<1>8. PointersInv'
  BY <1>1, <1>2, <1>6 DEF PointersInv, DirectoryOps, callUnchanged
<1>9. ListingInv'
  <2>1. call.index = 0 /\ call.answer # "listed"
    BY <1>1, <1>2 DEF ListingInv, PointersInv, DirectoryOps
  <2>2. ListedUpTo(listing, call.entry, 0)
    BY <1>3 DEF ListedUpTo
  <2> QED BY <1>1, <1>2, <1>6, <2>1, <2>2 DEF ListingInv, callUnchanged
<1>10. PointersMove(parent)
  BY <1>1, <1>5, <1>6 DEF PointersMove, parent
<1> QED BY <1>1, <1>5, <1>7, <1>8, <1>9, <1>10, CallbackKept DEF Looping

LEMMA NextSubEntryKeeps ==
    ASSUME CallbackInv, tool = "mount", NextSubEntry
    PROVE  CallbackInv'
<1> DEFINE pointers == {"sub", "name"}
<1>1. /\ pc = "loop" /\ call.op \in DirectoryOps /\ call.at = "sub" /\ HasSubEntry
      /\ heap' = Locals(pointers, 1)
      /\ call' = [call EXCEPT !.at = "fill", !.pointers = @ \cup pointers]
      /\ UNCHANGED <<fh, leaked>> /\ callUnchanged
  BY DEF NextSubEntry, At
<1>2. call \in CallRecord /\ PointersInv /\ ListingInv
  BY DEF CallbackInv, CallInv
<1>3. /\ call'.op = call.op /\ call'.at = "fill" /\ call'.entry = call.entry
      /\ call'.index = call.index /\ call'.answer = call.answer
      /\ call'.pointers = call.pointers \cup pointers /\ call'.listing = call.listing
  BY <1>1, <1>2 DEF CallRecord
<1>4. pointers \in SUBSET LocalPointers
  BY DEF LocalPointers
<1>5. call' \in CallRecord
  BY <1>1, <1>2, <1>4 DEF CallRecord
<1>6. PointersInv'
  BY <1>1, <1>2, <1>3 DEF PointersInv, DirectoryOps, callUnchanged
<1>7. ListingInv'
  <2>1. HasSubEntry'
    BY <1>1, <1>3 DEF HasSubEntry, callUnchanged
  <2>2. call.answer # "listed"
    BY <1>1, <1>2 DEF PointersInv, DirectoryOps
  <2> QED BY <1>1, <1>2, <1>3, <2>1, <2>2 DEF ListingInv, callUnchanged
<1>8. PointersMove(pointers)
  <2>1. pointers \cap call.pointers = {}
    BY <1>1, <1>2 DEF PointersInv, DirectoryOps
  <2> QED BY <1>1, <1>3, <2>1 DEF PointersMove
<1> QED BY <1>1, <1>4, <1>5, <1>6, <1>7, <1>8, CallbackKept DEF Looping

\* The listing of a directory with one more sub entry.
LEMMA ListedUpToNext ==
    ASSUME NEW n \in Nat, NEW entry, call.listing \in Listing,
           ListedUpTo(call.listing, entry, n)
    PROVE  /\ Listed(PathFromVolumeIndex(n), SubFileEntry(n)) \in Listing
           /\ ListedUpTo(Listed(PathFromVolumeIndex(n), SubFileEntry(n)), entry, n + 1)
<1> DEFINE path == PathFromVolumeIndex(n)
           listing == Listed(path, SubFileEntry(n))
<1>1. path \in ListedPaths
  BY DEF ListedPaths
<1>2. SubFileEntry(n) = n + 1 /\ SubFileEntry(n) \in Nat \cup {NoEntry}
  BY DEF SubFileEntry
<1>3. Len(call.listing) = n + 2 /\ call.listing[1].entry = entry
  BY DEF ListedUpTo
<1>4. \A k \in 1 .. n :
         call.listing[k + 2] = [path |-> PathFromVolumeIndex(k - 1), entry |-> k]
  BY DEF ListedUpTo
<1> HIDE DEF path
<1>5. /\ listing \in Listing
      /\ Len(listing) = Len(call.listing) + 1
      /\ \A k \in 1 .. Len(call.listing) : listing[k] = call.listing[k]
      /\ listing[Len(call.listing) + 1] = [path |-> path, entry |-> SubFileEntry(n)]
  BY <1>1, <1>2, ListedIsOneMore
<1> HIDE DEF listing
<1>6. Len(listing) = (n + 1) + 2 /\ listing[1].entry = entry
  BY <1>3, <1>5
<1>7. ASSUME NEW k \in 1 .. n + 1
      PROVE  listing[k + 2] = [path |-> PathFromVolumeIndex(k - 1), entry |-> k]
  <2>1. CASE k = n + 1
    <3>1. k + 2 = Len(call.listing) + 1 /\ k - 1 = n
      BY <1>3, <2>1
    <3> QED BY <1>2, <1>5, <2>1, <3>1 DEF path
  <2>2. CASE k \in 1 .. n
    <3>1. k + 2 \in 1 .. Len(call.listing)
      BY <1>3, <2>2
    <3> QED BY <1>4, <1>5, <2>2, <3>1
  <2> QED BY <2>1, <2>2
<1>8. ListedUpTo(listing, entry, n + 1)
  BY <1>6, <1>7 DEF ListedUpTo
<1> QED BY <1>5, <1>8 DEF listing, path

LEMMA FillSubEntryKeeps ==
    ASSUME CallbackInv, tool = "mount", FillSubEntry
    PROVE  CallbackInv'
<1> DEFINE pointers == {"sub", "name"}
           listing == Listed(PathFromVolumeIndex(call.index), SubFileEntry(call.index))
<1>1. /\ pc = "loop" /\ call.op \in DirectoryOps /\ call.at = "fill"
      /\ heap' = Locals(pointers, -1)
      /\ call' = [call EXCEPT !.at = "sub", !.index = @ + 1,
                              !.pointers = @ \ pointers, !.listing = listing]
      /\ UNCHANGED <<fh, leaked>> /\ callUnchanged
  BY DEF FillSubEntry, At
<1>2. /\ call \in CallRecord /\ PointersInv /\ ListingInv
      /\ call.listing \in Listing /\ call.index \in Nat
  BY DEF CallbackInv, CallInv, CallRecord, Listing
<1>3. listing \in Listing /\ ListedUpTo(listing, call.entry, call.index + 1)
  <2>1. ListedUpTo(call.listing, call.entry, call.index)
    BY <1>1, <1>2 DEF ListingInv
  <2> QED BY <1>2, <2>1, ListedUpToNext
<1> HIDE DEF listing
<1>4. /\ call'.op = call.op /\ call'.at = "sub" /\ call'.entry = call.entry
      /\ call'.index = call.index + 1 /\ call'.answer = call.answer
      /\ call'.pointers = call.pointers \ pointers /\ call'.listing = listing
  BY <1>1, <1>2 DEF CallRecord
<1>5. pointers \in SUBSET LocalPointers
  BY DEF LocalPointers
<1>6. call' \in CallRecord
  <2>1. call.index + 1 \in Nat /\ call.pointers \ pointers \in SUBSET LocalPointers
    BY <1>2 DEF CallRecord
  <2> QED BY <1>1, <1>2, <1>3, <2>1 DEF CallRecord, Listing
<1>7. PointersInv'
  BY <1>1, <1>2, <1>4 DEF PointersInv, DirectoryOps, callUnchanged
<1>8. ListingInv'
  <2>1. call.answer # "listed"
    BY <1>1, <1>2 DEF PointersInv, DirectoryOps
  <2>2. call.index + 1 <= NumberOfSubFileEntries(call.entry, volumes_array)
    <3>1. HasSubEntry
      BY <1>1, <1>2 DEF ListingInv
    <3>2. NumberOfSubFileEntries(call.entry, volumes_array) \in Nat
      BY SubEntries DEF CallbackInv
    <3> QED BY <1>2, <3>1, <3>2 DEF HasSubEntry
  <2> QED BY <1>1, <1>3, <1>4, <2>1, <2>2 DEF ListingInv, callUnchanged
<1>9. PointersMove(pointers)
  <2>1. pointers \subseteq call.pointers
    BY <1>1, <1>2 DEF PointersInv, DirectoryOps
  <2> QED BY <1>1, <1>4, <2>1 DEF PointersMove
<1> QED BY <1>1, <1>5, <1>6, <1>7, <1>8, <1>9, CallbackKept DEF Looping

LEMMA DirectoryEndsKeeps ==
    ASSUME CallbackInv, tool = "mount", DirectoryEnds
    PROVE  CallbackInv'
<1>1. /\ pc = "loop" /\ call.op \in DirectoryOps /\ call.at = "sub" /\ ~ HasSubEntry
      /\ heap' = Locals(call.pointers, -1)
      /\ call' = [Ended("listed") EXCEPT !.listing = call.listing]
      /\ UNCHANGED <<fh, leaked>> /\ callUnchanged
  BY DEF DirectoryEnds, At
<1>2. /\ call \in CallRecord /\ PointersInv /\ ListingInv
      /\ call.listing \in Listing /\ call.index \in Nat
      /\ call.pointers \in SUBSET LocalPointers
  BY DEF CallbackInv, CallInv, CallRecord, Listing
<1>3. /\ Ended("listed") \in CallRecord
      /\ Ended("listed").op = "none" /\ Ended("listed").pointers = {}
      /\ Ended("listed").answer = "listed"
  <2>1. "listed" \in Answers
    BY DEF Answers
  <2> QED BY <2>1, EndedCall
<1>4. /\ call'.op = "none" /\ call'.pointers = {} /\ call'.answer = "listed"
      /\ call'.listing = call.listing /\ call' \in CallRecord
  BY <1>1, <1>2, <1>3 DEF CallRecord, Listing
<1>5. PointersInv'
  BY <1>4 DEF PointersInv, DirectoryOps
<1>6. ListingInv'
  <2>1. ListedUpTo(call.listing, call.entry, call.index)
    BY <1>1, <1>2 DEF ListingInv
  <2>2. /\ call.listing[1].entry = call.entry
        /\ Len(call.listing) >= 2
    BY <1>2, <2>1 DEF ListedUpTo
  <2>3. call.index = NumberOfSubFileEntries(call.entry, volumes_array)
    <3>1. NumberOfSubFileEntries(call.entry, volumes_array) \in Nat
      BY SubEntries DEF CallbackInv
    <3>2. call.index <= NumberOfSubFileEntries(call.entry, volumes_array)
      BY <1>1, <1>2 DEF ListingInv
    <3> QED BY <1>1, <1>2, <3>1, <3>2 DEF HasSubEntry
  <2>4. ListedUpTo(call'.listing, call'.listing[1].entry,
            NumberOfSubFileEntries(call'.listing[1].entry, volumes_array'))
    BY <1>1, <1>4, <2>1, <2>2, <2>3 DEF callUnchanged
  <2> QED BY <1>4, <2>2, <2>4 DEF ListingInv, DirectoryOps
<1>7. PointersMove(call.pointers)
  BY <1>1, <1>4 DEF PointersMove
<1> QED BY <1>1, <1>2, <1>4, <1>5, <1>6, <1>7, CallbackKept DEF Looping

LEMMA CallFailsKeeps ==
    ASSUME CallbackInv, tool = "mount", CallFails
    PROVE  CallbackInv'
<1>1. /\ Looping /\ UNCHANGED <<fh, leaked>> /\ call' = Ended("EIO")
      /\ heap' = Locals(call.pointers, -1)
  BY DEF CallFails, Looping
<1>2. "EIO" \in Answers \ {"listed"}
  BY DEF Answers
<1> QED BY <1>1, <1>2, CallbackEnds

LEMMA AttributesEndKeeps ==
    ASSUME CallbackInv, tool = "mount", AttributesEnd
    PROVE  CallbackInv'
<1>1. /\ Looping /\ UNCHANGED <<fh, leaked>> /\ call' = Ended(FileMode(call.entry))
      /\ heap' = Locals(call.pointers, -1)
  BY DEF AttributesEnd, Looping, At
<1>2. FileMode(call.entry) \in Answers \ {"listed"}
  BY DEF Answers, FileMode
<1> QED BY <1>1, <1>2, CallbackEnds

\* What answers at once and changes nothing but its answer.
LEMMA AnswersKeep ==
    ASSUME CallbackInv, Looping, call.op = "none", UNCHANGED <<heap, fh, leaked>>,
           NEW answer \in {"EACCES", "ENOENT", "EIO", "data", "LUKSDE"},
           call' = Ended(answer)
    PROVE  CallbackInv'
<1>1. answer \in Answers \ {"listed"}
  BY DEF Answers
<1>2. call.pointers = {}
  BY DEF CallbackInv, CallInv, PointersInv
<1> QED BY <1>1, <1>2, CallbackEnds

-----------------------------------------------------------------------------
(* Callbacks begin, and files are opened and closed                        *)

\* A callback begins with what one pointer of it is set to.
LEMMA CallBegins ==
    ASSUME CallbackInv, Looping, call.op = "none", UNCHANGED <<fh, leaked>>,
           NEW op \in {"getattr"} \cup DirectoryOps, NEW entry \in 0 .. volumes_array,
           NEW pointers, pointers = IF op = "readdir" THEN {"stat"} ELSE {"file_entry"},
           heap' = Locals(pointers, 1),
           call' = [op |-> op, at |-> "dot", entry |-> entry, index |-> 0,
                    pointers |-> pointers, listing |-> <<>>, answer |-> "none"]
    PROVE  CallbackInv'
<1>1. volumes_array' = volumes_array /\ pc' = pc /\ pc = "loop" /\ volumes_array \in 0 .. 1
  BY DEF Looping, callUnchanged, CallbackInv, PlacesInv
<1>2. call.pointers = {}
  BY DEF CallbackInv, CallInv, PointersInv
<1>3. /\ call'.op = op /\ call'.at = "dot" /\ call'.entry = entry /\ call'.index = 0
      /\ call'.pointers = pointers /\ call'.listing = <<>> /\ call'.answer = "none"
  OBVIOUS
<1>4. pointers \in SUBSET LocalPointers
  BY DEF LocalPointers
<1>5. call' \in CallRecord
  <2> DEFINE Listings == Seq([path : ListedPaths, entry : Nat \cup {NoEntry}])
  <2>1. <<>> \in Listings
    BY EmptySeq
  <2> HIDE DEF Listings
  <2>2. entry \in Nat
    BY <1>1
  <2> QED BY <1>4, <2>1, <2>2 DEF CallRecord, Listings, Answers
<1>6. PointersInv'
  BY <1>1, <1>3 DEF PointersInv, DirectoryOps
<1>7. ListingInv'
  <2>1. 0 <= NumberOfSubFileEntries(entry, volumes_array)
    BY <1>1 DEF NumberOfSubFileEntries
  <2> QED BY <1>1, <1>3, <2>1 DEF ListingInv
<1>8. PointersMove(pointers)
  BY <1>2, <1>3 DEF PointersMove
<1> QED BY <1>4, <1>5, <1>6, <1>7, <1>8, CallbackKept

\* What a path is an entry of, if anything: the root or a volume.
LEMMA EntriesByPath ==
    ASSUME NEW path, NEW number_of_volumes \in Nat, NEW caseless \in BOOLEAN
    PROVE  VolumeByPath(path, number_of_volumes, caseless)
               \in {NoEntry} \cup 0 .. number_of_volumes
<1>1. CASE path = Root
  BY <1>1 DEF VolumeByPath, RootEntry
<1>2. CASE path # Root
  <2>1. CASE Number(path.digits) \in 1 .. number_of_volumes
    <3>1. VolumeByPath(path, number_of_volumes, caseless)
              \in {NoEntry, Number(path.digits)}
      BY <1>2, Zenon DEF VolumeByPath
    <3> QED BY <2>1, <3>1
  <2>2. CASE Number(path.digits) \notin 1 .. number_of_volumes
    <3>1. VolumeByPath(path, number_of_volumes, caseless) = NoEntry
      BY <1>2, <2>2, Zenon DEF VolumeByPath
    <3> QED BY <3>1
  <2> QED BY <2>1, <2>2
<1> QED BY <1>1, <1>2

LEMMA FileEntries ==
    ASSUME PlacesInv, NEW path, NEW entry \in FileEntriesByPath(path), entry # NoEntry
    PROVE  entry \in 0 .. volumes_array
<1>1. volumes_array \in Nat /\ (driver # "fuse") \in BOOLEAN
  BY DEF PlacesInv
<1>2. VolumeByPath(path, volumes_array, driver # "fuse") \in {NoEntry} \cup 0 .. volumes_array
  BY <1>1, EntriesByPath
<1> QED BY <1>2 DEF FileEntriesByPath

LEMMA GetEntryKeeps ==
    ASSUME CallbackInv, tool = "mount", Called,
           NEW op \in {"getattr", "find_files"}, NEW path, GetEntry(op, path)
    PROVE  CallbackInv'
<1>1. Looping /\ call.op = "none" /\ UNCHANGED <<fh, leaked>>
  BY DEF Called, GetEntry, Looping
<1>2. PICK entry \in FileEntriesByPath(path) :
          IF entry = NoEntry
          THEN call' = Ended("ENOENT") /\ UNCHANGED heap
          ELSE /\ heap' = Locals({"file_entry"}, 1)
               /\ call' = [op |-> op, at |-> "dot", entry |-> entry, index |-> 0,
                           pointers |-> {"file_entry"}, listing |-> <<>>,
                           answer |-> "none"]
  BY DEF GetEntry
<1>3. CASE entry = NoEntry
  BY <1>1, <1>2, <1>3, AnswersKeep
<1>4. CASE entry # NoEntry
  <2>1. entry \in 0 .. volumes_array
    BY <1>4, FileEntries DEF CallbackInv
  <2>2. op \in {"getattr"} \cup DirectoryOps /\ op # "readdir"
    BY DEF DirectoryOps
  <2> DEFINE pointers == {"file_entry"}
  <2>3. pointers = IF op = "readdir" THEN {"stat"} ELSE {"file_entry"}
    BY <2>2
  <2>4. /\ heap' = Locals(pointers, 1)
        /\ call' = [op |-> op, at |-> "dot", entry |-> entry, index |-> 0,
                    pointers |-> pointers, listing |-> <<>>, answer |-> "none"]
    BY <1>2, <1>4
  <2> HIDE DEF pointers
  <2> QED BY <1>1, <2>1, <2>2, <2>3, <2>4, CallBegins
<1> QED BY <1>3, <1>4

LEMMA FuseReaddirKeeps ==
    ASSUME CallbackInv, tool = "mount", NEW f \in Files, FuseReaddir(f)
    PROVE  CallbackInv'
<1> DEFINE pointers == {"stat"}
           op == "readdir"
           entry == fh[f].entry
<1>1. /\ Looping /\ call.op = "none" /\ UNCHANGED <<fh, leaked>> /\ fh[f] # NoEntry
      /\ heap' = Locals(pointers, 1)
      /\ call' = [op |-> op, at |-> "dot", entry |-> entry, index |-> 0,
                  pointers |-> pointers, listing |-> <<>>, answer |-> "none"]
  BY DEF FuseReaddir, Called, IsOpen, Looping
<1>2. entry \in 0 .. volumes_array
  BY <1>1 DEF CallbackInv, FilesInv, OpenFile
<1>3. op \in {"getattr"} \cup DirectoryOps
      /\ pointers = IF op = "readdir" THEN {"stat"} ELSE {"file_entry"}
  BY DEF DirectoryOps
<1> HIDE DEF pointers, op, entry
<1> QED BY <1>1, <1>2, <1>3, CallBegins

\* A file is opened or closed by a call that answers at once.
LEMMA FilesChange ==
    ASSUME CallbackInv, Looping, call.op = "none",
           NEW answer \in {"opened", "closed"}, call' = Ended(answer),
           NEW files, OpenFiles' = files, IsFiniteSet(files),
           fh' \in [Files -> {NoEntry} \cup [entry : Nat, is_directory : BOOLEAN]],
           \A f \in Files : OpenFile(f)',
           leaked' \in Nat,
           NEW pointers \in SUBSET {"file_entry"}, NEW by \in {1, -1},
           heap' = Locals(pointers, by) \/ (UNCHANGED heap /\ pointers = {}),
           Cardinality(files) + leaked' =
               Cardinality(OpenFiles) + leaked + (by * Entries(pointers))
    PROVE  CallbackInv'
<1>1. PlacesInv' /\ HeldInv'
  BY PlacesStay DEF CallbackInv, Looping
<1>2. CallInv' /\ call'.pointers = {}
  <2>1. answer \in Answers \ {"listed"}
    BY DEF Answers
  <2> QED BY <2>1, CallEnds DEF Looping, callUnchanged
<1>3. call.pointers = {}
  BY DEF CallbackInv, CallInv, PointersInv
<1>4. HeapInv /\ EntriesAreAccountedFor /\ IsFiniteSet(OpenFiles)
  BY DEF CallbackInv, FilesInv
<1>5. /\ heap' \in [Kinds -> Int]
      /\ heap'["entry"] = heap["entry"] + (by * Entries(pointers))
      /\ \A k \in Kinds \ {"entry"} : heap'[k] = heap[k]
  <2>1. CASE heap' = Locals(pointers, by)
    <3>1. pointers \in SUBSET LocalPointers
      BY DEF LocalPointers
    <3>2. Bit("name" \in pointers) = 0 /\ Bit("stat" \in pointers) = 0
      BY DEF Bit
    <3>3. /\ heap' \in [Kinds -> Int]
          /\ heap'["entry"] = heap["entry"] + (by * Entries(pointers))
          /\ heap'["name"] = heap["name"] + (by * Bit("name" \in pointers))
          /\ heap'["stat"] = heap["stat"] + (by * Bit("stat" \in pointers))
          /\ \A k \in Kinds \ {"entry", "name", "stat"} : heap'[k] = heap[k]
      BY <1>4, <2>1, <3>1, LocalsCount DEF HeapInv, Entries
    <3>4. heap["name"] \in Int /\ heap["stat"] \in Int
      BY <1>4 DEF HeapInv, Kinds
    <3>5. heap'["name"] = heap["name"] /\ heap'["stat"] = heap["stat"]
      BY <3>2, <3>3, <3>4
    <3> QED BY <3>3, <3>5
  <2>2. CASE UNCHANGED heap /\ pointers = {}
    <3>1. Entries(pointers) = 0
      BY <2>2 DEF Entries, Bit
    <3>2. heap["entry"] \in Int
      BY <1>4 DEF HeapInv, Kinds
    <3> QED BY <1>4, <2>2, <3>1, <3>2 DEF HeapInv
  <2> QED BY <2>1, <2>2
<1>6. HeapInv'
  <2>1. /\ heap'["handle"] = heap["handle"] /\ heap'["fuse"] = heap["fuse"]
        /\ heap'["file_system"] = heap["file_system"]
        /\ heap'["file_io_handle"] = heap["file_io_handle"]
        /\ heap'["volume"] = heap["volume"] /\ heap'["name"] = heap["name"]
        /\ heap'["stat"] = heap["stat"]
    BY <1>5 DEF Kinds
  <2>2. UNCHANGED <<tool, held, volumes_array, lost>>
    BY DEF Looping, callUnchanged
  <2> QED BY <1>2, <1>3, <1>4, <1>5, <2>1, <2>2 DEF HeapInv
<1>7. EntriesAreAccountedFor'
  <2>1. heap["entry"] = Cardinality(OpenFiles) + Entries(call.pointers) + leaked
    <3>1. call.pointers \in SUBSET LocalPointers
      BY <1>3
    <3> QED BY <1>4, <3>1, EntriesCount
  <2>2. Entries({}) = 0
    BY DEF Entries, Bit
  <2>3. /\ Cardinality(OpenFiles) \in Nat /\ Cardinality(files) \in Nat
        /\ leaked \in Nat /\ by * Entries(pointers) \in Int
    <3>1. Entries(pointers) \in Int
      BY EntriesAreNumber
    <3> QED BY <1>4, <3>1, FS_CardinalityType DEF CallbackInv, FilesInv
  <2>4. heap'["entry"] = Cardinality(OpenFiles') + Entries(call'.pointers) + leaked'
    BY <1>2, <1>3, <1>5, <2>1, <2>2, <2>3
  <2>5. (call.pointers \in SUBSET LocalPointers)'
    BY <1>2
  <2> QED BY <2>4, <2>5, EntriesCountNext
<1>8. FilesInv'
  BY <1>7 DEF FilesInv
<1> QED BY <1>1, <1>2, <1>6, <1>8 DEF CallbackInv

LEMMA OpenEntryKeeps ==
    ASSUME CallbackInv, Looping, call.op = "none", UNCHANGED leaked,
           NEW f \in Files, NEW path, NEW is_directory \in BOOLEAN,
           OpenEntry(f, path, is_directory, "ENOENT")
    PROVE  CallbackInv'
<1>1. PICK entry \in FileEntriesByPath(path) :
          IF entry = NoEntry
          THEN call' = Ended("ENOENT") /\ UNCHANGED <<heap, fh>>
          ELSE /\ heap' = Locals({"file_entry"}, 1)
               /\ fh' = [fh EXCEPT ![f] = [entry |-> entry, is_directory |-> is_directory]]
               /\ call' = Ended("opened")
  BY DEF OpenEntry
<1>2. CASE entry = NoEntry
  BY <1>1, <1>2, AnswersKeep
<1>3. CASE entry # NoEntry
  <2> DEFINE pointers == {"file_entry"}
             files == OpenFiles \cup {f}
  <2>1. /\ entry \in 0 .. volumes_array /\ entry \in Nat
        /\ volumes_array' = volumes_array
    <3>1. entry \in 0 .. volumes_array
      BY <1>3, FileEntries DEF CallbackInv
    <3> QED BY <3>1 DEF CallbackInv, PlacesInv, Looping, callUnchanged
  <2>2. /\ f \notin OpenFiles /\ IsFiniteSet(OpenFiles) /\ leaked \in Nat
        /\ fh \in [Files -> {NoEntry} \cup [entry : Nat, is_directory : BOOLEAN]]
        /\ \A g \in Files : OpenFile(g)
    BY DEF CallbackInv, FilesInv, OpenEntry, OpenFiles
  <2>3. fh' = [fh EXCEPT ![f] = [entry |-> entry, is_directory |-> is_directory]]
        /\ [entry |-> entry, is_directory |-> is_directory]
               \in [entry : Nat, is_directory : BOOLEAN]
    BY <1>1, <1>3, <2>1
  <2>4. fh'[f] # NoEntry /\ \A g \in Files \ {f} : fh'[g] = fh[g]
    BY <2>2, <2>3, EntryAssumption
  <2>5. OpenFiles' = files
    BY <2>4 DEF OpenFiles
  <2>6. IsFiniteSet(files) /\ Cardinality(files) = Cardinality(OpenFiles) + 1
    BY <2>2, FS_AddElement
  <2>7. fh' \in [Files -> {NoEntry} \cup [entry : Nat, is_directory : BOOLEAN]]
    BY <2>2, <2>3
  <2>8. \A g \in Files : OpenFile(g)'
    <3>1. OpenFile(f)'
      BY <2>1, <2>2, <2>3 DEF OpenFile
    <3>2. ASSUME NEW g \in Files \ {f} PROVE OpenFile(g)'
      BY <2>1, <2>2, <2>4 DEF OpenFile
    <3> QED BY <3>1, <3>2
  <2>9. Entries(pointers) = 1
    BY DEF Entries, Bit
  <2>10. Cardinality(files) + leaked' =
             Cardinality(OpenFiles) + leaked + (1 * Entries(pointers))
    <3>1. Cardinality(OpenFiles) \in Nat
      BY <2>2, FS_CardinalityType
    <3> QED BY <2>2, <2>6, <2>9, <3>1
  <2>11. heap' = Locals(pointers, 1) /\ call' = Ended("opened")
    BY <1>1, <1>3
  <2>12. pointers \in SUBSET {"file_entry"} /\ leaked' \in Nat
    BY <2>2
  <2> HIDE DEF pointers, files
  <2> QED BY <2>5, <2>6, <2>7, <2>8, <2>10, <2>11, <2>12, FilesChange
<1> QED BY <1>2, <1>3

\* Of an open file the entry is dropped, and freed unless it is a directory of
\* FUSE.
LEMMA FileIsClosed ==
    ASSUME CallbackInv, Looping, call.op = "none", NEW f \in Files, fh[f] # NoEntry,
           fh' = [fh EXCEPT ![f] = NoEntry], call' = Ended("closed"),
           \/ heap' = Locals({"file_entry"}, -1) /\ UNCHANGED leaked
           \/ UNCHANGED heap /\ leaked' = leaked + 1
    PROVE  CallbackInv'
<1> DEFINE files == OpenFiles \ {f}
<1>1. /\ f \in OpenFiles /\ IsFiniteSet(OpenFiles) /\ leaked \in Nat
      /\ fh \in [Files -> {NoEntry} \cup [entry : Nat, is_directory : BOOLEAN]]
      /\ \A g \in Files : OpenFile(g)
  BY DEF CallbackInv, FilesInv, OpenFiles
<1>2. fh'[f] = NoEntry /\ \A g \in Files \ {f} : fh'[g] = fh[g]
  BY <1>1
<1>3. OpenFiles' = files
  BY <1>2 DEF OpenFiles
<1>4. /\ IsFiniteSet(files) /\ Cardinality(files) = Cardinality(OpenFiles) - 1
      /\ Cardinality(OpenFiles) \in Nat
  BY <1>1, FS_RemoveElement, FS_CardinalityType
<1>5. fh' \in [Files -> {NoEntry} \cup [entry : Nat, is_directory : BOOLEAN]]
  BY <1>1
<1>6. \A g \in Files : OpenFile(g)'
  <2>1. volumes_array' = volumes_array
    BY DEF Looping, callUnchanged
  <2>2. OpenFile(f)'
    BY <1>2 DEF OpenFile
  <2>3. ASSUME NEW g \in Files \ {f} PROVE OpenFile(g)'
    BY <1>1, <1>2, <2>1 DEF OpenFile
  <2> QED BY <2>2, <2>3
<1>7. Entries({"file_entry"}) = 1 /\ Entries({}) = 0
  BY DEF Entries, Bit
<1> HIDE DEF files
<1>8. CASE heap' = Locals({"file_entry"}, -1) /\ UNCHANGED leaked
  <2> DEFINE pointers == {"file_entry"}
             by == -1
  <2>1. Cardinality(files) + leaked' =
            Cardinality(OpenFiles) + leaked + (by * Entries(pointers))
    BY <1>1, <1>4, <1>7, <1>8
  <2>2. heap' = Locals(pointers, by) /\ by \in {1, -1} /\ leaked' \in Nat
        /\ pointers \in SUBSET {"file_entry"}
    BY <1>1, <1>8
  <2> HIDE DEF pointers, by
  <2> QED BY <1>3, <1>4, <1>5, <1>6, <2>1, <2>2, FilesChange
<1>9. CASE UNCHANGED heap /\ leaked' = leaked + 1
  <2> DEFINE pointers == {}
  <2>1. Cardinality(files) + leaked' =
            Cardinality(OpenFiles) + leaked + (1 * Entries(pointers))
    BY <1>1, <1>4, <1>7, <1>9
  <2>2. pointers \in SUBSET {"file_entry"} /\ leaked' \in Nat
    BY <1>1, <1>9
  <2>3. UNCHANGED heap /\ pointers = {}
    BY <1>9
  <2> HIDE DEF pointers
  <2> QED BY <1>3, <1>4, <1>5, <1>6, <2>1, <2>2, <2>3, FilesChange
<1> QED BY <1>8, <1>9

LEMMA CallbackStepKeeps ==
    ASSUME CallbackInv, tool = "mount", CallbackStep
    PROVE  CallbackInv'
BY FillDotKeeps, FillParentKeeps, NextSubEntryKeeps, FillSubEntryKeeps,
   DirectoryEndsKeeps, AttributesEndKeeps, CallFailsKeeps
   DEF CallbackStep, FuseStep, DokanFillDots, DokanFillSubEntries,
       DokanFindFilesEnds, DokanFileInformationEnds

\* What is read from a file, or asked of all of them.
LEMMA ReadsKeep ==
    ASSUME CallbackInv, tool = "mount",
           \/ \E f \in Files : FuseRead(f) \/ DokanReadFile(f)
           \/ DokanGetVolumeInformation
    PROVE  CallbackInv'
<1>1. CASE \E f \in Files : FuseRead(f) \/ DokanReadFile(f)
  <2>1. PICK f \in Files : FuseRead(f) \/ DokanReadFile(f)
    BY <1>1
  <2>2. Looping /\ call.op = "none" /\ UNCHANGED <<heap, fh, leaked>>
    BY <2>1 DEF FuseRead, DokanReadFile, Called, Looping
  <2>3. PICK answer \in ReadAnswers(f) : call' = Ended(answer)
    BY <2>1 DEF FuseRead, DokanReadFile
  <2>4. answer \in {"EACCES", "ENOENT", "EIO", "data", "LUKSDE"}
    BY <2>3 DEF ReadAnswers
  <2> QED BY <2>2, <2>3, <2>4, AnswersKeep
<1>2. CASE DokanGetVolumeInformation
  <2>1. /\ Looping /\ call.op = "none" /\ UNCHANGED <<heap, fh, leaked>>
        /\ call' = Ended("LUKSDE")
    BY <1>2 DEF DokanGetVolumeInformation, Called, Looping
  <2> QED BY <2>1, AnswersKeep
<1> QED BY <1>1, <1>2

LEMMA OpensKeep ==
    ASSUME CallbackInv, tool = "mount", NEW f \in Files, NEW path,
           \/ FuseOpendir(f, path) \/ DokanOpenDirectory(f, path)
           \/ \E may \in BOOLEAN :
                 \/ FuseOpen(f, path, may) \/ DokanCreateFile(f, path, may)
                 \/ DokanZwCreateFile(f, path, may)
    PROVE  CallbackInv'
<1>1. Looping /\ call.op = "none" /\ UNCHANGED leaked
  BY DEF FuseOpendir, DokanOpenDirectory, FuseOpen, DokanCreateFile,
         DokanZwCreateFile, Called, Looping
<1>2. \/ \E is_directory \in BOOLEAN : OpenEntry(f, path, is_directory, "ENOENT")
      \/ call' = Ended("EACCES") /\ UNCHANGED <<heap, fh>>
  BY DEF FuseOpendir, DokanOpenDirectory, FuseOpen, DokanCreateFile, DokanZwCreateFile
<1>3. CASE \E is_directory \in BOOLEAN : OpenEntry(f, path, is_directory, "ENOENT")
  BY <1>1, <1>3, OpenEntryKeeps
<1>4. CASE call' = Ended("EACCES") /\ UNCHANGED <<heap, fh>>
  BY <1>1, <1>4, AnswersKeep
<1> QED BY <1>2, <1>3, <1>4

LEMMA ClosesKeep ==
    ASSUME CallbackInv, tool = "mount", NEW f \in Files,
           FuseRelease(f) \/ FuseReleasedir(f) \/ DokanCloseFile(f)
    PROVE  CallbackInv'
<1>1. /\ Looping /\ call.op = "none" /\ fh[f] # NoEntry
      /\ fh' = [fh EXCEPT ![f] = NoEntry] /\ call' = Ended("closed")
      /\ \/ heap' = Locals({"file_entry"}, -1) /\ UNCHANGED leaked
         \/ UNCHANGED heap /\ leaked' = leaked + 1
  BY DEF FuseRelease, FuseReleasedir, DokanCloseFile, CloseEntry, IsOpen, Called, Looping
<1> QED BY <1>1, FileIsClosed

LEMMA CallbackKeeps ==
    ASSUME CallbackInv, tool = "mount", Callback
    PROVE  CallbackInv'
<1>1. CASE driver = "fuse" /\ CallFails
  BY <1>1, CallFailsKeeps
<1>2. CASE \E f \in Files :
              \/ FuseRead(f) \/ FuseRelease(f) \/ FuseReaddir(f) \/ FuseReleasedir(f)
              \/ DokanCloseFile(f) \/ DokanReadFile(f)
  BY <1>2, ReadsKeep, ClosesKeep, FuseReaddirKeeps
<1>3. CASE \E f \in Files, path \in Paths :
              \/ FuseOpendir(f, path) \/ DokanOpenDirectory(f, path)
              \/ \E may \in BOOLEAN :
                    \/ FuseOpen(f, path, may) \/ DokanCreateFile(f, path, may)
                    \/ DokanZwCreateFile(f, path, may)
  <2>1. PICK f \in Files, path \in Paths :
              \/ FuseOpendir(f, path) \/ DokanOpenDirectory(f, path)
              \/ \E may \in BOOLEAN :
                    \/ FuseOpen(f, path, may) \/ DokanCreateFile(f, path, may)
                    \/ DokanZwCreateFile(f, path, may)
    BY <1>3
  <2> QED BY <2>1, OpensKeep
<1>4. CASE \E path \in Paths :
              FuseGetattr(path) \/ DokanFindFiles(path) \/ DokanGetFileInformation(path)
  <2>1. PICK path \in Paths :
              FuseGetattr(path) \/ DokanFindFiles(path) \/ DokanGetFileInformation(path)
    BY <1>4
  <2>2. Called /\ \E op \in {"getattr", "find_files"} : GetEntry(op, path)
    BY <2>1 DEF FuseGetattr, DokanFindFiles, DokanGetFileInformation
  <2> QED BY <2>2, GetEntryKeeps
<1>5. CASE DokanGetVolumeInformation
  BY <1>5, ReadsKeep
<1> QED BY <1>1, <1>2, <1>3, <1>4, <1>5 DEF Callback

-----------------------------------------------------------------------------
(* The tools keep their invariant                                          *)

LEMMA InitToolsInv == ToolsInit => ToolsInv
<1> SUFFICES ASSUME ToolsInit PROVE ToolsInv
  OBVIOUS
<1>1. /\ tool \in {"mount", "info"} /\ driver \in {"fuse", "dokan", "dokany"}
      /\ tool = "info" => driver = "fuse"
      /\ pc = "initialize" /\ held = {} /\ volumes_array = 0 /\ call = NoCall
      /\ heap = [k \in Kinds |-> 0] /\ leaked = 0 /\ options \in Options
      /\ fh = [f \in Files |-> NoEntry] /\ settings = NoSettings
      /\ lost = 0
  BY DEF ToolsInit, ToolInit, MountInit
<1>2. PlacesInv
  BY <1>1 DEF PlacesInv, InfoPlaces, UnmountedPlaces, MountedPlaces, OpenPlaces
<1>3. HeldInv
  BY <1>1 DEF HeldInv, OpenPlaces
<1>4. call.op = "none" /\ call.pointers = {} /\ call.answer = "none"
  BY <1>1 DEF NoCall
<1>5. HeapInv
  BY <1>1, <1>4 DEF HeapInv, Kinds, Bit
<1>6. CallInv
  <2>1. PointersInv /\ ListingInv
    BY <1>4 DEF PointersInv, ListingInv, DirectoryOps
  <2> QED BY <1>1, <2>1, NoCallRecord DEF CallInv
<1>7. FilesInv
  <2>1. OpenFiles = {} /\ IsFiniteSet(OpenFiles) /\ Cardinality(OpenFiles) = 0
    <3>1. OpenFiles = {}
      BY <1>1 DEF OpenFiles
    <3> QED BY <3>1, FS_EmptySet
  <2>2. heap["entry"] = 0 /\ Entries(call.pointers) = 0
    BY <1>1, <1>4 DEF Kinds, Entries, Bit
  <2>3. heap["entry"] = Cardinality(OpenFiles) + Entries(call.pointers) + leaked
    BY <1>1, <2>1, <2>2
  <2>4. EntriesAreAccountedFor
    <3>1. call.pointers \in SUBSET LocalPointers
      BY <1>4
    <3> QED BY <2>3, <3>1, EntriesCount
  <2> QED BY <1>1, <2>1, <2>4 DEF FilesInv, OpenFile
<1>8. OffsetInv
  <2>1. settings.offset = 0 /\ WordSize \div 2 \in Nat \ {0}
    BY <1>1, WordAssumption DEF NoSettings
  <2>2. pc \notin OffsetSet
    BY <1>1 DEF OffsetSet, OpenPlaces
  <2> QED BY <1>1, <2>1, <2>2 DEF OffsetInv
<1>9. LostInv
  BY <1>1 DEF LostInv
<1> QED BY <1>2, <1>3, <1>5, <1>6, <1>7, <1>8, <1>9 DEF ToolsInv

LEMMA NextToolsInv ==
    ASSUME SuppliedInv, ToolsInv, [ToolsNext]_toolsVars
    PROVE  ToolsInv'
<1>1. OffsetInv'
  BY OffsetKept DEF ToolsInv
<1>2. CASE MainStep
  <2>1. MainInv' /\ heap'["entry"] = heap["entry"]
    BY <1>2, MainStepKeeps DEF ToolsInv, MainInv
  <2>2. CallInv' /\ FilesInv'
    BY <1>2, <2>1, MainStepKeepsCalls DEF ToolsInv
  <2> QED BY <1>1, <2>1, <2>2 DEF ToolsInv, MainInv
<1>3. CASE tool = "mount" /\ (CallbackStep \/ Callback)
  <2>1. CallbackInv'
    BY <1>3, CallbackStepKeeps, CallbackKeeps DEF ToolsInv, CallbackInv
  <2>2. LostInv'
    BY <1>3, CallbacksKeep DEF callUnchanged, ToolsInv, LostInv
  <2> QED BY <1>1, <2>1, <2>2 DEF ToolsInv, CallbackInv
<1>4. CASE UNCHANGED toolsVars
  <2>1. UNCHANGED <<tool, pc, options, settings, heap, held, driver, volumes_array,
                    fh, call, leaked, lost>>
    BY <1>4 DEF toolsVars, toolVars, mountVars
  <2>2. PlacesInv' /\ HeldInv' /\ HeapInv' /\ LostInv'
    BY <2>1 DEF ToolsInv, PlacesInv, HeldInv, HeapInv, LostInv
  <2>3. CallInv'
    BY <2>1 DEF ToolsInv, CallInv, CallRecord, PointersInv, ListingInv, HasSubEntry
  <2>4. FilesInv'
    BY <2>1 DEF ToolsInv, FilesInv, OpenFile, OpenFiles, EntriesAreAccountedFor
  <2> QED BY <1>1, <2>2, <2>3, <2>4 DEF ToolsInv
<1> QED BY <1>2, <1>3, <1>4, MainSteps

\* In every state of every execution main's pointers, the objects of each kind,
\* the running callback and the open files agree with where the program is, and
\* the offset is what the option says.
THEOREM ToolsInvariant == Spec => [](SuppliedInv /\ ToolsInv)
<1>1. ToolsInit => SuppliedInv
  BY DEF ToolsInit, ToolInit, NoSettings, Access!Init, SuppliedInv
<1>2. SuppliedInv /\ ToolsInv /\ [ToolsNext]_toolsVars => SuppliedInv' /\ ToolsInv'
  BY NextSuppliedInv, NextToolsInv
<1> QED BY <1>1, <1>2, InitToolsInv, ClientsApart, PTL DEF Spec

\* No entry is lost on the way through the callbacks of mount_fuse.c and
\* mount_dokan.c, whichever step of them fails, but those of directories that
\* mount_fuse_releasedir lets go of.
THEOREM EntriesAccountedFor == Spec => []EntriesAreAccountedFor
<1>1. ToolsInv => EntriesAreAccountedFor
  BY DEF ToolsInv, FilesInv
<1> QED BY <1>1, ToolsInvariant, PTL

\* However main of luksdemount or luksdeinfo ends, with mount_fuse_destroy
\* called back or not, everything it allocated is freed once, but the volume
\* that is still in the array when the handle is freed, and the range that
\* mount_handle_close could not close.
THEOREM ExitFreesAllButVolumes == Spec => []ExitLeavesOnlyVolumes
<1>1. ToolsInv => ExitLeavesOnlyVolumes
  <2> SUFFICES ASSUME ToolsInv, pc = "returned",
                      ~(driver # "fuse" /\ volumes_array > 0)
               PROVE  /\ \A k \in Kinds \ {"entry", "volume", "file_io_handle"} :
                             heap[k] = 0
                      /\ heap["volume"] = volumes_array
                      /\ heap["file_io_handle"] = lost /\ lost <= volumes_array
    BY DEF ExitLeavesOnlyVolumes, Exited
  <2>1. held = {} /\ volumes_array \in 0 .. 1
    BY DEF ToolsInv, HeldInv, PlacesInv
  <2>2. call.pointers = {}
    BY DEF ToolsInv, CallInv, PointersInv
  <2>3. lost \in 0 .. 1 /\ lost <= volumes_array
    BY <2>1 DEF ToolsInv, LostInv
  <2> QED BY <2>1, <2>2, <2>3 DEF ToolsInv, HeapInv, Kinds, Bit
<1> QED BY <1>1, ToolsInvariant, PTL

\* A directory that was read to its end lists every volume once, and each name
\* opens the volume it was listed for.
THEOREM ListingsAreComplete == Spec => []ListingIsComplete
<1>1. ToolsInv => ListingIsComplete
  <2> SUFFICES ASSUME ToolsInv, call.answer = "listed"
               PROVE  ListingIsComplete
    BY DEF ListingIsComplete
  <2> DEFINE listing == call.listing
             n == NumberOfSubFileEntries(listing[1].entry, volumes_array)
             subs == SubSeq(listing, 3, Len(listing))
  <2>1. volumes_array \in Nat /\ volumes_array < 2
    BY DEF ToolsInv, PlacesInv
  <2>2. n \in Nat /\ n <= volumes_array
    BY <2>1 DEF NumberOfSubFileEntries
  <2>3. /\ Len(listing) = n + 2
        /\ \A k \in 1 .. n : listing[k + 2] = [path |-> PathFromVolumeIndex(k - 1), entry |-> k]
    BY DEF ToolsInv, CallInv, ListingInv, ListedUpTo
  <2>4. listing \in Listing
    BY DEF ToolsInv, CallInv, CallRecord, Listing
  <2> HIDE DEF listing, n
  <2>5. Len(subs) = n /\ \A k \in 1 .. n : subs[k] = listing[k + 2]
    BY <2>2, <2>3, <2>4 DEF Listing
  <2> HIDE DEF subs
  <2>6. ASSUME NEW k \in 1 .. n
        PROVE  /\ subs[k].entry = k
               /\ VolumeByPath(subs[k].path, volumes_array, driver # "fuse") = k
    <3>1. subs[k] = [path |-> PathFromVolumeIndex(k - 1), entry |-> k]
      BY <2>3, <2>5, <2>6
    <3>2. PICK i \in Nat : i = k - 1 /\ i < volumes_array /\ i + 1 = k
      BY <2>1, <2>2
    <3>3. volumes_array < 100 * 100 /\ (driver # "fuse") \in BOOLEAN
      BY <2>1
    <3>4. VolumeByPath(PathFromVolumeIndex(i), volumes_array, driver # "fuse") = i + 1
      BY <2>1, <3>2, <3>3, PathsAreVolumes
    <3> QED BY <3>1, <3>2, <3>4
  <2> QED BY <2>5, <2>6 DEF ListingIsComplete, listing, n, subs
<1> QED BY <1>1, ToolsInvariant, PTL

\* Whatever path mount_file_system_get_path_from_volume_index makes of a volume,
\* mount_file_system_get_volume_by_path takes back to that volume.
THEOREM PathsAreResolved == Spec => []PathsResolve
<1>1. PathsResolve
  <2>1. SUFFICES ASSUME NEW i \in 0 .. MaxVolumes - 1
                 PROVE  VolumeByPath(PathFromVolumeIndex(i), MaxVolumes, driver # "fuse")
                            = i + 1
    BY DEF PathsResolve
  <2>2. /\ MaxVolumes \in Nat /\ MaxVolumes < 100 * 100
        /\ i \in Nat /\ i < MaxVolumes /\ (driver # "fuse") \in BOOLEAN
    BY <2>1 DEF MaxVolumes
  <2> QED BY <2>2, PathsAreVolumes
<1> QED BY <1>1, PTL

\* The range of the file that is opened begins at the offset of the option, for
\* every decimal string that a signed offset holds and every width of a word.
THEOREM OffsetsAreTyped == Spec => []OffsetIsTyped
<1>1. ToolsInv => OffsetIsTyped
  <2> SUFFICES ASSUME ToolsInv, pc \in OpenPlaces,
                      TypedOffset \in -(WordSize \div 2) .. (WordSize \div 2) - 1
               PROVE  settings.offset = TypedOffset
    BY DEF OffsetIsTyped
  <2>1. options \in Options /\ settings.offset = ToSigned(DecimalValue(options.offset))
    BY DEF ToolsInv, OffsetInv, OffsetSet
  <2> QED BY <2>1, OffsetIsRead DEF TypedOffset
<1> QED BY <1>1, ToolsInvariant, PTL

-----------------------------------------------------------------------------
(* Types                                                                   *)

\* IO handles are made one after the other, and as many as there may be.
PyBounds ==
    /\ created \in 0 .. MaxHandles
    /\ {pointer, lib} \subseteq 1 .. created \cup {NoHandle}
    /\ \A t \in Threads : py[t].handle \in 1 .. created \cup {NoHandle}

\* Where the handles of a step come from.
LEMMA HandlesMove ==
    ASSUME PyInv, PyNext
    PROVE  /\ \/ created' = created /\ pointer' \in {pointer, NoHandle}
              \/ created' = created + 1 /\ created < MaxHandles /\ pointer' = created'
           /\ \A t \in Threads : py'[t].handle \in {py[t].handle, pointer, NoHandle}
           /\ lib' \in {lib, NoHandle} \cup {py[t].handle : t \in Threads}
<1>1. PICK t \in Threads : PyTakesGil(t) \/ PyYields(t) \/ PyMethods(t) \/ PyGoesOn(t)
  BY DEF PyNext
<1>2. py \in [Threads -> PyRecord]
  BY DEF PyInv
<1>3. CASE PyTakesGil(t) \/ PyYields(t)
  BY <1>2, <1>3 DEF PyTakesGil, PyYields, Place, pyObjects, PyRecord
<1>4. CASE PyMethods(t)
  <2>1. CASE PyOpenFileObject(t) \/ PyFree(t)
    BY <1>2, <2>1 DEF PyOpenFileObject, PyFree, LibraryCall, FreeHandle, Place, PyRecord
  <2>2. CASE ~(PyOpenFileObject(t) \/ PyFree(t))
    <3>1. UNCHANGED pyObjects /\ \E op, script : LibraryCall(t, op, script)
      BY <1>4, <2>2 DEF PyMethods, PyClose, PyReadBuffer, PyReadBufferAtOffset,
             PyUnlock, PyIsLocked, PyGetVolumeIdentifier, PySignalAbort,
             PySeekOffset, PyGetOffset, PyGetSize, PyGetEncryptionMethod,
             PySetKey, PySetPassword, Method
    <3> QED BY <1>2, <3>1 DEF LibraryCall, pyObjects
  <2> QED BY <2>1, <2>2
<1>5. CASE LibraryReturns(t)
  BY <1>2, <1>5 DEF LibraryReturns, Place, PyRecord
<1>6. CASE LibraryChecks(t)
  <2>1. UNCHANGED pyObjects
    BY <1>6 DEF LibraryChecks
  <2> QED BY <1>6, <2>1, Checked DEF pyObjects
<1>7. CASE PyGoesOn(t) /\ ~ LibraryReturns(t) /\ ~ LibraryChecks(t)
  BY <1>2, <1>7
     DEF PyGoesOn, LibraryGrabs, LibraryRefuses, LibraryFails, CallbackBegins,
         UsesFreedHandle, CallbackGetSize, CallbackSeek, CallbackRead,
         CallbackRaises, CallbackFree, PyReturns, PyReadsAll, PyRaises,
         PyOnError, PyFreesHandle, HandleFreeReads, HandleFreeClears, PyClosed,
         Place, InPythonAgain, NoMethod, CallbackReleases, FreeHandle, LetsGo,
         pyObjects, PyRecord
<1> QED BY <1>1, <1>3, <1>4, <1>5, <1>6, <1>7

LEMMA NextPyBounds ==
    ASSUME PyInv, PyBounds, [PyNext]_pyVars
    PROVE  PyBounds'
<1>1. CASE PyNext
  <2>1. /\ \/ created' = created /\ pointer' \in {pointer, NoHandle}
           \/ created' = created + 1 /\ created < MaxHandles /\ pointer' = created'
        /\ \A t \in Threads : py'[t].handle \in {py[t].handle, pointer, NoHandle}
        /\ lib' \in {lib, NoHandle} \cup {py[t].handle : t \in Threads}
    BY <1>1, HandlesMove
  <2>2. created' \in 0 .. MaxHandles
    BY <2>1, InterpreterAssumption DEF PyBounds
  <2>3. 1 .. created \cup {NoHandle} \subseteq 1 .. created' \cup {NoHandle}
    BY <2>1, InterpreterAssumption DEF PyBounds
  <2>4. pointer' \in 1 .. created' \cup {NoHandle}
    <3>1. CASE created' = created /\ pointer' \in {pointer, NoHandle}
      BY <2>3, <3>1 DEF PyBounds
    <3>2. CASE created' = created + 1 /\ pointer' = created'
      BY <3>2, InterpreterAssumption DEF PyBounds
    <3> QED BY <2>1, <3>1, <3>2
  <2>5. lib' \in 1 .. created' \cup {NoHandle}
    BY <2>1, <2>3 DEF PyBounds
  <2>6. \A t \in Threads : py'[t].handle \in 1 .. created' \cup {NoHandle}
    BY <2>1, <2>3 DEF PyBounds
  <2> QED BY <2>2, <2>4, <2>5, <2>6 DEF PyBounds
<1>2. CASE UNCHANGED pyVars
  BY <1>2 DEF pyVars, PyBounds
<1> QED BY <1>1, <1>2

LEMMA ToolsInvTypes ==
    ASSUME SuppliedInv, ToolsInv
    PROVE  ToolsTypeOK
<1>1. tool \in {"mount", "info"} /\ volumes_array \in 0 .. 1
  BY DEF ToolsInv, PlacesInv
<1>2. held \in {{}, HandleOnly, RangeOpened, VolumeMade, FuseMounted, {"fuse"}}
      /\ ("volume" \in held => volumes_array = 0)
  BY DEF ToolsInv, PlacesInv, HeldInv, InfoPlaces, UnmountedPlaces, MountedPlaces,
         OpenPlaces, HandleOnly, RangeOpened, VolumeMade, FuseMounted
<1>3. held \subseteq Pointers
  BY <1>2 DEF HandleOnly, RangeOpened, VolumeMade, FuseMounted, Pointers
<1>4. heap["entry"] \in Nat
  <2>1. call.pointers \in SUBSET LocalPointers
    BY DEF ToolsInv, CallInv, CallRecord
  <2>2. heap["entry"] = Cardinality(OpenFiles) + Entries(call.pointers) + leaked
    BY <2>1, EntriesCount DEF ToolsInv, FilesInv
  <2>3. Cardinality(OpenFiles) \in Nat /\ leaked \in Nat /\ Entries(call.pointers) \in Nat
    BY FS_CardinalityType, EntriesAreNumber DEF ToolsInv, FilesInv
  <2> QED BY <2>2, <2>3
<1>5. heap \in [Kinds -> Nat] /\ \A k \in held : heap[k] = 1
  <2>1. /\ heap["handle"] = Bit("handle" \in held)
        /\ heap["file_system"] = Bit(tool = "mount" /\ "handle" \in held)
        /\ heap["file_io_handle"] = Bit("file_io_handle" \in held) + lost
        /\ heap["volume"] = Bit("volume" \in held) + volumes_array
        /\ heap["fuse"] = Bit("fuse" \in held)
        /\ heap["name"] = Bit("name" \in call.pointers)
        /\ heap["stat"] = Bit("stat" \in call.pointers)
        /\ heap \in [Kinds -> Int]
    BY DEF ToolsInv, HeapInv
  <2>4. lost \in 0 .. 1 /\ ("file_io_handle" \in held => lost = 0)
    BY DEF ToolsInv, LostInv
  <2>2. \A k \in held : heap[k] = 1
    BY <1>2, <1>3, <2>1, <2>4 DEF Pointers, Bit
  <2>3. \A k \in Kinds : heap[k] \in Nat
    BY <1>1, <1>4, <2>1, <2>4 DEF Kinds, Bit
  <2> QED BY <2>1, <2>2, <2>3
<1>6. prompt \in ToolPasswords \cup {"none"}
  BY OptionsAssumption DEF SuppliedInv, ToolsInv, OffsetInv
<1>7. settings.offset \in -(WordSize \div 2) .. (WordSize \div 2) - 1
  BY DEF ToolsInv, OffsetInv
<1>8. \A f \in Files : fh[f] = NoEntry \/ fh[f].entry \in 0 .. volumes_array
  BY DEF ToolsInv, FilesInv, OpenFile
<1> QED BY <1>1, <1>3, <1>5, <1>6, <1>7, <1>8 DEF ToolsTypeOK

LEMMA PyInvTypes ==
    ASSUME PyInv, PyBounds
    PROVE  PyTypeOK
<1>1. references \in 0 .. MaxHandles /\ handles \subseteq 1 .. created
  <2>1. HandlesInv /\ created \in 0 .. MaxHandles
    BY DEF PyInv, PyBounds
  <2>2. references \in 0 .. created
    BY <2>1, HandlesFinite DEF HandlesInv
  <2> QED BY <2>1, <2>2, InterpreterAssumption DEF HandlesInv
<1> QED BY <1>1 DEF PyTypeOK, PyInv, PyBounds

\* Every variable of the tools and of the bindings has a value of its type.  In
\* the tools no object is freed that does not exist, on any way through main, its
\* callbacks and their error handling.  In the bindings, for any number of
\* threads that open and close, the references are never fewer than none nor
\* more than the IO handles made: a handle that is freed again ends what is said
\* of them (UsesFreedHandle), and HandlesFreedOnce says when none is.
THEOREM TypesAreCorrect == Spec => []TypeOK
<1>1. PyInit => PyBounds
  BY InterpreterAssumption DEF PyInit, PyBounds, NoMethod
<1>2. PyInv /\ PyBounds /\ [PyNext]_pyVars => PyBounds'
  BY NextPyBounds
<1>3. SuppliedInv /\ ToolsInv /\ PyInv /\ PyBounds => TypeOK
  BY ToolsInvTypes, PyInvTypes DEF TypeOK
<1> QED BY <1>1, <1>2, <1>3, ToolsInvariant, PyInvariant, ClientsApart, PTL DEF Spec
=============================================================================
