------------------------ MODULE VolumeThreadsProofs ------------------------
(***************************************************************************)
(* Proofs about VolumeThreads, for any number of threads, file IO handles  *)
(* and calls: who holds the lock, that whoever gets it finds a volume that *)
(* is all open or all closed, and that reads use an open file IO handle.   *)
(***************************************************************************)
EXTENDS VolumeThreads, TLAPS

USE ThreadsAssumption, HandlesAssumption

\* From its first step to its last, an open is about a file IO handle.
Opening ==
    {"check", "open_handle", "open_lock", "open_read", "open_keys",
     "open_failed"}

\* The parts of the volume only disagree while a thread, which then holds
\* the write lock, has read the header and not yet the keys.
VolumeInv ==
    IF \E t \in Threads : pc[t] = "open_keys"
    THEN volume_header /\ ~sector_data_vector /\ file_io_handle = NoHandle
    ELSE /\ volume_header = (file_io_handle # NoHandle)
         /\ sector_data_vector = (file_io_handle # NoHandle)

IInv ==
    /\ TypeOK
    /\ \A t \in Threads : pc[t] \in Opening => argument[t] \in Handles
    /\ VolumeInv

LEMMA InitIInv == Init => IInv
<1> SUFFICES ASSUME Init PROVE IInv
  OBVIOUS
<1> USE DEF Init
<1>1. TypeOK
  <2>1. handle_state \in [Handles -> {"absent", "closed", "open", "freed"}]
    OBVIOUS
  <2>2. \A t \in Threads : pc[t] = "idle"
    OBVIOUS
  <2>3. /\ pc \in [Threads -> Places]
        /\ argument \in [Threads -> Handles \cup {NoHandle}]
        /\ opened_here \in [Threads -> BOOLEAN]
    BY DEF Places
  <2>4. calls_left \in [Threads -> 0 .. MaxCalls]
    OBVIOUS
  <2> QED BY <2>1, <2>2, <2>3, <2>4 DEF TypeOK, WriteLocked
<1>2. VolumeInv
  BY DEF VolumeInv
<1> QED BY <1>1, <1>2 DEF IInv, Opening

\* TypeOK in two parts: the steps that move a thread are about the first.
Locks ==
    /\ pc \in [Threads -> Places]
    /\ \A t \in Threads :
          /\ writer = t <=> pc[t] \in WriteLocked
          /\ t \in readers <=> pc[t] = "method"
          /\ ~(writer = t /\ readers # {})

Types ==
    /\ file_io_handle \in Handles \cup {NoHandle}
    /\ file_io_handle_opened_in_library \in BOOLEAN
    /\ file_io_handle_created_in_library \in BOOLEAN
    /\ volume_header \in BOOLEAN
    /\ sector_data_vector \in BOOLEAN
    /\ writer \in Threads \cup {NoThread}
    /\ readers \subseteq Threads
    /\ handle_state \in [Handles -> {"absent", "closed", "open", "freed"}]
    /\ argument \in [Threads -> Handles \cup {NoHandle}]
    /\ opened_here \in [Threads -> BOOLEAN]
    /\ calls_left \in [Threads -> 0 .. MaxCalls]

LEMMA TypeOKParts == Types' /\ Locks' => TypeOK'
BY DEF TypeOK, Types, Locks

\* A step of one thread that neither grabs nor releases the lock.
LEMMA MoveLocks ==
    ASSUME TypeOK, UNCHANGED lock, NEW t \in Threads, NEW to \in Places,
           pc' = [pc EXCEPT ![t] = to],
           pc[t] \in WriteLocked <=> to \in WriteLocked,
           pc[t] = "method" <=> to = "method"
    PROVE  Locks'
BY DEF Locks, TypeOK, lock

\* A step of one thread that grabs the write lock.
LEMMA GrabLocks ==
    ASSUME TypeOK, NEW t \in Threads, GrabForWrite(t), NEW to \in WriteLocked,
           pc' = [pc EXCEPT ![t] = to]
    PROVE  Locks'
BY DEF Locks, TypeOK, GrabForWrite, WriteLocked, Places

\* A step of one thread that releases the write lock it holds.
LEMMA ReleaseLocks ==
    ASSUME TypeOK, NEW t \in Threads, pc[t] \in WriteLocked, ReleaseForWrite,
           NEW to \in Places, to \notin WriteLocked, to # "method",
           pc' = [pc EXCEPT ![t] = to]
    PROVE  Locks'
BY DEF Locks, TypeOK, ReleaseForWrite, WriteLocked

LEMMA SetHandleType ==
    ASSUME TypeOK, NEW h, NEW state \in {"absent", "closed", "open", "freed"},
           SetHandle(h, state)
    PROVE  handle_state' \in [Handles -> {"absent", "closed", "open", "freed"}]
BY DEF TypeOK, SetHandle

\* The same for the read lock.
LEMMA GrabReadLocks ==
    ASSUME TypeOK, NEW t \in Threads, GrabForRead(t), pc[t] \notin WriteLocked,
           pc' = [pc EXCEPT ![t] = "method"]
    PROVE  Locks'
BY DEF Locks, TypeOK, GrabForRead, WriteLocked, Places

LEMMA ReleaseReadLocks ==
    ASSUME TypeOK, NEW t \in Threads, ReleaseForRead(t), pc[t] = "method",
           pc' = [pc EXCEPT ![t] = "idle"]
    PROVE  Locks'
BY DEF Locks, TypeOK, ReleaseForRead, WriteLocked, Places

\* What an open leaves behind in the handles when it fails.
LEMMA FreeCreatedType ==
    ASSUME TypeOK, NEW t \in Threads,
           NEW state \in {"absent", "closed", "open", "freed"},
           FreeCreated(t, state)
    PROVE  handle_state' \in [Handles -> {"absent", "closed", "open", "freed"}]
BY SetHandleType DEF FreeCreated

\* A step that neither is about the volume nor enters or leaves open_keys.
LEMMA VolumeKept ==
    ASSUME TypeOK, VolumeInv, UNCHANGED object, NEW t \in Threads, NEW to,
           pc' = [pc EXCEPT ![t] = to], pc[t] # "open_keys", to # "open_keys"
    PROVE  VolumeInv'
BY DEF TypeOK, VolumeInv, object

\* The write lock keeps every other thread out of open_keys.
LEMMA OneWriter ==
    ASSUME TypeOK, NEW t \in Threads, pc[t] \in WriteLocked, 
           NEW u \in Threads, u # t
    PROVE  pc[u] # "open_keys"
BY DEF TypeOK, WriteLocked

\* A step that does not start an open.
LEMMA ArgumentsKept ==
    ASSUME TypeOK, NEW t \in Threads, NEW to,
           \A u \in Threads : pc[u] \in Opening => argument[u] \in Handles,
           UNCHANGED argument, pc' = [pc EXCEPT ![t] = to],
           to \in Opening => pc[t] \in Opening
    PROVE  \A u \in Threads : pc'[u] \in Opening => argument'[u] \in Handles
BY DEF TypeOK

LEMMA NextIInv == IInv /\ [Next]_vars => IInv'
<1> SUFFICES ASSUME IInv, [Next]_vars PROVE IInv'
  OBVIOUS
<1> USE DEF IInv
<1>1. ASSUME NEW t \in Threads, Begin(t) PROVE IInv'
  <2>1. CASE OpenFileIoHandle(t)
    <3> USE DEF OpenFileIoHandle, Call, Goto
    <3>1. TypeOK'
      <4>1. Types'
        BY <2>1 DEF Types, TypeOK, object, pool, lock, Handles
      <4>2. Locks'
        BY <2>1, MoveLocks DEF Places, WriteLocked, object, lock
      <4> QED BY <4>1, <4>2, TypeOKParts
    <3>2. VolumeInv'
      BY <2>1, VolumeKept
    <3>3. \A u \in Threads : pc'[u] \in Opening => argument'[u] \in Handles
      BY <2>1 DEF TypeOK, Handles
    <3> QED BY <3>1, <3>2, <3>3
  <2>2. CASE Open(t)
    <3> USE DEF Open, Call, Goto
    <3>1. handle_state' \in
              [Handles -> {"absent", "closed", "open", "freed"}]
      BY <2>2, SetHandleType
    <3>2. TypeOK'
      <4>1. Types'
        BY <2>2, <3>1 DEF Types, TypeOK, object, pool, lock, Handles
      <4>2. Locks'
        BY <2>2, MoveLocks DEF Places, WriteLocked, object, lock
      <4> QED BY <4>1, <4>2, TypeOKParts
    <3>3. VolumeInv'
      BY <2>2, VolumeKept
    <3>4. \A u \in Threads : pc'[u] \in Opening => argument'[u] \in Handles
      BY <2>2 DEF TypeOK, Handles
    <3> QED BY <3>2, <3>3, <3>4
  <2>3. CASE CloseCheck(t)
    <3> USE DEF CloseCheck, Call, Goto
    <3>1. TypeOK'
      <4>1. Types'
        BY <2>3 DEF Types, TypeOK, object, pool, lock
      <4>2. Locks'
        BY <2>3, MoveLocks DEF Places, WriteLocked, object, lock
      <4> QED BY <4>1, <4>2, TypeOKParts
    <3>2. VolumeInv'
      BY <2>3, VolumeKept
    <3>3. \A u \in Threads : pc'[u] \in Opening => argument'[u] \in Handles
      BY <2>3, ArgumentsKept DEF Opening
    <3> QED BY <3>1, <3>2, <3>3
  <2>4. CASE ReadCheck(t)
    <3> USE DEF ReadCheck, Call, Goto
    <3>1. TypeOK'
      <4>1. Types'
        BY <2>4 DEF Types, TypeOK, object, pool, lock
      <4>2. Locks'
        BY <2>4, MoveLocks DEF Places, WriteLocked, object, lock
      <4> QED BY <4>1, <4>2, TypeOKParts
    <3>2. VolumeInv'
      BY <2>4, VolumeKept
    <3>3. \A u \in Threads : pc'[u] \in Opening => argument'[u] \in Handles
      BY <2>4, ArgumentsKept DEF Opening
    <3> QED BY <3>1, <3>2, <3>3
  <2>5. CASE GetEncryptionMethodCheck(t)
    <3> USE DEF GetEncryptionMethodCheck, Call, Goto
    <3>1. TypeOK'
      <4>1. Types'
        BY <2>5 DEF Types, TypeOK, object, pool, lock
      <4>2. Locks'
        BY <2>5, MoveLocks DEF Places, WriteLocked, object, lock
      <4> QED BY <4>1, <4>2, TypeOKParts
    <3>2. VolumeInv'
      BY <2>5, VolumeKept
    <3>3. \A u \in Threads : pc'[u] \in Opening => argument'[u] \in Handles
      BY <2>5, ArgumentsKept DEF Opening
    <3> QED BY <3>1, <3>2, <3>3
  <2> QED BY <1>1, <2>1, <2>2, <2>3, <2>4, <2>5 DEF Begin
<1>2. ASSUME NEW t \in Threads, Proceed(t) PROVE IInv'
  <2>1. CASE CheckClosed(t)
    <3> USE DEF CheckClosed, Goto, locals
    <3>1. TypeOK'
      <4>1. Types'
        BY <2>1 DEF Types, TypeOK, object, pool, lock
      <4>2. Locks'
        BY <2>1, MoveLocks DEF Places, WriteLocked, object, lock
      <4> QED BY <4>1, <4>2, TypeOKParts
    <3>2. VolumeInv'
      BY <2>1, VolumeKept
    <3>3. \A u \in Threads : pc'[u] \in Opening => argument'[u] \in Handles
      BY <2>1, ArgumentsKept DEF Opening
    <3> QED BY <3>1, <3>2, <3>3
  <2>2. CASE CheckRefuses(t)
    <3> USE DEF CheckRefuses, Goto, locals
    <3>1. handle_state' \in
              [Handles -> {"absent", "closed", "open", "freed"}]
      BY <2>2, FreeCreatedType DEF TypeOK, Opening
    <3>2. TypeOK'
      <4>1. Types'
        BY <2>2, <3>1 DEF Types, TypeOK, object, pool, lock
      <4>2. Locks'
        BY <2>2, MoveLocks DEF Places, WriteLocked, object, lock
      <4> QED BY <4>1, <4>2, TypeOKParts
    <3>3. VolumeInv'
      BY <2>2, VolumeKept
    <3>4. \A u \in Threads : pc'[u] \in Opening => argument'[u] \in Handles
      BY <2>2, ArgumentsKept DEF Opening
    <3> QED BY <3>2, <3>3, <3>4
  <2>3. CASE OpenHandle(t)
    <3> USE DEF OpenHandle, Goto, locals
    <3>1. handle_state' \in
              [Handles -> {"absent", "closed", "open", "freed"}]
      BY <2>3, SetHandleType
    <3>2. TypeOK'
      <4>1. Types'
        BY <2>3, <3>1 DEF Types, TypeOK, object, pool, lock
      <4>2. Locks'
        BY <2>3, MoveLocks DEF Places, WriteLocked, object, lock
      <4> QED BY <4>1, <4>2, TypeOKParts
    <3>3. VolumeInv'
      BY <2>3, VolumeKept
    <3>4. \A u \in Threads : pc'[u] \in Opening => argument'[u] \in Handles
      BY <2>3, ArgumentsKept DEF Opening
    <3> QED BY <3>2, <3>3, <3>4
  <2>4. CASE OpenHandleFails(t)
    <3> USE DEF OpenHandleFails, Goto, locals
    <3>1. handle_state' \in
              [Handles -> {"absent", "closed", "open", "freed"}]
      BY <2>4, FreeCreatedType
    <3>2. TypeOK'
      <4>1. Types'
        BY <2>4, <3>1 DEF Types, TypeOK, object, pool, lock
      <4>2. Locks'
        BY <2>4, MoveLocks DEF Places, WriteLocked, object, lock
      <4> QED BY <4>1, <4>2, TypeOKParts
    <3>3. VolumeInv'
      BY <2>4, VolumeKept
    <3>4. \A u \in Threads : pc'[u] \in Opening => argument'[u] \in Handles
      BY <2>4, ArgumentsKept DEF Opening
    <3> QED BY <3>2, <3>3, <3>4
  <2>5. CASE OpenLock(t)
    <3> USE DEF OpenLock, Goto, locals
    <3>1. TypeOK'
      <4>1. Types'
        BY <2>5 DEF Types, TypeOK, object, pool, lock, GrabForWrite
      <4>2. Locks'
        BY <2>5, GrabLocks DEF Places, WriteLocked
      <4> QED BY <4>1, <4>2, TypeOKParts
    <3>2. VolumeInv'
      BY <2>5, VolumeKept
    <3>3. \A u \in Threads : pc'[u] \in Opening => argument'[u] \in Handles
      BY <2>5, ArgumentsKept DEF Opening
    <3> QED BY <3>1, <3>2, <3>3
  <2>6. CASE OpenReadHeader(t)
    <3> USE DEF OpenReadHeader, Goto, locals
    <3>1. TypeOK'
      <4>1. Types'
        BY <2>6 DEF Types, TypeOK, object, pool, lock
      <4>2. Locks'
        BY <2>6, MoveLocks DEF Places, WriteLocked, object, lock
      <4> QED BY <4>1, <4>2, TypeOKParts
    <3>2. VolumeInv'
      BY <2>6, OneWriter DEF VolumeInv, TypeOK, WriteLocked
    <3>3. \A u \in Threads : pc'[u] \in Opening => argument'[u] \in Handles
      BY <2>6, ArgumentsKept DEF Opening
    <3> QED BY <3>1, <3>2, <3>3
  <2>7. CASE OpenReadHeaderFails(t)
    <3> USE DEF OpenReadHeaderFails, Goto, locals
    <3>1. TypeOK'
      <4>1. Types'
        BY <2>7 DEF Types, TypeOK, object, pool, lock, ReleaseForWrite
      <4>2. Locks'
        BY <2>7, ReleaseLocks DEF Places, WriteLocked
      <4> QED BY <4>1, <4>2, TypeOKParts
    <3>2. VolumeInv'
      BY <2>7, VolumeKept
    <3>3. \A u \in Threads : pc'[u] \in Opening => argument'[u] \in Handles
      BY <2>7, ArgumentsKept DEF Opening
    <3> QED BY <3>1, <3>2, <3>3
  <2>8. CASE OpenReadKeys(t)
    <3> USE DEF OpenReadKeys, Goto, locals
    <3>1. TypeOK'
      <4>1. Types'
        BY <2>8 DEF Types, TypeOK, object, pool, lock, ReleaseForWrite, Opening
      <4>2. Locks'
        BY <2>8, ReleaseLocks DEF Places, WriteLocked
      <4> QED BY <4>1, <4>2, TypeOKParts
    <3>2. VolumeInv'
      <4>1. argument[t] \in Handles /\ argument[t] # NoHandle
        BY <2>8 DEF Opening
      <4>2. volume_header /\ UNCHANGED volume_header
        BY <2>8 DEF VolumeInv
      <4>3. \A u \in Threads : pc'[u] # "open_keys"
        <5>1. pc' \in [Threads -> Places] /\ pc'[t] # "open_keys"
          BY <2>8, <3>1 DEF TypeOK
        <5>2. \A u \in Threads : u # t => pc'[u] = pc[u] /\ pc[u] # "open_keys"
          BY <2>8, OneWriter DEF TypeOK, WriteLocked
        <5> QED BY <5>1, <5>2
      <4> QED BY <2>8, <4>1, <4>2, <4>3 DEF VolumeInv
    <3>3. \A u \in Threads : pc'[u] \in Opening => argument'[u] \in Handles
      BY <2>8, ArgumentsKept DEF Opening
    <3> QED BY <3>1, <3>2, <3>3
  <2>9. CASE OpenReadKeysFails(t)
    <3> USE DEF OpenReadKeysFails, Goto, locals
    <3>1. TypeOK'
      <4>1. Types'
        BY <2>9 DEF Types, TypeOK, object, pool, lock, ReleaseForWrite
      <4>2. Locks'
        BY <2>9, ReleaseLocks DEF Places, WriteLocked
      <4> QED BY <4>1, <4>2, TypeOKParts
    <3>2. VolumeInv'
      BY <2>9, OneWriter DEF VolumeInv, TypeOK, WriteLocked
    <3>3. \A u \in Threads : pc'[u] \in Opening => argument'[u] \in Handles
      BY <2>9, ArgumentsKept DEF Opening
    <3> QED BY <3>1, <3>2, <3>3
  <2>10. CASE OpenFailed(t)
    <3> USE DEF OpenFailed, Goto, locals
    <3>1. handle_state' \in
              [Handles -> {"absent", "closed", "open", "freed"}]
      BY <2>10, FreeCreatedType DEF TypeOK, Opening
    <3>2. TypeOK'
      <4>1. Types'
        BY <2>10, <3>1 DEF Types, TypeOK, object, pool, lock
      <4>2. Locks'
        BY <2>10, MoveLocks DEF Places, WriteLocked, object, lock
      <4> QED BY <4>1, <4>2, TypeOKParts
    <3>3. VolumeInv'
      BY <2>10, VolumeKept
    <3>4. \A u \in Threads : pc'[u] \in Opening => argument'[u] \in Handles
      BY <2>10, ArgumentsKept DEF Opening
    <3> QED BY <3>2, <3>3, <3>4
  <2>11. CASE CreatedLock(t)
    <3> USE DEF CreatedLock, Goto, locals
    <3>1. TypeOK'
      <4>1. Types'
        BY <2>11 DEF Types, TypeOK, object, pool, lock, GrabForWrite
      <4>2. Locks'
        BY <2>11, GrabLocks DEF Places, WriteLocked
      <4> QED BY <4>1, <4>2, TypeOKParts
    <3>2. VolumeInv'
      BY <2>11, VolumeKept
    <3>3. \A u \in Threads : pc'[u] \in Opening => argument'[u] \in Handles
      BY <2>11, ArgumentsKept DEF Opening
    <3> QED BY <3>1, <3>2, <3>3
  <2>12. CASE SetCreated(t)
    <3> USE DEF SetCreated, Goto, locals
    <3>1. TypeOK'
      <4>1. Types'
        BY <2>12 DEF Types, TypeOK, object, pool, lock, ReleaseForWrite
      <4>2. Locks'
        BY <2>12, ReleaseLocks DEF Places, WriteLocked
      <4> QED BY <4>1, <4>2, TypeOKParts
    <3>2. VolumeInv'
      BY <2>12 DEF VolumeInv, TypeOK
    <3>3. \A u \in Threads : pc'[u] \in Opening => argument'[u] \in Handles
      BY <2>12, ArgumentsKept DEF Opening
    <3> QED BY <3>1, <3>2, <3>3
  <2>13. CASE CloseLock(t)
    <3> USE DEF CloseLock, Goto, locals
    <3>1. TypeOK'
      <4>1. Types'
        BY <2>13 DEF Types, TypeOK, object, pool, lock, GrabForWrite
      <4>2. Locks'
        BY <2>13, GrabLocks DEF Places, WriteLocked
      <4> QED BY <4>1, <4>2, TypeOKParts
    <3>2. VolumeInv'
      BY <2>13, VolumeKept
    <3>3. \A u \in Threads : pc'[u] \in Opening => argument'[u] \in Handles
      BY <2>13, ArgumentsKept DEF Opening
    <3> QED BY <3>1, <3>2, <3>3
  <2>14. CASE Close(t)
    <3> USE DEF Close, Goto, locals
    <3>1. handle_state' \in
              [Handles -> {"absent", "closed", "open", "freed"}]
      BY <2>14, SetHandleType DEF TypeOK, FreedState, pool
    <3>2. TypeOK'
      <4>1. Types'
        BY <2>14, <3>1 DEF Types, TypeOK, object, pool, lock, ReleaseForWrite
      <4>2. Locks'
        BY <2>14, ReleaseLocks DEF Places, WriteLocked
      <4> QED BY <4>1, <4>2, TypeOKParts
    <3>3. VolumeInv'
      BY <2>14, OneWriter DEF VolumeInv, TypeOK, WriteLocked
    <3>4. \A u \in Threads : pc'[u] \in Opening => argument'[u] \in Handles
      BY <2>14, ArgumentsKept DEF Opening
    <3> QED BY <3>2, <3>3, <3>4
  <2>15. CASE ReadLock(t)
    <3> USE DEF ReadLock, Goto, locals
    <3>1. TypeOK'
      <4>1. Types'
        BY <2>15 DEF Types, TypeOK, object, pool, lock, GrabForWrite
      <4>2. Locks'
        BY <2>15, GrabLocks DEF Places, WriteLocked
      <4> QED BY <4>1, <4>2, TypeOKParts
    <3>2. VolumeInv'
      BY <2>15, VolumeKept
    <3>3. \A u \in Threads : pc'[u] \in Opening => argument'[u] \in Handles
      BY <2>15, ArgumentsKept DEF Opening
    <3> QED BY <3>1, <3>2, <3>3
  <2>16. CASE Read(t)
    <3> USE DEF Read, Goto, locals
    <3>1. TypeOK'
      <4>1. Types'
        BY <2>16 DEF Types, TypeOK, object, pool, lock, ReleaseForWrite
      <4>2. Locks'
        BY <2>16, ReleaseLocks DEF Places, WriteLocked
      <4> QED BY <4>1, <4>2, TypeOKParts
    <3>2. VolumeInv'
      BY <2>16, VolumeKept
    <3>3. \A u \in Threads : pc'[u] \in Opening => argument'[u] \in Handles
      BY <2>16, ArgumentsKept DEF Opening
    <3> QED BY <3>1, <3>2, <3>3
  <2>17. CASE GetEncryptionMethodLock(t)
    <3> USE DEF GetEncryptionMethodLock, Goto, locals
    <3>1. TypeOK'
      <4>1. Types'
        BY <2>17 DEF Types, TypeOK, object, pool, lock, GrabForRead
      <4>2. Locks'
        BY <2>17, GrabReadLocks DEF Places, WriteLocked
      <4> QED BY <4>1, <4>2, TypeOKParts
    <3>2. VolumeInv'
      BY <2>17, VolumeKept
    <3>3. \A u \in Threads : pc'[u] \in Opening => argument'[u] \in Handles
      BY <2>17, ArgumentsKept DEF Opening
    <3> QED BY <3>1, <3>2, <3>3
  <2>18. CASE GetEncryptionMethod(t)
    <3> USE DEF GetEncryptionMethod, Goto, locals
    <3>1. TypeOK'
      <4>1. Types'
        BY <2>18 DEF Types, TypeOK, object, pool, lock, ReleaseForRead
      <4>2. Locks'
        BY <2>18, ReleaseReadLocks DEF Places, WriteLocked
      <4> QED BY <4>1, <4>2, TypeOKParts
    <3>2. VolumeInv'
      BY <2>18, VolumeKept
    <3>3. \A u \in Threads : pc'[u] \in Opening => argument'[u] \in Handles
      BY <2>18, ArgumentsKept DEF Opening
    <3> QED BY <3>1, <3>2, <3>3
  <2> QED BY <1>2, <2>1, <2>2, <2>3, <2>4, <2>5, <2>6, <2>7, <2>8, <2>9,
             <2>10, <2>11, <2>12, <2>13, <2>14, <2>15, <2>16, <2>17, <2>18
          DEF Proceed
<1>3. CASE UNCHANGED vars
  <2>1. TypeOK'
    BY <1>3 DEF vars, object, lock, pool, locals, TypeOK
  <2>2. VolumeInv'
    BY <1>3 DEF vars, object, VolumeInv
  <2> QED BY <1>3, <2>1, <2>2 DEF vars, locals
<1> QED BY <1>1, <1>2, <1>3 DEF Next, Stopped

\* IInv holds in every state of every execution.
THEOREM Invariant == Spec => []IInv
<1> QED BY InitIInv, NextIInv, PTL DEF Spec

\* The variables have their types and the lock has the right holders: whoever
\* grabs, releases or takes an error exit, no call keeps a lock it has left
\* behind, and no writer is beside another holder.
THEOREM LocksCorrect == Spec => []TypeOK
<1>1. IInv => TypeOK
  BY DEF IInv
<1> QED BY Invariant, <1>1, PTL

\* Threads that look at file_io_handle before they wait for the lock still
\* find, once they have it, a volume that is all open or all closed.
THEOREM VolumeWhole == Spec => []WholeWhenUnlocked
<1>1. IInv => WholeWhenUnlocked
  <2>1. ASSUME TypeOK, writer = NoThread, NEW t \in Threads
        PROVE  pc[t] # "open_keys"
    BY <2>1 DEF TypeOK, WriteLocked
  <2> QED BY <2>1 DEF IInv, VolumeInv, WholeWhenUnlocked
<1> QED BY Invariant, <1>1, PTL

NothingFreed == \A h \in CallerHandles : handle_state[h] # "freed"

\* A library handle that was freed is gone, and may be created again.
LibraryInv == \A h \in LibraryHandles : handle_state[h] # "freed"

VolumeHandleOpen ==
    file_io_handle # NoHandle => handle_state[file_io_handle] = "open"

ArgumentOwned(t) ==
    pc[t] \in Opening =>
        \/ argument[t] \in OwnHandles[t]
        \/ /\ argument[t] \in LibraryHandles
           /\ argument[t] # file_io_handle
           /\ handle_state[argument[t]] # "absent"

ArgumentNotOfVolume(t) ==
    pc[t] \in Opening \ {"check"} => argument[t] # file_io_handle

ArgumentOpen(t) ==
    pc[t] \in {"open_lock", "open_read", "open_keys"} =>
        handle_state[argument[t]] = "open"

ArgumentsDiffer ==
    \A t, u \in Threads :
        (t # u /\ pc[t] \in Opening /\ pc[u] \in Opening) =>
            argument[t] # argument[u]

ArgumentInv ==
    \A t \in Threads :
        ArgumentOwned(t) /\ ArgumentNotOfVolume(t) /\ ArgumentOpen(t)

\* The file IO handle the volume reads from is open, and nobody's open still
\* has it as its argument: the opens in progress are about handles of their
\* own, which is why the error exits, which close the argument without asking
\* whose it is, cannot close the one the volume uses.  Once a handle of the
\* application was freed, nothing is said.
HandleInv ==
    /\ LibraryInv
    /\ NothingFreed => VolumeHandleOpen /\ ArgumentInv /\ ArgumentsDiffer

LEMMA InitHandleInv == Init => HandleInv
<1> SUFFICES ASSUME Init PROVE HandleInv
  OBVIOUS
<1>1. LibraryInv
  BY DEF Init, LibraryInv, Handles
<1>2. \A t \in Threads : pc[t] = "idle"
  BY DEF Init
<1>3. file_io_handle = NoHandle
  BY DEF Init
<1> QED BY <1>1, <1>2, <1>3
        DEF HandleInv, VolumeHandleOpen, ArgumentInv, ArgumentOwned,
            ArgumentNotOfVolume, ArgumentOpen, ArgumentsDiffer, Opening

\* What SetHandle does to the handles.
LEMMA HandleSet ==
    ASSUME TypeOK, NEW h \in Handles, NEW state, SetHandle(h, state)
    PROVE  /\ NothingFreed' => NothingFreed
           /\ handle_state[h] # "freed" => handle_state'[h] = state
           /\ \A g \in Handles \ {h} : handle_state'[g] = handle_state[g]
           /\ (LibraryInv /\ (h \in LibraryHandles => state # "freed")) =>
                  LibraryInv'
BY DEF TypeOK, SetHandle, NothingFreed, LibraryInv, Handles

\* A step of one thread that changes neither the handles nor the volume's one
\* and that starts no part of an open.
LEMMA HandlesKept ==
    ASSUME TypeOK, HandleInv, NEW t \in Threads, NEW to,
           UNCHANGED <<file_io_handle, handle_state, argument>>,
           pc' = [pc EXCEPT ![t] = to],
           to \in Opening => pc[t] \in Opening \ {"check"},
           to \in {"open_lock", "open_read", "open_keys"} =>
               pc[t] \in {"open_lock", "open_read", "open_keys"}
    PROVE  HandleInv'
<1>1. \A u \in Threads : pc'[u] = IF u = t THEN to ELSE pc[u]
  BY DEF TypeOK
<1>2. LibraryInv' /\ (NothingFreed' => NothingFreed)
  BY DEF HandleInv, LibraryInv, NothingFreed
<1>3. ASSUME NothingFreed PROVE ArgumentInv' /\ ArgumentsDiffer'
  BY <1>1, <1>3 DEF HandleInv, ArgumentInv, ArgumentOwned,
                    ArgumentNotOfVolume, ArgumentOpen, ArgumentsDiffer, Opening
<1> QED BY <1>2, <1>3 DEF HandleInv, VolumeHandleOpen

\* A step of one thread that ends its open and leaves its argument in some
\* other state: no other thread uses that handle, and neither does the volume.
LEMMA ArgumentGivenUp ==
    ASSUME TypeOK, HandleInv, NEW t \in Threads, NEW state, state # "freed",
           argument[t] \in Handles, SetHandle(argument[t], state),
           pc[t] \in Opening, pc' = [pc EXCEPT ![t] = "idle"],
           UNCHANGED <<file_io_handle, argument>>,
           argument[t] = file_io_handle => state = handle_state[argument[t]]
    PROVE  HandleInv'
<1>1. \A u \in Threads : pc'[u] = IF u = t THEN "idle" ELSE pc[u]
  BY DEF TypeOK
<1>2. LibraryInv' /\ (NothingFreed' => NothingFreed)
  BY HandleSet DEF HandleInv
<1>3. ASSUME NothingFreed PROVE VolumeHandleOpen'
  BY <1>3, HandleSet DEF HandleInv, VolumeHandleOpen, TypeOK, SetHandle
<1>4. ASSUME NothingFreed, NEW u \in Threads, u # t, pc[u] \in Opening
      PROVE  argument[u] # argument[t]
  BY <1>4 DEF HandleInv, ArgumentsDiffer
<1>5. ASSUME NothingFreed, NEW u \in Threads, u # t, pc[u] \in Opening
      PROVE  handle_state'[argument[u]] = handle_state[argument[u]]
  <2>1. argument[u] \in Handles
    BY <1>5 DEF HandleInv, ArgumentInv, ArgumentOwned, Handles
  <2> QED BY <1>4, <1>5, <2>1, HandleSet
<1>6. ASSUME NothingFreed PROVE ArgumentInv' /\ ArgumentsDiffer'
  BY <1>1, <1>5, <1>6 DEF HandleInv, ArgumentInv, ArgumentOwned,
                    ArgumentNotOfVolume, ArgumentOpen, ArgumentsDiffer, Opening
<1> QED BY <1>2, <1>3, <1>6 DEF HandleInv

LEMMA NextHandleInv == IInv /\ HandleInv /\ [Next]_vars => HandleInv'
<1> SUFFICES ASSUME IInv, HandleInv, [Next]_vars PROVE HandleInv'
  OBVIOUS
<1>0. TypeOK /\ \A t \in Threads : pc[t] \in Opening => argument[t] \in Handles
  BY DEF IInv
<1>1. ASSUME NEW t \in Threads, Begin(t) PROVE HandleInv'
  <2>1. CASE OpenFileIoHandle(t)
    <3> USE DEF OpenFileIoHandle, Call, Goto, object, pool
    <3>1. PICK h \in OwnHandles[t] : argument' = [argument EXCEPT ![t] = h]
      BY <2>1
    <3>2. \A u \in Threads :
              /\ pc'[u] = IF u = t THEN "check" ELSE pc[u]
              /\ argument'[u] = IF u = t THEN h ELSE argument[u]
      BY <1>0, <2>1, <3>1 DEF TypeOK
    <3>3. LibraryInv' /\ (NothingFreed' => NothingFreed)
      BY <2>1 DEF HandleInv, LibraryInv, NothingFreed
    <3>4. ASSUME NothingFreed
          PROVE  VolumeHandleOpen' /\ ArgumentInv'
      BY <2>1, <3>2, <3>4
         DEF HandleInv, VolumeHandleOpen, ArgumentInv, ArgumentOwned,
             ArgumentNotOfVolume, ArgumentOpen, Opening
    <3>5. ASSUME NothingFreed, NEW u \in Threads, u # t, pc[u] \in Opening
          PROVE  argument[u] # h
      <4>1. h \in CallerHandles /\ h \notin OwnHandles[u]
        BY <3>5
      <4> QED BY <3>5, <4>1 DEF HandleInv, ArgumentInv, ArgumentOwned
    <3>6. ASSUME NothingFreed PROVE ArgumentsDiffer'
      BY <3>2, <3>5, <3>6 DEF HandleInv, ArgumentsDiffer, Opening
    <3> QED BY <3>3, <3>4, <3>6 DEF HandleInv
  <2>2. CASE Open(t)
    <3> USE DEF Open, Call, Goto, object
    <3>1. PICK h \in LibraryHandles :
              /\ handle_state[h] = "absent"
              /\ argument' = [argument EXCEPT ![t] = h]
              /\ SetHandle(h, "closed")
      BY <2>2
    <3>2. \A u \in Threads :
              /\ pc'[u] = IF u = t THEN "check" ELSE pc[u]
              /\ argument'[u] = IF u = t THEN h ELSE argument[u]
      BY <1>0, <2>2, <3>1 DEF TypeOK
    <3>3. h \in Handles
      BY DEF Handles
    <3>4. LibraryInv' /\ (NothingFreed' => NothingFreed)
      BY <1>0, <3>1, <3>3, HandleSet DEF HandleInv
    <3>5. /\ handle_state'[h] = "closed"
          /\ \A g \in Handles \ {h} : handle_state'[g] = handle_state[g]
      BY <1>0, <3>1, <3>3, HandleSet
    <3>6. ASSUME NothingFreed PROVE file_io_handle # h
      BY <3>1, <3>3, <3>6 DEF HandleInv, VolumeHandleOpen
    <3>7. ASSUME NothingFreed PROVE VolumeHandleOpen'
      BY <1>0, <2>2, <3>5, <3>6, <3>7 DEF HandleInv, VolumeHandleOpen, TypeOK
    <3>8. ASSUME NothingFreed, NEW u \in Threads, u # t, pc[u] \in Opening
          PROVE  /\ argument[u] # h
                 /\ handle_state'[argument[u]] = handle_state[argument[u]]
      <4>1. argument[u] # h
        BY <3>1, <3>8 DEF HandleInv, ArgumentInv, ArgumentOwned
      <4> QED BY <1>0, <3>5, <3>8, <4>1
    <3>9. ASSUME NothingFreed PROVE ArgumentInv'
      BY <2>2, <3>2, <3>5, <3>6, <3>8, <3>9
         DEF HandleInv, ArgumentInv, ArgumentOwned, ArgumentNotOfVolume,
             ArgumentOpen, Opening
    <3>10. ASSUME NothingFreed PROVE ArgumentsDiffer'
      BY <3>2, <3>8, <3>10 DEF HandleInv, ArgumentsDiffer, Opening
    <3> QED BY <3>4, <3>7, <3>9, <3>10 DEF HandleInv
  <2> QED BY <1>0, <1>1, <2>1, <2>2, HandlesKept
          DEF Begin, CloseCheck, ReadCheck, GetEncryptionMethodCheck, Call,
              Goto, object, pool, Opening
<1>2. ASSUME NEW t \in Threads, Proceed(t) PROVE HandleInv'
  <2>1. CASE CheckClosed(t)
    <3> USE DEF CheckClosed, Goto, object, pool, locals
    <3>1. \A u \in Threads : pc'[u] = IF u = t THEN "open_handle" ELSE pc[u]
      BY <1>0, <2>1 DEF TypeOK
    <3>2. argument[t] # file_io_handle
      BY <1>0, <2>1 DEF Opening, Handles
    <3>3. LibraryInv' /\ (NothingFreed' => NothingFreed)
      BY <2>1 DEF HandleInv, LibraryInv, NothingFreed
    <3>4. ASSUME NothingFreed
          PROVE  VolumeHandleOpen' /\ ArgumentInv' /\ ArgumentsDiffer'
      BY <2>1, <3>1, <3>2, <3>4
         DEF HandleInv, VolumeHandleOpen, ArgumentInv, ArgumentOwned,
             ArgumentNotOfVolume, ArgumentOpen, ArgumentsDiffer, Opening
    <3> QED BY <3>3, <3>4 DEF HandleInv
  <2>2. CASE CheckRefuses(t)
    <3> USE DEF CheckRefuses, FreeCreated, Goto, object, locals
    <3>1. CASE NothingFreed
      <4>1. argument[t] \in LibraryHandles => argument[t] # file_io_handle
        BY <2>2, <3>1 DEF HandleInv, ArgumentInv, ArgumentOwned, Opening
      <4>2. handle_state[argument[t]] # "freed"
        BY <1>0, <2>2, <3>1
           DEF HandleInv, LibraryInv, NothingFreed, Opening, Handles
      <4> QED BY <1>0, <2>2, <4>1, <4>2, ArgumentGivenUp DEF Opening
    <3>2. CASE ~NothingFreed
      BY <1>0, <2>2, <3>2, HandleSet DEF HandleInv, Opening
    <3> QED BY <3>1, <3>2
  <2>3. CASE OpenHandle(t)
    <3> USE DEF OpenHandle, Goto, object
    <3>1. \A u \in Threads : pc'[u] = IF u = t THEN "open_lock" ELSE pc[u]
      BY <1>0, <2>3 DEF TypeOK
    <3>2. argument[t] \in Handles
      BY <1>0, <2>3 DEF Opening
    <3>3. LibraryInv' /\ (NothingFreed' => NothingFreed)
      BY <1>0, <2>3, <3>2, HandleSet DEF HandleInv
    <3>4. ASSUME NothingFreed PROVE handle_state'[argument[t]] = "open"
      <4>1. handle_state[argument[t]] # "freed"
        BY <3>2, <3>4 DEF HandleInv, LibraryInv, NothingFreed, Handles
      <4> QED BY <1>0, <2>3, <3>2, <4>1, HandleSet
    <3>5. \A g \in Handles \ {argument[t]} : handle_state'[g] = handle_state[g]
      BY <1>0, <2>3, <3>2, HandleSet
    <3>6. ASSUME NothingFreed PROVE VolumeHandleOpen'
      BY <1>0, <2>3, <3>4, <3>5, <3>6 DEF HandleInv, VolumeHandleOpen, TypeOK
    <3>7. ASSUME NothingFreed, NEW u \in Threads, u # t, pc[u] \in Opening
          PROVE  handle_state'[argument[u]] = handle_state[argument[u]]
      <4>1. argument[u] # argument[t]
        BY <2>3, <3>7 DEF HandleInv, ArgumentsDiffer, Opening
      <4> QED BY <1>0, <3>5, <3>7, <4>1
    <3>8. ASSUME NothingFreed PROVE ArgumentInv'
      BY <2>3, <3>1, <3>4, <3>7, <3>8
         DEF HandleInv, ArgumentInv, ArgumentOwned, ArgumentNotOfVolume,
             ArgumentOpen, Opening
    <3>9. ASSUME NothingFreed PROVE ArgumentsDiffer'
      BY <2>3, <3>1, <3>9 DEF HandleInv, ArgumentsDiffer, Opening
    <3> QED BY <3>3, <3>6, <3>8, <3>9 DEF HandleInv
  <2>4. CASE OpenHandleFails(t)
    <3> USE DEF OpenHandleFails, FreeCreated, Goto, object, locals
    <3>1. CASE NothingFreed
      <4>1. argument[t] # file_io_handle
        BY <2>4, <3>1 DEF HandleInv, ArgumentInv, ArgumentNotOfVolume, Opening
      <4> QED BY <1>0, <2>4, <4>1, ArgumentGivenUp DEF Opening
    <3>2. CASE ~NothingFreed
      BY <1>0, <2>4, <3>2, HandleSet DEF HandleInv, Opening
    <3> QED BY <3>1, <3>2
  <2>5. CASE OpenReadKeys(t)
    <3> USE DEF OpenReadKeys, Goto, pool, locals
    <3>1. \A u \in Threads :
              /\ u # t => pc'[u] = pc[u]
              /\ pc'[t] \in {"idle", "created_lock"}
      BY <1>0, <2>5 DEF TypeOK
    <3>2. LibraryInv' /\ (NothingFreed' => NothingFreed)
      BY <2>5 DEF HandleInv, LibraryInv, NothingFreed
    <3>3. ASSUME NothingFreed PROVE VolumeHandleOpen'
      BY <2>5, <3>3 DEF HandleInv, VolumeHandleOpen, ArgumentInv, ArgumentOpen
    <3>4. ASSUME NothingFreed, NEW u \in Threads, u # t, pc[u] \in Opening
          PROVE  argument[u] # file_io_handle'
      BY <2>5, <3>4 DEF HandleInv, ArgumentsDiffer, Opening
    <3>5. ASSUME NothingFreed PROVE ArgumentInv' /\ ArgumentsDiffer'
      BY <2>5, <3>1, <3>4, <3>5
         DEF HandleInv, ArgumentInv, ArgumentOwned, ArgumentNotOfVolume,
             ArgumentOpen, ArgumentsDiffer, Opening
    <3> QED BY <3>2, <3>3, <3>5 DEF HandleInv
  <2>6. CASE OpenFailed(t)
    <3> USE DEF OpenFailed, FreeCreated, Goto, object, locals
    <3>1. CASE NothingFreed
      <4>1. argument[t] # file_io_handle
        BY <2>6, <3>1 DEF HandleInv, ArgumentInv, ArgumentNotOfVolume, Opening
      <4>2. handle_state[argument[t]] # "freed"
        BY <1>0, <2>6, <3>1
           DEF HandleInv, LibraryInv, NothingFreed, Opening, Handles
      <4> QED BY <1>0, <2>6, <4>1, <4>2, ArgumentGivenUp DEF Opening
    <3>2. CASE ~NothingFreed
      BY <1>0, <2>6, <3>2, HandleSet DEF HandleInv, Opening
    <3> QED BY <3>1, <3>2
  <2>7. CASE Close(t)
    <3> USE DEF Close, Goto, locals
    <3>1. \A u \in Threads : pc'[u] = IF u = t THEN "idle" ELSE pc[u]
      BY <1>0, <2>7 DEF TypeOK
    <3>2. LibraryInv' /\ (NothingFreed' => NothingFreed)
      <4>1. CASE file_io_handle = NoHandle
        BY <2>7, <4>1 DEF HandleInv, LibraryInv, NothingFreed, pool
      <4>2. CASE file_io_handle # NoHandle
        BY <1>0, <2>7, <4>2, HandleSet
           DEF HandleInv, LibraryInv, FreedState, TypeOK
      <4> QED BY <4>1, <4>2
    <3>3. ASSUME NothingFreed, NEW u \in Threads, u # t, pc[u] \in Opening,
                 argument[u] # file_io_handle
          PROVE  handle_state'[argument[u]] = handle_state[argument[u]]
      <4>1. CASE file_io_handle = NoHandle
        BY <2>7, <4>1 DEF pool
      <4>2. CASE file_io_handle # NoHandle
        BY <1>0, <2>7, <3>3, <4>2, HandleSet DEF TypeOK
      <4> QED BY <4>1, <4>2
    <3>4. ASSUME NothingFreed PROVE ArgumentInv' /\ ArgumentsDiffer'
      <4>1. \A u \in Threads : pc[u] \in Opening => argument[u] # NoHandle
        BY <1>0
      <4>2. pc[t] \notin Opening
        BY <2>7 DEF Opening
      <4> QED BY <2>7, <3>1, <3>3, <3>4, <4>1, <4>2
              DEF HandleInv, ArgumentInv, ArgumentOwned, ArgumentNotOfVolume,
                  ArgumentOpen, ArgumentsDiffer, Opening
    <3> QED BY <2>7, <3>2, <3>4 DEF HandleInv, VolumeHandleOpen
  <2>8. CASE \/ OpenLock(t) \/ OpenReadHeader(t) \/ OpenReadHeaderFails(t)
             \/ OpenReadKeysFails(t)
    BY <1>0, <2>8, HandlesKept
       DEF OpenLock, OpenReadHeader, OpenReadHeaderFails, OpenReadKeysFails,
           Goto, object, pool, locals, Opening
  <2>9. CASE \/ CreatedLock(t) \/ SetCreated(t) \/ CloseLock(t)
             \/ ReadLock(t) \/ Read(t)
             \/ GetEncryptionMethodLock(t) \/ GetEncryptionMethod(t)
    BY <1>0, <2>9, HandlesKept
       DEF CreatedLock, SetCreated, CloseLock, ReadLock, Read,
           GetEncryptionMethodLock, GetEncryptionMethod, Goto, object, pool,
           locals, Opening
  <2> QED BY <1>2, <2>1, <2>2, <2>3, <2>4, <2>5, <2>6, <2>7, <2>8, <2>9
          DEF Proceed
<1>3. CASE UNCHANGED vars
  BY <1>3 DEF vars, object, pool, locals, HandleInv, LibraryInv, NothingFreed,
              VolumeHandleOpen, ArgumentInv, ArgumentOwned,
              ArgumentNotOfVolume, ArgumentOpen, ArgumentsDiffer
<1> QED BY <1>1, <1>2, <1>3 DEF Next, Stopped

\* Until a handle of the application was freed, a read that found a volume
\* under the lock reads from a handle that is open, whatever opens and closes
\* the other threads are in the middle of.
THEOREM ReadsAreFromOpenHandle == Spec => []ReadsFromOpenHandle
<1>1. IInv /\ HandleInv => ReadsFromOpenHandle
  <2>1. ASSUME TypeOK, NEW t \in Threads, pc[t] = "read"
        PROVE  \A u \in Threads : pc[u] # "open_keys"
    BY <2>1, OneWriter DEF WriteLocked
  <2> QED BY <2>1 DEF IInv, VolumeInv, HandleInv, NothingFreed,
                      VolumeHandleOpen, ReadsFromOpenHandle
<1>2. Spec => []HandleInv
  BY InitHandleInv, NextHandleInv, Invariant, PTL DEF Spec
<1> QED BY <1>1, <1>2, Invariant, PTL
=============================================================================
