---------------------------- MODULE Luksdemount ----------------------------
(***************************************************************************)
(* luksdemount: its main function, the life of the mount handle, the one   *)
(* volume that is mounted, and the callbacks of FUSE (mount_fuse.c) or     *)
(* Dokan (mount_dokan.c), whichever the program is built for.              *)
(*                                                                         *)
(* FUSE and Dokan are external: they call back while their loop runs, one  *)
(* call at a time, and destroying FUSE calls mount_fuse_destroy, unless    *)
(* the file system never came to life.                                     *)
(***************************************************************************)
EXTENDS LuksdeTool, MountFileSystem

CONSTANTS
    Files,          \* the kernel's open files
    Paths,          \* the paths it asks for
    MaxDirectories  \* bound on the directories it opens

VARIABLES
    driver,         \* what is mounted with: "fuse", "dokan" before version
                    \* 0.8 or "dokany"
    volumes_array,  \* number of mounted volumes
    fh,             \* the entry of each open file
    call,           \* the callback that runs: its name and place, the entry
                    \* it works on, the pointers it holds, what it listed of
                    \* a directory, the answer
    directories,    \* directories opened
    leaked,         \* entries whose last pointer is gone
    lost            \* ranges whose last pointer is gone

mountVars == <<driver, volumes_array, fh, call, directories, leaked, lost>>

NoCall == [op |-> "none", at |-> "none", entry |-> NoEntry, index |-> 0,
           pointers |-> {}, listing |-> <<>>, answer |-> "none"]

MountInit ==
    /\ driver \in {"fuse", "dokan", "dokany"}
    /\ volumes_array = 0
    /\ fh = [f \in Files |-> NoEntry]
    /\ call = NoCall
    /\ directories = 0
    /\ leaked = 0
    /\ lost = 0

-----------------------------------------------------------------------------
(* main, as far as the mount                                               *)

Initialize ==
    /\ pc = "initialize"
    /\ \/ /\ heap' = Changed({"handle", "file_system"}, 1)
          /\ held' = held \cup {"handle"}
          /\ Goto("set_key")
       \/ MayFail /\ UNCHANGED <<heap, held>>
    /\ UNCHANGED <<tool, options, settings, prompt, accessVars>>

SetPathPrefix ==
    /\ pc = "set_path_prefix"
    /\ Goto("open_range") \/ MayFail
    /\ UNCHANGED <<tool, options, settings, heap, held, prompt, accessVars>>

\* Mutant of OpenIsUnlocked: the answer of the unlock call is passed on.
OpenIsUnlockedAnyway == TRUE

\* A volume is only mounted when it is not locked, or no longer.
OpenIsUnlocked == unlocked

\* The volume is appended, the handle keeps the range it reads from.
OpenAppend ==
    /\ pc = "open_done"
    /\ \/ /\ OpenIsUnlocked
          /\ volumes_array' = volumes_array + 1
          /\ held' = held \ {"volume"}
          /\ Goto(IF driver = "fuse" THEN "fuse_mount" ELSE "loop")
       \/ /\ ~ OpenIsUnlocked \/ ToolFaults
          /\ Goto("open_failed")
          /\ UNCHANGED <<volumes_array, held>>
    /\ UNCHANGED <<heap, prompt, accessVars>>
    /\ OpenUnchanged

\* FUSE is mounted and its handle made.
FuseNew ==
    /\ pc = "fuse_mount"
    /\ \/ New("fuse") /\ pc' \in {"loop"} \cup (IF ToolFaults THEN {"on_error"} ELSE {})
       \/ MayFail /\ UNCHANGED <<heap, held>>
    /\ UNCHANGED <<tool, options, settings, prompt, accessVars>>

-----------------------------------------------------------------------------
(* Closing                                                                 *)

\* mount_handle_close: of the volumes all but the first, of which there is no
\* other, are closed and freed.  The range is closed, and when that succeeds
\* freed.
HandleClosed(closes) ==
    (IF closes THEN held \cap {"file_io_handle"} ELSE {})
        \cup (IF volumes_array > 1 THEN {"volume"} ELSE {})

\* mount_file_system_free: the array of volumes is freed without its volumes.
FileSystemFreed == {"file_system"}

\* mount_handle_free: the handle is freed whether it could be closed or not.
HandleFreed(closes) ==
    IF "handle" \in held
    THEN {"handle"} \cup HandleClosed(closes) \cup FileSystemFreed ELSE {}

\* What is freed besides the handle is named.  Of a range that could not be
\* closed the handle had the last pointer.
MountHandleFree(others) ==
    \E closes \in {TRUE} \cup (IF ToolFaults THEN {FALSE} ELSE {}) :
        /\ heap' = Changed(HandleFreed(closes) \cup others, -1)
        /\ lost' = lost + (IF ~ closes /\ {"handle", "file_io_handle"} \subseteq held
                          THEN 1 ELSE 0)

\* Mutant of FuseDestroy: the callback leaves main its pointer to the handle.
FuseDestroyKeepingPointer ==
    /\ MountHandleFree({})
    /\ UNCHANGED held

\* mount_fuse_destroy frees the handle that main has as well.
FuseDestroy ==
    /\ MountHandleFree({})
    /\ held' = held \ {"handle", "file_io_handle"}

\* The loop of FUSE has ended: destroying it calls mount_fuse_destroy.
FuseReturns ==
    /\ pc = "unmounted"
    /\ FuseDestroy
    /\ Goto("destroyed")
    /\ UNCHANGED <<tool, options, settings, prompt, accessVars>>

\* A loop that fails goes the way of the other errors: FUSE is destroyed, and
\* calls back when the file system had come to life.
FuseFails ==
    /\ pc = "on_error"
    /\ "fuse" \in held
    /\ FuseDestroy \/ UNCHANGED <<heap, held, lost>>
    /\ Goto("destroyed_on_error")
    /\ UNCHANGED <<tool, options, settings, prompt, accessVars>>

\* What is left is freed, the handle only when FUSE has not called back.
MountReturns ==
    /\ \/ pc = "on_error" /\ "fuse" \notin held
       \/ pc = "destroyed_on_error"
    /\ MountHandleFree(held \cap {"fuse"})
    /\ held' = {}
    /\ settings' = NoSettings
    /\ Goto("returned")
    /\ UNCHANGED <<tool, options, prompt, accessVars>>

\* After its loop main returns: FUSE is gone, what Dokan used is left to the
\* system.
MountSucceeds ==
    /\ pc \in {"destroyed", "unmounted_dokan"}
    /\ heap' = Changed(held \cap {"fuse"}, -1)
    /\ held' = held \ {"fuse"}
    /\ Goto("returned")
    /\ UNCHANGED <<tool, options, settings, prompt, accessVars>>

\* The user unmounts, or the loop of FUSE fails.
Unmount ==
    /\ pc = "loop"
    /\ call.op = "none"
    /\ \/ Goto(IF driver = "fuse" THEN "unmounted" ELSE "unmounted_dokan")
       \/ driver = "fuse" /\ MayFail
    /\ UNCHANGED <<tool, options, settings, heap, held, prompt, accessVars>>

\* One step of main; the program of the mount has these beside the steps of
\* LuksdeTool.
MountStep ==
    \/ Initialize \/ SetKey("set_offset") \/ SetOffset("set_password")
    \/ SetPassword("set_path_prefix") \/ SetPathPrefix \/ OpenStep
    \/ FuseNew \/ MountSucceeds

\* The steps of main that may free the handle.
MountFrees == FuseReturns \/ FuseFails \/ MountReturns
=============================================================================
