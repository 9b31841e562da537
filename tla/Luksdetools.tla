---------------------------- MODULE Luksdetools ----------------------------
(***************************************************************************)
(* The two programs of luksdetools together: luksdemount with its          *)
(* callbacks and luksdeinfo, each in a process of its own, over the same   *)
(* steps of opening a volume.                                              *)
(***************************************************************************)
EXTENDS MountCallbacks, Luksdeinfo

ToolsInit ==
    /\ tool \in {"mount", "info"}
    /\ ToolInit
    /\ MountInit
    /\ tool = "info" => driver = "fuse"

\* One step of the program, without the kernel's and the user's choices.
ProgramStep ==
    \/ tool = "mount" /\ MountStep /\ UNCHANGED mountVars
    \/ tool = "mount" /\ MountFrees
                      /\ UNCHANGED <<driver, volumes_array, fh, call, directories,
                                    leaked>>
    \/ tool = "mount" /\ OpenAppend
                      /\ UNCHANGED <<driver, fh, call, directories, leaked, lost>>
    \/ tool = "mount" /\ CallbackStep
    \/ tool = "info" /\ InfoStep /\ UNCHANGED mountVars

ToolsNext ==
    \/ ProgramStep
    \/ FindKey /\ UNCHANGED mountVars
    \/ tool = "mount" /\ Callback
    \/ tool = "mount" /\ Unmount /\ UNCHANGED mountVars

toolsVars == <<toolVars, mountVars>>

\* A program that can go on does, and so do the calls it makes: reads end and
\* the user answers the prompt.  When a file is opened or the volume unmounted
\* is up to others.
ToolsFairness == WF_toolsVars(ProgramStep)

-----------------------------------------------------------------------------
ToolsTypeOK ==
    /\ tool \in {"mount", "info"}
    /\ heap \in [Kinds -> Nat]
    /\ held \subseteq Pointers
    /\ \A k \in held : heap[k] = 1
    /\ prompt \in ToolPasswords \cup {"none"}
    /\ settings.offset \in -(WordSize \div 2) .. (WordSize \div 2) - 1
    /\ volumes_array \in 0 .. 1
    /\ \A f \in Files : fh[f] = NoEntry \/ fh[f].entry \in 0 .. volumes_array

\* A volume is mounted only when its data can be decrypted, which takes its key
\* or a password of it, as an argument or typed: when unlocking finds no key,
\* or nobody can be asked, the mount fails.
MountedIsUnlocked ==
    tool = "mount" /\ volumes_array > 0 =>
        /\ unlocked
        /\ "right" \in {options.key, options.password, options.typed}

Exited == pc = "returned" /\ ~(driver # "fuse" /\ volumes_array > 0)

\* When main has returned, of all that it and the handle had allocated two
\* things may be left: the mounted volume, which closing the handle leaves out,
\* and the range it reads from, when closing that failed.  Under Dokan all of a
\* mount is left to the system.
ExitLeavesOnlyVolumes ==
    Exited =>
        /\ \A k \in Kinds \ {"entry", "volume", "file_io_handle"} : heap[k] = 0
        /\ heap["volume"] = volumes_array
        /\ heap["file_io_handle"] = lost
        /\ lost <= volumes_array

\* What was typed at the prompt does not stay in the buffer after the volume
\* is opened or opening it has failed.
PasswordIsCleared ==
    pc \notin {"open_prompted", "open_failed"} => prompt = "none"

\* Between and within callbacks every entry belongs to an open file or to a
\* pointer of the running callback, which frees it also when a step fails:
\* but for the entries of directories that were released.
EntriesAreAccountedFor ==
    heap["entry"] =
        Cardinality({f \in Files : fh[f] # NoEntry})
            + Cardinality({p \in call.pointers : KindOf(p) = "entry"}) + leaked

\* More volumes than are ever mounted.
MaxVolumes == 120

\* The path that a volume is listed under is the path that is looked up, for
\* more volumes than are ever mounted, with case and, for Dokan, without.  It
\* depends on the driver alone and is looked at where a volume is appended.
PathsResolve ==
    pc = "open_done" =>
        \A i \in 0 .. MaxVolumes - 1 :
            VolumeByPath(PathFromVolumeIndex(i), MaxVolumes, driver # "fuse") = i + 1

\* A directory that was read to its end lists itself, its parent and every
\* volume once, under names that open what they were listed for.
ListingIsComplete ==
    call.answer = "listed" =>
        LET subs == SubSeq(call.listing, 3, Len(call.listing))
        IN  /\ Len(subs) = NumberOfSubFileEntries(call.listing[1].entry, volumes_array)
            /\ \A k \in 1 .. Len(subs) :
                  /\ subs[k].entry = k
                  /\ VolumeByPath(subs[k].path, volumes_array, driver # "fuse") = k

TypedOffset == SignOf(options.offset) * Number(options.offset.digits)

\* The volume is looked for at the offset that was given, sign and all, as
\* long as 64 bits hold it.
OffsetIsTyped ==
    /\ pc \in OpenPlaces
    /\ TypedOffset \in -(WordSize \div 2) .. (WordSize \div 2) - 1
    => settings.offset = TypedOffset

ToolsGoOn ==
    /\ []<>(pc \in {"loop", "returned"})
    /\ [](call.op # "none" => <>(call.op = "none"))
=============================================================================
