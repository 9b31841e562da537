--------------------------- MODULE MountCallbacks ---------------------------
(***************************************************************************)
(* The callbacks of luksdemount: luksdetools/mount_fuse.c and              *)
(* mount_dokan.c.  They look entries up by path, and allocate and free     *)
(* them while directories are read; the steps that both drivers take alike *)
(* are written once, from mount_fuse.c, and named again for Dokan.         *)
(***************************************************************************)
EXTENDS Luksdemount

-----------------------------------------------------------------------------
(* Pointers of the running callback                                        *)

KindOf(pointer) ==
    IF pointer \in {"file_entry", "parent", "sub"} THEN "entry" ELSE pointer

\* Objects that the callback's pointers are given, or that they lose.
Locals(pointers, by) ==
    [k \in Kinds |-> heap[k] + (by * Cardinality({p \in pointers : KindOf(p) = k}))]

Ended(answer) == [NoCall EXCEPT !.answer = answer]

\* A callback may begin.
Called == pc = "loop" /\ call.op = "none"

At(op, place) == pc = "loop" /\ call.op \in op /\ call.at = place

callUnchanged == UNCHANGED <<tool, pc, options, settings, held, prompt,
                             accessVars, driver, volumes_array, lost>>

\* mount_handle_get_file_entry_by_path: the entry of a path, if there is one
\* and it can be allocated.
FileEntriesByPath(path) ==
    {VolumeByPath(path, volumes_array, driver # "fuse")}
        \cup (IF ToolFaults THEN {NoEntry} ELSE {})

-----------------------------------------------------------------------------
(* Files                                                                   *)

\* An entry is made for a file the kernel opens, and answers its later calls.
OpenEntry(f, path, is_directory, refusal) ==
    /\ fh[f] = NoEntry
    /\ \E entry \in FileEntriesByPath(path) :
          IF entry = NoEntry
          THEN call' = Ended(refusal) /\ UNCHANGED <<heap, fh>>
          ELSE /\ heap' = Locals({"file_entry"}, 1)
               /\ fh' = [fh EXCEPT ![f] = [entry |-> entry, is_directory |-> is_directory]]
               /\ call' = Ended("opened")

IsOpen(f, is_directory) ==
    fh[f] # NoEntry /\ fh[f].is_directory = is_directory

\* Only reading is granted.
FuseOpen(f, path, read_only) ==
    /\ driver = "fuse" /\ Called
    /\ IF read_only
       THEN OpenEntry(f, path, FALSE, "ENOENT")
       ELSE call' = Ended("EACCES") /\ UNCHANGED <<heap, fh>>
    /\ UNCHANGED <<directories, leaked>>
    /\ callUnchanged

\* A read of the root finds no volume; a locked volume has no data to read.
\* mount_file_entry_read_buffer_at_offset
ReadAnswers(f) ==
    (IF fh[f].entry # RootEntry /\ unlocked THEN {"data"} ELSE {"EIO"})
        \cup (IF ToolFaults THEN {"EIO"} ELSE {})

FuseRead(f) ==
    /\ driver = "fuse" /\ Called
    /\ IsOpen(f, FALSE)
    /\ \E answer \in ReadAnswers(f) : call' = Ended(answer)
    /\ UNCHANGED <<heap, fh, directories, leaked>>
    /\ callUnchanged

CloseEntry(f) ==
    /\ heap' = Locals({"file_entry"}, -1)
    /\ fh' = [fh EXCEPT ![f] = NoEntry]
    /\ call' = Ended("closed")

FuseRelease(f) ==
    /\ driver = "fuse" /\ Called
    /\ IsOpen(f, FALSE)
    /\ CloseEntry(f)
    /\ UNCHANGED <<directories, leaked>>
    /\ callUnchanged

FuseOpendir(f, path) ==
    /\ driver = "fuse" /\ Called
    /\ directories < MaxDirectories
    /\ OpenEntry(f, path, TRUE, "ENOENT")
    /\ directories' = directories + 1
    /\ UNCHANGED leaked
    /\ callUnchanged

\* The pointer is set to NULL; the entry stays.
FuseReleasedir(f) ==
    /\ driver = "fuse" /\ Called
    /\ IsOpen(f, TRUE)
    /\ fh' = [fh EXCEPT ![f] = NoEntry]
    /\ leaked' = leaked + 1
    /\ call' = Ended("closed")
    /\ UNCHANGED <<heap, directories>>
    /\ callUnchanged

-----------------------------------------------------------------------------
(* Reading a directory                                                     *)

DirectoryOps == {"readdir", "find_files"}

Listed(path, entry) == Append(call.listing, [path |-> path, entry |-> entry])

\* Memory for the attributes is allocated; the entry is that of opendir.
FuseReaddir(f) ==
    /\ driver = "fuse" /\ Called
    /\ IsOpen(f, TRUE)
    /\ call' = [op |-> "readdir", at |-> "dot", entry |-> fh[f].entry, index |-> 0,
                pointers |-> {"stat"}, listing |-> <<>>, answer |-> "none"]
    /\ heap' = Locals({"stat"}, 1)
    /\ UNCHANGED <<fh, directories, leaked>>
    /\ callUnchanged

\* The directory is filled in and its parent's entry made, if it has one.
FillDot ==
    /\ At(DirectoryOps, "dot")
    /\ LET parent == IF ParentFileEntry(call.entry) = NoEntry THEN {} ELSE {"parent"}
       IN  /\ heap' = Locals(parent, 1)
           /\ call' = [call EXCEPT !.at = "parent", !.pointers = @ \cup parent,
                            !.listing = Listed(Path(".", <<>>), call.entry)]
    /\ UNCHANGED <<fh, directories, leaked>>
    /\ callUnchanged

\* The parent is filled in and its entry freed.
FillParent ==
    /\ At(DirectoryOps, "parent")
    /\ heap' = Locals(call.pointers \cap {"parent"}, -1)
    /\ call' = [call EXCEPT !.at = "sub", !.pointers = @ \ {"parent"},
                    !.listing = Listed(Path("..", <<>>), ParentFileEntry(call.entry))]
    /\ UNCHANGED <<fh, directories, leaked>>
    /\ callUnchanged

\* Mutant of HasSubEntry: the last volume is left out.
HasSubEntryButLast ==
    call.index + 1 < NumberOfSubFileEntries(call.entry, volumes_array)

HasSubEntry == call.index < NumberOfSubFileEntries(call.entry, volumes_array)

\* The entry and the name of the next volume are made.
NextSubEntry ==
    /\ At(DirectoryOps, "sub")
    /\ HasSubEntry
    /\ heap' = Locals({"sub", "name"}, 1)
    /\ call' = [call EXCEPT !.at = "fill", !.pointers = @ \cup {"sub", "name"}]
    /\ UNCHANGED <<fh, directories, leaked>>
    /\ callUnchanged

\* Mutant of FillSubEntry: the entry that was filled in is not freed.
FillSubEntryKeepingEntry ==
    /\ At(DirectoryOps, "fill")
    /\ heap' = Locals({"name"}, -1)
    /\ call' = [call EXCEPT !.at = "sub", !.index = @ + 1,
                    !.pointers = @ \ {"sub", "name"},
                    !.listing = Listed(PathFromVolumeIndex(call.index),
                                       SubFileEntry(call.index))]
    /\ UNCHANGED <<fh, directories, leaked>>
    /\ callUnchanged

\* Mutant of FillSubEntry: the index is not counted on.
FillSubEntryAgain ==
    /\ At(DirectoryOps, "fill")
    /\ heap' = Locals({"sub", "name"}, -1)
    /\ call' = [call EXCEPT !.at = "sub", !.pointers = @ \ {"sub", "name"}]
    /\ UNCHANGED <<fh, directories, leaked>>
    /\ callUnchanged

\* It is filled in, and both are freed.
FillSubEntry ==
    /\ At(DirectoryOps, "fill")
    /\ heap' = Locals({"sub", "name"}, -1)
    /\ call' = [call EXCEPT !.at = "sub", !.index = @ + 1,
                    !.pointers = @ \ {"sub", "name"},
                    !.listing = Listed(PathFromVolumeIndex(call.index),
                                       SubFileEntry(call.index))]
    /\ UNCHANGED <<fh, directories, leaked>>
    /\ callUnchanged

DirectoryEnds ==
    /\ At(DirectoryOps, "sub")
    /\ ~ HasSubEntry
    /\ heap' = Locals(call.pointers, -1)
    /\ call' = [Ended("listed") EXCEPT !.listing = call.listing]
    /\ UNCHANGED <<fh, directories, leaked>>
    /\ callUnchanged

\* A buffer that is full is an error like the others, at every step: what the
\* pointers hold is freed.
CallFails ==
    /\ pc = "loop"
    /\ call.op # "none"
    /\ heap' = Locals(call.pointers, -1)
    /\ call' = Ended("EIO")
    /\ UNCHANGED <<fh, directories, leaked>>
    /\ callUnchanged

-----------------------------------------------------------------------------
(* Attributes                                                              *)

GetEntry(op, path) ==
    /\ \E entry \in FileEntriesByPath(path) :
          IF entry = NoEntry
          THEN call' = Ended("ENOENT") /\ UNCHANGED heap
          ELSE /\ heap' = Locals({"file_entry"}, 1)
               /\ call' = [op |-> op, at |-> "dot", entry |-> entry, index |-> 0,
                           pointers |-> {"file_entry"}, listing |-> <<>>,
                           answer |-> "none"]
    /\ UNCHANGED <<fh, directories, leaked>>
    /\ callUnchanged

FuseGetattr(path) ==
    /\ driver = "fuse" /\ Called
    /\ GetEntry("getattr", path)

AttributesEnd ==
    /\ At({"getattr"}, "dot")
    /\ heap' = Locals(call.pointers, -1)
    /\ call' = Ended(FileMode(call.entry))
    /\ UNCHANGED <<fh, directories, leaked>>
    /\ callUnchanged

-----------------------------------------------------------------------------
(* Dokan                                                                   *)

\* Before version 0.8 files and directories are opened by calls of their own.
\* Writing is refused, and so is every disposition but opening.
DokanCreateFile(f, path, opens) ==
    /\ driver = "dokan" /\ Called
    /\ IF opens
       THEN OpenEntry(f, path, FALSE, "ENOENT")
       ELSE call' = Ended("EACCES") /\ UNCHANGED <<heap, fh>>
    /\ UNCHANGED <<directories, leaked>>
    /\ callUnchanged

DokanZwCreateFile(f, path, opens) ==
    /\ driver = "dokany" /\ Called
    /\ IF opens
       THEN OpenEntry(f, path, FALSE, "ENOENT")
       ELSE call' = Ended("EACCES") /\ UNCHANGED <<heap, fh>>
    /\ UNCHANGED <<directories, leaked>>
    /\ callUnchanged

DokanOpenDirectory(f, path) ==
    /\ driver = "dokan" /\ Called
    /\ OpenEntry(f, path, TRUE, "ENOENT")
    /\ UNCHANGED <<directories, leaked>>
    /\ callUnchanged

\* Files and directories alike are closed by it.
DokanCloseFile(f) ==
    /\ driver # "fuse" /\ Called
    /\ fh[f] # NoEntry
    /\ CloseEntry(f)
    /\ UNCHANGED <<directories, leaked>>
    /\ callUnchanged

DokanReadFile(f) ==
    /\ driver # "fuse" /\ Called
    /\ fh[f] # NoEntry
    /\ \E answer \in ReadAnswers(f) : call' = Ended(answer)
    /\ UNCHANGED <<heap, fh, directories, leaked>>
    /\ callUnchanged

\* A directory is read through an entry of its own, by path.
DokanFindFiles(path) ==
    /\ driver # "fuse" /\ Called
    /\ GetEntry("find_files", path)

DokanFillDots == driver # "fuse" /\ (FillDot \/ FillParent)

DokanFillSubEntries == driver # "fuse" /\ (NextSubEntry \/ FillSubEntry)

DokanFindFilesEnds == driver # "fuse" /\ call.op = "find_files" /\ (DirectoryEnds \/ CallFails)

DokanGetFileInformation(path) ==
    /\ driver # "fuse" /\ Called
    /\ GetEntry("getattr", path)

DokanFileInformationEnds ==
    driver # "fuse" /\ call.op = "getattr" /\ (AttributesEnd \/ CallFails)

\* The same names and flags for every volume.
DokanGetVolumeInformation ==
    /\ driver # "fuse" /\ Called
    /\ call' = Ended("LUKSDE")
    /\ UNCHANGED <<heap, fh, directories, leaked>>
    /\ callUnchanged

-----------------------------------------------------------------------------
FuseStep ==
    /\ driver = "fuse"
    /\ FillDot \/ FillParent \/ NextSubEntry \/ FillSubEntry \/ DirectoryEnds
       \/ AttributesEnd

\* A callback goes on.
CallbackStep ==
    \/ FuseStep
    \/ DokanFillDots \/ DokanFillSubEntries
    \/ DokanFindFilesEnds \/ DokanFileInformationEnds

\* The kernel calls, or a call of FUSE fails.
Callback ==
    \/ driver = "fuse" /\ CallFails
    \/ \E f \in Files :
          \/ FuseRead(f) \/ FuseRelease(f) \/ FuseReaddir(f) \/ FuseReleasedir(f)
          \/ DokanCloseFile(f) \/ DokanReadFile(f)
    \/ \E f \in Files, path \in Paths :
          \/ FuseOpendir(f, path) \/ DokanOpenDirectory(f, path)
          \/ \E may \in BOOLEAN :
                \/ FuseOpen(f, path, may) \/ DokanCreateFile(f, path, may)
                \/ DokanZwCreateFile(f, path, may)
    \/ \E path \in Paths :
          FuseGetattr(path) \/ DokanFindFiles(path) \/ DokanGetFileInformation(path)
    \/ DokanGetVolumeInformation
=============================================================================
