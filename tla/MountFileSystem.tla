--------------------------- MODULE MountFileSystem ---------------------------
(***************************************************************************)
(* The names of mounted volumes (luksdetools/mount_file_system.c) and the  *)
(* entries a mount answers with (mount_file_entry.c).                      *)
(*                                                                         *)
(* A path is a name and the decimal digits behind it.  An entry is the     *)
(* number of its volume, counted from 1; the root is entry 0.              *)
(***************************************************************************)
EXTENDS Integers, Sequences

CONSTANT NoEntry

\* What no entry is: neither the number of a volume nor an open file's entry.
ASSUME EntryAssumption ==
    NoEntry \notin Nat \cup [entry : Nat, is_directory : BOOLEAN]

Path(name, digits) == [name |-> name, digits |-> digits]

Root == Path("/", <<>>)
RootEntry == 0

\* Decimal digits without leading zeros; none for 0.
Digits[n \in Nat] ==
    IF n = 0 THEN <<>> ELSE Append(Digits[n \div 10], n % 10)

\* Mutant of PathFromVolumeIndex: volumes are counted from 0.
PathFromVolumeIndexZeroBased(volume_index) == Path("/luksde", Digits[volume_index])

PathFromVolumeIndex(volume_index) == Path("/luksde", Digits[volume_index + 1])

\* The value of each beginning of a sequence of digits.
Values(digits) ==
    LET value[n \in 0 .. Len(digits)] ==
            IF n = 0 THEN 0 ELSE (value[n - 1] * 10) + digits[n]
    IN  value

Number(digits) == Values(digits)[Len(digits)]

\* The volume of a path: as many as four digits behind the prefix, which
\* Windows compares without case.  A number that no volume has is an error,
\* a path of another form no entry; the callers take both for no such file.
VolumeByPath(path, number_of_volumes, caseless) ==
    LET prefix == path.name \in {"/luksde"} \cup (IF caseless THEN {"/LUKSDE"} ELSE {})
    IN  CASE path = Root -> RootEntry
          [] /\ prefix
             /\ Len(path.digits) \in 1 .. 4
             /\ Number(path.digits) \in 1 .. number_of_volumes ->
                Number(path.digits)
          [] OTHER -> NoEntry

\* The parent of a volume is a new entry of the root, which has no parent.
ParentFileEntry(entry) == IF entry = RootEntry THEN NoEntry ELSE RootEntry

\* A volume has no sub entries.
NumberOfSubFileEntries(entry, number_of_volumes) ==
    IF entry = RootEntry THEN number_of_volumes ELSE 0

\* The sub entry of an index, which is named by its path without separator.
SubFileEntry(index) == index + 1

\* The root is a directory, a volume a file that can only be read.
FileMode(entry) == IF entry = RootEntry THEN "directory" ELSE "file"
=============================================================================
