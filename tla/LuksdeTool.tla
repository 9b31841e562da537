----------------------------- MODULE LuksdeTool -----------------------------
(***************************************************************************)
(* What luksdemount and luksdeinfo have in common: the options are copied  *)
(* into a handle, a volume of libluksde is made and opened with them, and  *)
(* when it stays locked the user is asked for a password.  The two open    *)
(* functions are the same code twice; the steps here are those of          *)
(* luksdetools/mount_handle.c, and Luksdeinfo says which lines of          *)
(* info_handle.c they are as well.                                         *)
(*                                                                         *)
(* The volume is the abstract one of VolumeAccess, which VolumeKeys is     *)
(* shown to implement.  The heap counts objects by kind; a pointer that is *)
(* not NULL is a member of held, so that freeing twice is a count below 0. *)
(***************************************************************************)
EXTENDS Integers, Sequences, FiniteSets

CONSTANTS
    WordSize,       \* values of an offset, 2^64 in the code
    MaxDigits,      \* digits of a decimal string: one more than it takes
    Options,        \* the arguments of a program and what its user types
    ToolFaults      \* calls of libraries and allocations may fail

ASSUME WordAssumption == WordSize \in Nat \ {0} /\ WordSize % 2 = 0

VARIABLES
    tool,           \* the program: "mount" or "info"
    pc,             \* where its main function is
    options,        \* the arguments, and what the user types at the prompt
    settings,       \* key_data, volume_offset and password of the handle
    heap,           \* number of objects of each kind
    held,           \* pointers that are not NULL
    prompt,         \* the buffer a password is typed into
    volume, unlocked, key, password     \* the volume of libluksde

accessVars == <<volume, unlocked, key, password>>
toolVars == <<tool, pc, options, settings, heap, held, prompt, accessVars>>

ToolKeys == {"right", "wrong"}
ToolPasswords == {"right", "wrong"}
SlotIsOpenedBy(p, v) == p = "right"

Access == INSTANCE VolumeAccess
          WITH Volumes <- {"source"}, NoVolume <- "none",
               Keys <- ToolKeys, NoKey <- "none",
               MasterKeyOf <- [v \in {"source"} |-> "right"],
               Passwords <- ToolPasswords, NoPassword <- "none",
               OpensSlotOf <- SlotIsOpenedBy

Kinds == {"handle", "file_system", "file_io_handle", "volume", "fuse",
          "entry", "name", "stat"}
Pointers == {"handle", "file_io_handle", "volume", "fuse"}

NoSettings == [key |-> "none", offset |-> 0, password |-> "none"]

\* The arguments: a key that may not be hexadecimal, a password, the decimal
\* string of an offset, unattended mode; and what is typed when asked.
ASSUME OptionsAssumption ==
    \A o \in Options :
        /\ o.key \in ToolKeys \cup {"none", "malformed"}
        /\ o.password \in ToolPasswords \cup {"none"}
        /\ o.typed \in ToolPasswords \cup {"none"}
        /\ o.offset.sign \in {"", "+", "-"}
        /\ o.offset.digits \in Seq(0 .. 9)
        /\ o.offset.junk \in BOOLEAN
        /\ o.unattended \in BOOLEAN

ToolInit ==
    /\ pc = "initialize"
    /\ options \in Options
    /\ settings = NoSettings
    /\ heap = [k \in Kinds |-> 0]
    /\ held = {}
    /\ prompt = "none"
    /\ Access!Init

-----------------------------------------------------------------------------
(* Objects                                                                 *)

\* The numbers of objects of some kinds go up or down by one each.
Changed(kinds, by) == [k \in Kinds |-> heap[k] + (IF k \in kinds THEN by ELSE 0)]

New(kind) ==
    /\ heap' = Changed({kind}, 1)
    /\ held' = held \cup {kind}

\* What the pointers hold is freed and they are set to NULL.
FreeHeld(pointers) ==
    /\ heap' = Changed(held \cap pointers, -1)
    /\ held' = held \ pointers

\* libluksde_volume_free: an open volume is closed.
VolumeIsGone ==
    /\ volume' = "none"
    /\ unlocked' = FALSE
    /\ key' = "none"
    /\ password' = "none"

-----------------------------------------------------------------------------
(* The options                                                             *)

\* A decimal string is a sign, digits and perhaps something else behind.
SignOf(string) == IF string.sign = "-" THEN -1 ELSE 1

\* The value of each beginning of a sequence of digits, which wraps around.
WrappedValues(digits) ==
    LET value[n \in 0 .. Len(digits)] ==
            IF n = 0 THEN 0 ELSE ((value[n - 1] * 10) + digits[n]) % WordSize
    IN  value

WrappedNumber(digits) == WrappedValues(digits)[Len(digits)]

\* Mutant of DecimalValue: the sign is passed over.
DecimalValueUnsigned(string) == WrappedNumber(string.digits)

\* A negative value is its two's complement.
DecimalValue(string) == (SignOf(string) * WrappedNumber(string.digits)) % WordSize

IsDecimal(string) == ~ string.junk /\ Len(string.digits) <= MaxDigits

\* off64_t is signed.
ToSigned(value) == IF value < WordSize \div 2 THEN value ELSE value - WordSize

\* The next place of main, or its error handling.
Goto(place) == pc' = place
MayFail == ToolFaults /\ pc' = "on_error"

SetKey(next) ==
    /\ pc = "set_key"
    /\ \/ /\ options.key # "malformed"
          /\ settings' = [settings EXCEPT !.key = options.key]
          /\ Goto(next)
       \/ /\ options.key = "malformed"
          /\ settings' = [settings EXCEPT !.key = "none"]
          /\ Goto("on_error")
    /\ UNCHANGED <<tool, options, heap, held, prompt, accessVars>>

SetOffset(next) ==
    /\ pc = "set_offset"
    /\ \/ /\ IsDecimal(options.offset)
          /\ settings' = [settings EXCEPT
                            !.offset = ToSigned(DecimalValue(options.offset))]
          /\ Goto(next)
       \/ /\ ~ IsDecimal(options.offset)
          /\ Goto("on_error")
          /\ UNCHANGED settings
    /\ UNCHANGED <<tool, options, heap, held, prompt, accessVars>>

SetPassword(next) ==
    /\ pc = "set_password"
    /\ settings' = [settings EXCEPT !.password = options.password]
    /\ Goto(next)
    /\ UNCHANGED <<tool, options, heap, held, prompt, accessVars>>

-----------------------------------------------------------------------------
(* Opening the volume.  Every step may fail, which OpenFails cleans up.    *)

OpenUnchanged == UNCHANGED <<tool, options, settings>>

\* A range of the file is made, named and given its offset.
OpenRange ==
    /\ pc = "open_range"
    /\ New("file_io_handle")
    /\ pc' \in {"open_volume"} \cup (IF settings.offset < 0 \/ ToolFaults
                                     THEN {"open_failed"} ELSE {})
    /\ UNCHANGED <<prompt, accessVars>>
    /\ OpenUnchanged

OpenVolume ==
    /\ pc = "open_volume"
    /\ New("volume")
    /\ Goto("open_key")
    /\ UNCHANGED <<prompt, accessVars>>
    /\ OpenUnchanged

\* The key is set when there is one, and so is the password.
OpenSetKey ==
    /\ pc = "open_key"
    /\ IF settings.key = "none"
       THEN UNCHANGED accessVars
       ELSE Access!SupplyKey /\ key' = settings.key
    /\ Goto("open_password")
    /\ UNCHANGED <<heap, held, prompt>>
    /\ OpenUnchanged

OpenSetPassword ==
    /\ pc = "open_password"
    /\ IF settings.password = "none"
       THEN UNCHANGED accessVars
       ELSE Access!SupplyPassword /\ password' = settings.password
    /\ Goto("open_library")
    /\ UNCHANGED <<heap, held, prompt>>
    /\ OpenUnchanged

\* libluksde looks for a key before it answers an open or an unlock call.
FindKey ==
    /\ pc \in {"open_library", "open_unlock"}
    /\ Access!FindKey
    /\ UNCHANGED <<pc, heap, held, prompt>>
    /\ OpenUnchanged

OpenLibrary ==
    /\ pc = "open_library"
    /\ Access!Open
    /\ Goto("open_locked")
    /\ UNCHANGED <<heap, held, prompt>>
    /\ OpenUnchanged

\* A volume that is locked needs a password, unless nobody is there to ask.
OpenAsks ==
    /\ pc = "open_locked"
    /\ Goto(IF unlocked \/ options.unattended THEN "open_done"
            ELSE "open_prompt")
    /\ UNCHANGED <<heap, held, prompt, accessVars>>
    /\ OpenUnchanged

Prompt ==
    /\ pc = "open_prompt"
    /\ prompt' = options.typed
    /\ Goto("open_prompted")
    /\ UNCHANGED <<heap, held, accessVars>>
    /\ OpenUnchanged

\* Mutant of OpenPrompted: the buffer is not cleared.
OpenPromptedKeepingBuffer ==
    /\ pc = "open_prompted"
    /\ IF prompt = "none"
       THEN UNCHANGED accessVars
       ELSE Access!SupplyPassword /\ password' = prompt
    /\ Goto("open_unlock")
    /\ UNCHANGED <<heap, held, prompt>>
    /\ OpenUnchanged

\* What was typed is set, when it is not empty, and the buffer is cleared.
OpenPrompted ==
    /\ pc = "open_prompted"
    /\ IF prompt = "none"
       THEN UNCHANGED accessVars
       ELSE Access!SupplyPassword /\ password' = prompt
    /\ prompt' = "none"
    /\ Goto("open_unlock")
    /\ UNCHANGED <<heap, held>>
    /\ OpenUnchanged

\* Unlocking answers whether a key was found.
OpenUnlock ==
    /\ pc = "open_unlock"
    /\ \/ Access!Unlock
       \/ UNCHANGED accessVars
    /\ Goto("open_done")
    /\ UNCHANGED <<heap, held, prompt>>
    /\ OpenUnchanged

OpenPlaces == {"open_range", "open_volume", "open_key", "open_password",
               "open_library", "open_locked", "open_prompt", "open_prompted",
               "open_unlock"}

OpenStepFails ==
    /\ ToolFaults
    /\ pc \in OpenPlaces
    /\ Goto("open_failed")
    /\ prompt' \in {prompt} \cup (IF pc = "open_prompt" THEN {options.typed} ELSE {})
    /\ UNCHANGED <<heap, held, accessVars>>
    /\ OpenUnchanged

\* Mutant of OpenFails: the range is not freed.
OpenFailsKeepingRange ==
    /\ pc = "open_failed"
    /\ heap' = Changed(held \cap {"volume"}, -1)
    /\ held' = held \ {"volume", "file_io_handle"}
    /\ VolumeIsGone
    /\ prompt' = "none"
    /\ Goto("on_error")
    /\ OpenUnchanged

\* The volume is freed, then the range it reads from; the buffer is cleared.
OpenFails ==
    /\ pc = "open_failed"
    /\ FreeHeld({"volume", "file_io_handle"})
    /\ VolumeIsGone
    /\ prompt' = "none"
    /\ Goto("on_error")
    /\ OpenUnchanged

OpenStep ==
    \/ OpenRange \/ OpenVolume \/ OpenSetKey \/ OpenSetPassword \/ OpenLibrary
    \/ OpenAsks \/ Prompt \/ OpenPrompted \/ OpenUnlock \/ OpenStepFails
    \/ OpenFails
=============================================================================
