----------------------------- MODULE Luksdeinfo -----------------------------
(***************************************************************************)
(* luksdeinfo: its main function and the info handle                       *)
(* (luksdetools/luksdeinfo.c and info_handle.c), in the steps of           *)
(* LuksdeTool.  Other than a mount it goes on with a volume that stays     *)
(* locked, and prints what its header says.                                *)
(***************************************************************************)
EXTENDS LuksdeTool

\* info_handle_initialize
InfoInitialize ==
    /\ pc = "initialize"
    /\ \/ New("handle") /\ Goto("set_key")
       \/ MayFail /\ UNCHANGED <<heap, held>>
    /\ UNCHANGED <<tool, options, settings, prompt, accessVars>>

\* The password is set before the offset.
InfoSetKey == SetKey("set_password")
InfoSetPassword == SetPassword("set_offset")
InfoSetVolumeOffset == SetOffset("open_range")

\* The range and the volume are kept in the handle from the beginning; it was
\* not opened before.
InfoOpenRange == {"file_io_handle", "volume"} \cap held = {} /\ OpenRange
InfoOpenVolume == OpenVolume \/ OpenSetKey \/ OpenSetPassword \/ OpenLibrary
InfoOpenPrompt == OpenAsks \/ Prompt \/ OpenPrompted \/ OpenUnlock
InfoOpenFails == OpenStepFails \/ OpenFails

\* Whether the volume is locked or not, it is open.
InfoOpened ==
    /\ pc = "open_done"
    /\ Goto("fprint")
    /\ UNCHANGED <<heap, held, prompt, accessVars>>
    /\ OpenUnchanged

\* The getters of a volume that is open answer or fail.
InfoVolumeFprint ==
    /\ pc = "fprint"
    /\ Goto("close") \/ MayFail
    /\ UNCHANGED <<tool, options, settings, heap, held, prompt, accessVars>>

\* Mutant of InfoClosed: the volume is not freed.
InfoClosedKeepingVolume == {"file_io_handle"}

\* info_handle_close: the volume is closed and freed, then its range, also
\* when one of the three fails.
InfoClosed == {"file_io_handle", "volume"}

InfoClose ==
    /\ pc = "close"
    /\ FreeHeld(InfoClosed)
    /\ VolumeIsGone
    /\ Goto("free") \/ MayFail
    /\ UNCHANGED <<tool, options, settings, prompt>>

\* info_handle_free, after an error as well: a handle that still has a range
\* is closed first.
InfoFree ==
    /\ pc \in {"free", "on_error"}
    /\ FreeHeld({"handle"} \cup (IF "file_io_handle" \in held THEN InfoClosed ELSE {}))
    /\ VolumeIsGone
    /\ settings' = NoSettings
    /\ Goto("returned")
    /\ UNCHANGED <<tool, options, prompt>>

InfoStep ==
    \/ InfoInitialize \/ InfoSetKey \/ InfoSetPassword \/ InfoSetVolumeOffset
    \/ InfoOpenRange \/ InfoOpenVolume \/ InfoOpenPrompt \/ InfoOpenFails
    \/ InfoOpened \/ InfoVolumeFprint \/ InfoClose \/ InfoFree
=============================================================================
