---------------------------- MODULE MCVolumeKeys ----------------------------
(***************************************************************************)
(* A small instance of VolumeKeys.  v1 and v2 have master keys of different*)
(* sizes, and kOther fits neither; v3 has a damaged header.  v1 has one    *)
(* slot that works, after a disabled one and before one without stripes;   *)
(* v2 has two enabled slots with different passwords and stripes.          *)
(***************************************************************************)
EXTENDS VolumeKeys

CONSTANTS v1, v2, v3, k1, k2, kOther, pw1, pw2

MCKeySize == [k \in Keys |-> IF k = k1 THEN 16 ELSE 32]

MCMasterKeyOf == [v \in Volumes |-> IF v = v1 THEN k1 ELSE k2]

Enabled(pass, stripes) ==
    [enabled |-> TRUE, password |-> pass, number_of_stripes |-> stripes]

Disabled == [enabled |-> FALSE, password |-> pw1, number_of_stripes |-> 2]

MCKeySlots ==
    [v \in Volumes |->
        [s \in SlotIndexes |->
            CASE s = 0 -> IF v = v1 THEN Disabled ELSE Enabled(pw1, 2)
              [] s = 1 -> IF v = v1 THEN Enabled(pw1, 2) ELSE Disabled
              [] s = 2 -> IF v = v1 THEN Enabled(pw2, 0) ELSE Enabled(pw2, 3)]]
=============================================================================
