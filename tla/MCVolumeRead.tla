---------------------------- MODULE MCVolumeRead ----------------------------
(***************************************************************************)
(* A small instance of VolumeRead: sectors of two bytes, a volume of three *)
(* sectors and one that ends in the middle of its third.                   *)
(***************************************************************************)
EXTENDS VolumeRead

CONSTANTS v1, v2

MCSize == [v \in Volumes |-> IF v = v1 THEN 6 ELSE 5]
=============================================================================
