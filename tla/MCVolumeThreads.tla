--------------------------- MODULE MCVolumeThreads ---------------------------
(***************************************************************************)
(* A small instance of VolumeThreads: two threads, each with a file IO     *)
(* handle of its own and the choice to open by name.                       *)
(***************************************************************************)
EXTENDS VolumeThreads, TLC

CONSTANTS t1, t2, h1, h2, f1, f2

MCOwnHandles == (t1 :> {h1}) @@ (t2 :> {h2})
=============================================================================
