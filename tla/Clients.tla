------------------------------ MODULE Clients ------------------------------
(***************************************************************************)
(* The programs that use libluksde, side by side: the tools and the Python *)
(* bindings.  They share nothing but the library; a behaviour is that of   *)
(* one of them, while the other does not run.                              *)
(***************************************************************************)
EXTENDS Luksdetools, Pyluksde

VARIABLE client

clientVars == <<toolsVars, pyVars, client>>

Init ==
    /\ client \in {"tools", "python"}
    /\ ToolsInit
    /\ PyInit
    /\ client = "python" =>
          /\ tool = "info"
          /\ options = CHOOSE o \in Options : TRUE

\* A program that has returned takes no step, nor an interpreter whose volume
\* object is gone.
Next ==
    \/ client = "tools" /\ ToolsNext /\ UNCHANGED <<pyVars, client>>
    \/ client = "python" /\ PyNext /\ UNCHANGED <<toolsVars, client>>

Spec == Init /\ [][Next]_clientVars

FairSpec ==
    /\ Spec
    /\ client = "tools" => ToolsFairness
    /\ client = "python" => PyFairness

\* Every variable has a value of its type; above all the tools free no object
\* that does not exist, on any way through main, the callbacks and their error
\* handling: mount_fuse_destroy and main free the same handle.
TypeOK == ToolsTypeOK /\ PyTypeOK

\* Both programs come to their end or to the loop of the mount, and every
\* callback to its answer: no step of opening or of reading a directory is
\* taken for ever.
ToolsReturn == client = "tools" => ToolsGoOn

\* Every method returns to Python: no two threads wait for each other's gil and
\* lock of the volume, whatever functions of the file object are called back.
PyCallsReturn == client = "python" => PyMethodsReturn
=============================================================================
