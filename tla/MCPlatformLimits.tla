-------------------------- MODULE MCPlatformLimits --------------------------
(***************************************************************************)
(* Two directories that lie on file systems of their own; of the second    *)
(* kind of file system pathconf(3) knows no limit of names, of the third   *)
(* kind nothing.                                                           *)
(***************************************************************************)
EXTENDS PlatformLimits

Short == [name_max |-> 14, no_trunc |-> 0, path_max |-> 1024]
NoNames == [name_max |-> -1, no_trunc |-> 1, path_max |-> 4096]
MCTold == {Short, NoNames, Unset}
=============================================================================
