-------------------------- MODULE MCExplainSession --------------------------
(***************************************************************************)
(* The third name is too long for the path's file system.  Elsewhere there *)
(* is a directory where names have to be shorter, and one where paths have *)
(* to; pathconf(3) leaves a limit of each open, so that the getters answer *)
(* with limits of two file systems.  Of a path that cannot be looked up it *)
(* tells what does not depend on the path.                                 *)
(***************************************************************************)
EXTENDS ExplainSession

MCNameLen == <<1, 2, 4>>
MCRawLen == <<1, 3, 7>>
MCPerms == {{}, {"x", "w"}}
Known == [name_max |-> 3, no_trunc |-> 1, path_max |-> 8]
MCUntold == [Known EXCEPT !.name_max = -1]
ShortNames == [name_max |-> 1, no_trunc |-> -1, path_max |-> 12]
ShortPaths == [name_max |-> -1, no_trunc |-> 1, path_max |-> 5]
MCElsewhere == {ShortNames, ShortPaths}
MCAnswers == {[name_max |-> a, no_trunc |-> 1, path_max |-> b] : a \in {-1, 1, 3}, b \in {5, 8, 12}}
=============================================================================
