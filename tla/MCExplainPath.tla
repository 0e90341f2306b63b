--------------------------- MODULE MCExplainPath ---------------------------
(***************************************************************************)
(* Paths of up to three components.  In the run about lengths the second   *)
(* name is longer than the limit, the path of three components is as long  *)
(* as the limit, "/bbbb/cc", and that of four is longer; pathconf(3) knows *)
(* all limits, none, or all but that of names.                             *)
(***************************************************************************)
EXTENDS DocumentedPath

MCNameLen == <<1, 2, 3>>
MCRawLen == <<1, 3, 7>>
MCLongName == <<1, 4, 2, 1>>
MCLongRaw == <<1, 5, 8, 10>>
MCPerms == {{}, {"x"}, {"x", "w"}}
MCCoarse == {{}, {"x", "w"}}
MCSticky == {{}, {"x", "w"}, {"x", "w", "t"}}
MCAllPerms == MCPerms \cup MCSticky
Known == [name_max |-> 3, no_trunc |-> 1, path_max |-> 8]
NoName == [Known EXCEPT !.name_max = -1]
Unknown == [name_max |-> -1, no_trunc |-> -1, path_max |-> -1]
KnownOnly == {Known}
MCAnswers == {Known, NoName, Unknown}
=============================================================================
