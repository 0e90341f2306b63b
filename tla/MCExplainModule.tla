-------------------------- MODULE MCExplainModule --------------------------
(***************************************************************************)
(* A main server and one virtual server, two sessions that are alike, and  *)
(* enough pools for a restart or a reload while they live.                 *)
(***************************************************************************)
EXTENDS DocumentedModule, TLC

Alike == Permutations(Sessions)
=============================================================================
