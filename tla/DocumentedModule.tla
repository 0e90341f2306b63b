-------------------------- MODULE DocumentedModule --------------------------
(***************************************************************************)
(* What mod_explain.html says of a directive, where the code does          *)
(* otherwise.                                                              *)
(***************************************************************************)
EXTENDS ExplainModule

\* mod_explain.html:45 gives the context of ExplainEngine as "server config,
\* <VirtualHost>, <Global>": the server starts with a valid ExplainEngine in
\* any of them.
EngineInVirtualHost ==
  ~(rejected.name = "ExplainEngine" /\ rejected.valid)
=============================================================================
