--------------------------- MODULE ExplainModule ---------------------------
(***************************************************************************)
(* The life of the module in the server (mod_explain.c): the daemon loads  *)
(* it, parses the configuration, serves, restarts, unloads the module and  *)
(* shuts down, while the sessions it has forked go on with their own       *)
(* copies of the module's variables, of the list of explainers and of the  *)
(* configuration.                                                          *)
(***************************************************************************)
EXTENDS Integers, FiniteSets

CONSTANTS
  Sessions,  \* sessions alive at a time
  Servers,   \* the virtual servers of the configuration; Main is one of them
  Main,      \* the main server: the context CONF_ROOT
  MaxPools   \* bound: pools made for the module while the daemon runs

ASSUME ModuleAssumption ==
  /\ Main \in Servers
  /\ IsFiniteSet(Sessions)
  /\ MaxPools \in Nat \ {0}

Verbosities == {"minimal", "terse", "detailed"}

\* The records of the directives in one server's configuration: the value of
\* its first ExplainVerbosity, and whether an ExplainOptions record is there,
\* with a value or with argv[0] still NULL.
ServerConf == [ExplainVerbosity : Verbosities \cup {"unset"},
               ExplainOptions : {"unset", "value", "NULL"}]
NoConf == [s \in Servers |-> [ExplainVerbosity |-> "unset", ExplainOptions |-> "unset"]]

VARIABLES
  daemon,   \* the daemon process
  session,  \* session[s]: the process of session s
  made,     \* how many pools have been made
  rejected  \* the directive the server has refused to start with

vars == <<daemon, session, made, rejected>>

(***************************************************************************)
(* A process.  Pools are numbered in the order they are made and 0 is      *)
(* NULL; "explainer" is the pool the module's explainer was registered in, *)
(* or 0 when the error API has none of this module.  "says" is a history   *)
(* variable: the ExplainEngine directive of the configuration parsed.      *)
(***************************************************************************)
Process == [phase : {"absent", "parsing", "serving", "forked", "active", "over"},
            explain_engine : BOOLEAN, explain_pool : 0 .. MaxPools,
            live : SUBSET (1 .. MaxPools), explainer : 0 .. MaxPools,
            explain_verbosity : Verbosities, conf : [Servers -> ServerConf],
            says : {"unset", "on", "off"}, failed : BOOLEAN,
            server : Servers, corrupt : BOOLEAN]

\* The static initializers; the server has parsed nothing yet.
Absent == [phase |-> "absent", explain_engine |-> TRUE, explain_pool |-> 0,
           live |-> {}, explainer |-> 0, explain_verbosity |-> "detailed",
           conf |-> NoConf, says |-> "unset", failed |-> FALSE, server |-> Main,
           corrupt |-> FALSE]

NoDirective == [name |-> "none", server |-> Main, valid |-> FALSE]

TypeOK ==
  /\ daemon \in Process
  /\ session \in [Sessions -> Process]
  /\ made \in 0 .. MaxPools
  /\ rejected \in [name : {"none", "ExplainEngine", "ExplainOptions", "ExplainVerbosity"},
                   server : Servers, valid : BOOLEAN]

Init ==
  /\ daemon = Absent
  /\ session = [s \in Sessions |-> Absent]
  /\ made = 0
  /\ rejected = NoDirective
-----------------------------------------------------------------------------
(***************************************************************************)
(* The error API and the pools, as the module uses them.                   *)
(***************************************************************************)

\* pr_error_unregister_explainer walks the list of explainers: if the pool of
\* one has been destroyed, it walks through freed memory.
Unregister(p) ==
  [p EXCEPT !.explainer = 0,
            !.corrupt = @ \/ (p.explainer # 0 /\ p.explainer \notin p.live)]

DestroyPool(p) == [p EXCEPT !.live = @ \ {p.explain_pool}]

MakePool(p) == [p EXCEPT !.explain_pool = made + 1, !.live = @ \cup {made + 1}]

\* pr_error_register_explainer gives NULL when the module has an explainer,
\* when there is no pool, and when ok is FALSE for a reason of its own.
Register(p, ok) ==
  IF ok /\ p.explainer = 0 /\ p.explain_pool # 0
  THEN [p EXCEPT !.explainer = p.explain_pool]
  ELSE p
-----------------------------------------------------------------------------
(***************************************************************************)
(* The daemon.                                                             *)
(***************************************************************************)
explain_init ==
  /\ daemon.phase = "absent" /\ made < MaxPools
  /\ daemon' = [MakePool(daemon) EXCEPT !.phase = "parsing"]
  /\ made' = made + 1
  /\ UNCHANGED <<session, rejected>>

\* A directive is refused: the server logs a fatal error and exits.
Refuse(name, server, valid) ==
  /\ daemon' = [daemon EXCEPT !.phase = "over"]
  /\ rejected' = [name |-> name, server |-> server, valid |-> valid]
  /\ UNCHANGED <<session, made>>

Record(d) == daemon' = d /\ UNCHANGED <<session, made, rejected>>

\* Mutant of set_explainengine: what get_boolean gives is not checked.
set_explainengine_Unchecked(server, value) ==
  /\ daemon.phase = "parsing"
  /\ IF server # Main
     THEN Refuse("ExplainEngine", server, value # "bad")
     ELSE Record([daemon EXCEPT !.explain_engine = (value # "off"), !.says = value])

\* ExplainEngine in the context of server; value is "on", "off" or no Boolean.
set_explainengine(server, value) ==
  /\ daemon.phase = "parsing"
  /\ IF server # Main \/ value = "bad"
     THEN Refuse("ExplainEngine", server, value # "bad")
     ELSE Record([daemon EXCEPT !.explain_engine = (value = "on"), !.says = value])

\* No option exists, so every use is refused, after its record has been added.
set_explainoptions(server) ==
  /\ daemon.phase = "parsing"
  /\ daemon' = [daemon EXCEPT !.phase = "over",
                              !.conf[server].ExplainOptions = "NULL"]
  /\ rejected' = [name |-> "ExplainOptions", server |-> server, valid |-> FALSE]
  /\ UNCHANGED <<session, made>>

set_explainverbosity(server, value) ==
  /\ daemon.phase = "parsing"
  /\ IF value \notin Verbosities
     THEN Refuse("ExplainVerbosity", server, FALSE)
     ELSE Record(IF daemon.conf[server].ExplainVerbosity = "unset"
                 THEN [daemon EXCEPT !.conf[server].ExplainVerbosity = value]
                 ELSE daemon)

\* Mutant of explain_postparse_ev: the engine is not looked at.
explain_postparse_ev_Always(ok) ==
  /\ daemon.phase = "parsing"
  /\ LET d == Register(daemon, ok)
     IN daemon' = [d EXCEPT !.phase = "serving",
                            !.failed = d = daemon,
                            !.explain_engine = @ /\ d # daemon]
  /\ UNCHANGED <<session, made, rejected>>

\* The end of parsing is announced and the daemon serves; ok is FALSE when the
\* error API cannot register the explainer.
explain_postparse_ev(ok) ==
  /\ daemon.phase = "parsing"
  /\ LET d == IF daemon.explain_engine THEN Register(daemon, ok) ELSE daemon
     IN daemon' = [d EXCEPT !.phase = "serving",
                            !.failed = daemon.explain_engine /\ d = daemon,
                            !.explain_engine = @ /\ d # daemon]
  /\ UNCHANGED <<session, made, rejected>>

\* Mutant of explain_restart_ev: the engine is not reset.
explain_restart_ev_KeepsEngine ==
  /\ daemon.phase = "serving" /\ made < MaxPools
  /\ daemon' = [MakePool(DestroyPool(Unregister(daemon)))
                  EXCEPT !.phase = "parsing", !.conf = NoConf,
                         !.says = "unset", !.failed = FALSE]
  /\ made' = made + 1
  /\ UNCHANGED <<session, rejected>>

\* The server restarts: the listeners are called, then it forgets its
\* configuration and parses it anew.
explain_restart_ev ==
  /\ daemon.phase = "serving" /\ made < MaxPools
  /\ daemon' = [MakePool(DestroyPool(Unregister(daemon)))
                  EXCEPT !.explain_engine = TRUE, !.phase = "parsing",
                         !.conf = NoConf, !.says = "unset", !.failed = FALSE]
  /\ made' = made + 1
  /\ UNCHANGED <<session, rejected>>

\* Mutant of Discard: the pool is destroyed while the explainer is in it.
Discard_PoolFirst(p) == [Unregister(DestroyPool(p)) EXCEPT !.explain_pool = 0]

\* What shutting down and unloading do: no pool is left.
Discard(p) == [DestroyPool(Unregister(p)) EXCEPT !.explain_pool = 0]

explain_shutdown_ev ==
  /\ daemon.phase = "serving"
  /\ daemon' = [Discard(daemon) EXCEPT !.phase = "over"]
  /\ UNCHANGED <<session, made, rejected>>

\* A shared module is unloaded.  To be used again it is loaded anew, with a
\* restart that parses the configuration: its variables are initialized.
explain_mod_unload_ev ==
  /\ daemon.phase = "serving"
  /\ LET d == Discard(daemon)
     IN daemon' = [Absent EXCEPT !.live = d.live, !.explainer = d.explainer,
                                 !.corrupt = d.corrupt]
  /\ UNCHANGED <<session, made, rejected>>
-----------------------------------------------------------------------------
(***************************************************************************)
(* A session: a copy of the daemon, bound to one of the virtual servers.   *)
(***************************************************************************)
Fork(s, server) ==
  /\ daemon.phase = "serving" /\ session[s].phase = "absent"
  /\ session' = [session EXCEPT ![s] = [daemon EXCEPT !.phase = "forked",
                                                      !.server = server]]
  /\ UNCHANGED <<daemon, made, rejected>>

\* Mutant of explain_sess_init: the configuration is that of the main server.
explain_sess_init_Main(s) ==
  LET p == session[s]
      c == p.conf[Main]
  IN /\ p.phase = "forked"
     /\ session' = [session EXCEPT ![s] =
          IF ~p.explain_engine THEN [p EXCEPT !.phase = "active"]
          ELSE [p EXCEPT !.phase = "active",
                         !.explain_verbosity = IF c.ExplainVerbosity = "unset" THEN @
                                               ELSE c.ExplainVerbosity]]
     /\ UNCHANGED <<daemon, made, rejected>>

\* The verbosity is handed to pr_error_use_formats as it is set here.
\* The loop over the ExplainOptions records reads argv[0] of each of them.
explain_sess_init(s) ==
  LET p == session[s]
      c == p.conf[p.server]
  IN /\ p.phase = "forked"
     /\ session' = [session EXCEPT ![s] =
          IF ~p.explain_engine THEN [p EXCEPT !.phase = "active"]
          ELSE [p EXCEPT !.phase = "active",
                         !.explain_verbosity = IF c.ExplainVerbosity = "unset" THEN @
                                               ELSE c.ExplainVerbosity,
                         !.corrupt = @ \/ c.ExplainOptions = "NULL"]]
     /\ UNCHANGED <<daemon, made, rejected>>

Exit(s) ==
  /\ session[s].phase = "active"
  /\ session' = [session EXCEPT ![s] = Absent]
  /\ UNCHANGED <<daemon, made, rejected>>
-----------------------------------------------------------------------------
Configure ==
  \E server \in Servers :
    \/ \E value \in {"on", "off", "bad"} : set_explainengine(server, value)
    \/ set_explainoptions(server)
    \/ \E value \in Verbosities \cup {"bad"} : set_explainverbosity(server, value)

Next ==
  \/ explain_init
  \/ Configure
  \/ \E ok \in BOOLEAN : explain_postparse_ev(ok)
  \/ explain_restart_ev
  \/ explain_shutdown_ev
  \/ explain_mod_unload_ev
  \/ \E s \in Sessions :
       \/ \E server \in Servers : Fork(s, server)
       \/ explain_sess_init(s)
       \/ Exit(s)

Spec == Init /\ [][Next]_vars
-----------------------------------------------------------------------------
(***************************************************************************)
(* Properties.                                                             *)
(***************************************************************************)
Processes == {daemon} \cup {session[s] : s \in Sessions}

\* Whatever the order of restarts, unloads and forks: the only pool of the
\* module that exists is the one it uses, the explainer the error API would
\* call lives in it, and nobody walks through freed memory or reads a NULL
\* record (mod_explain.c:224,266,277,331).
NoDanglingExplainer ==
  \A p \in Processes :
    /\ p.live = {p.explain_pool} \ {0}
    /\ p.explainer # 0 => p.explainer \in p.live
    /\ ~p.corrupt

\* A process that serves has the explainer exactly if its engine is on, and
\* the engine is on unless the configuration it was parsed from says "off" or
\* the registration failed: a value from before a restart never survives
\* (mod_explain.c:234,260,273).
EngineAsConfigured ==
  \A p \in Processes : p.phase \in {"serving", "forked", "active"} =>
    /\ p.explain_engine <=> p.explainer # 0
    /\ p.explain_engine <=> p.says # "off" /\ ~p.failed

\* A session with the engine on logs with the verbosity of the server it is
\* bound to, in the configuration it was forked under; neither another server
\* nor a later restart of the daemon changes it (mod_explain.c:318-323).
SessionVerbosity ==
  \A s \in Sessions :
    LET p == session[s]
        v == p.conf[p.server].ExplainVerbosity
    IN p.phase = "active" /\ p.explain_engine =>
         p.explain_verbosity = IF v = "unset" THEN "detailed" ELSE v

(***************************************************************************)
(* The module keeps the promise stated in OfferedExplanations.             *)
(***************************************************************************)
Offer ==
  INSTANCE OfferedExplanations WITH
    wanted <- daemon.says # "off",
    offered <- daemon.explainer # 0,
    has <- [s \in Sessions |->
              IF session[s].phase = "absent" THEN "absent"
              ELSE IF session[s].explainer # 0 THEN "offer" ELSE "none"]

\* mod_explain.c implements the promise, step by step: no handler takes an
\* offer from a session, and none changes the configuration under an offer.
KeepsOffer == Offer!Spec
=============================================================================
