------------------------ MODULE ExplainModuleProofs ------------------------
(***************************************************************************)
(* Proofs about the life of the module, for any sessions, servers and      *)
(* number of pools: the daemon and every session keep the same invariant.  *)
(***************************************************************************)
EXTENDS ExplainModule, TLAPS

(***************************************************************************)
(* What holds of a process that has the module's variables.  None of the   *)
(* properties is inductive: the engine follows from what parsing left, and *)
(* what a session reads from the configuration it was forked with.         *)
(***************************************************************************)
PoolInv(p) ==
  /\ p.live = {p.explain_pool} \ {0}
  /\ p.explainer \in {0, p.explain_pool}
  /\ ~p.corrupt

EngineInv(p) ==
  /\ p.phase = "absent" =>
       /\ p.explainer = 0 /\ p.explain_pool = 0
       /\ p.explain_engine /\ p.says = "unset"
  /\ p.phase = "parsing" =>
       /\ p.explainer = 0 /\ p.explain_pool # 0
       /\ p.explain_engine <=> p.says # "off"
  /\ p.phase \in {"serving", "forked", "active"} =>
       /\ p.explain_engine <=> p.explainer # 0
       /\ p.explain_engine <=> p.says # "off" /\ ~p.failed

Configured(p) ==
  LET v == p.conf[p.server].ExplainVerbosity
  IN IF v = "unset" THEN "detailed" ELSE v

ConfInv(p) ==
  /\ p.phase # "over" => \A s \in Servers : p.conf[s].ExplainOptions # "NULL"
  /\ p.phase # "active" => p.explain_verbosity = "detailed"
  /\ p.phase = "active" /\ p.explain_engine => p.explain_verbosity = Configured(p)

ProcessInv(p) == p \in Process /\ PoolInv(p) /\ EngineInv(p) /\ ConfInv(p)

DaemonPhases == {"absent", "parsing", "serving", "over"}
SessionPhases == {"absent", "forked", "active"}

ModuleInv ==
  /\ TypeOK
  /\ ProcessInv(daemon) /\ daemon.phase \in DaemonPhases
  /\ \A s \in Sessions : ProcessInv(session[s]) /\ session[s].phase \in SessionPhases

(***************************************************************************)
(* Processes.                                                              *)
(***************************************************************************)
LEMMA NoConfType == NoConf \in [Servers -> ServerConf]
  BY DEF NoConf, ServerConf, Verbosities

LEMMA AbsentInv == ProcessInv(Absent) /\ Absent.phase = "absent" /\ Absent.explainer = 0
<1>1. Absent \in Process
  BY NoConfType, ModuleAssumption DEF Absent, Process, Verbosities
<1>2. PoolInv(Absent) /\ EngineInv(Absent)
  BY DEF Absent, PoolInv, EngineInv
<1>3. ConfInv(Absent)
  BY DEF Absent, ConfInv, NoConf
<1>4. QED
  BY <1>1, <1>2, <1>3 DEF ProcessInv, Absent

\* A process without explainer and pools.
Bare(p) == [p EXCEPT !.explainer = 0, !.live = {}]

\* Removing the explainer and destroying its pool leaves neither.
LEMMA DestroyBares ==
  ASSUME NEW p, ProcessInv(p)
  PROVE  DestroyPool(Unregister(p)) = Bare(p) /\ Bare(p) \in Process
<1>1. Unregister(p) = [p EXCEPT !.explainer = 0]
  <2>1. p.explainer # 0 => p.explainer \in p.live
    BY DEF ProcessInv, PoolInv
  <2>2. p.corrupt = FALSE
    BY DEF ProcessInv, PoolInv, Process
  <2>3. QED
    BY <2>1, <2>2 DEF Unregister, ProcessInv, Process
<1>2. p.live \ {p.explain_pool} = {}
  BY DEF ProcessInv, PoolInv
<1>3. DestroyPool(Unregister(p)) = Bare(p)
  BY <1>1, <1>2 DEF DestroyPool, Bare, ProcessInv, Process
<1>4. 0 \in 0 .. MaxPools
  BY ModuleAssumption
<1>5. Bare(p) \in Process
  BY <1>4 DEF Bare, ProcessInv, Process
<1>6. QED
  BY <1>3, <1>5

LEMMA DiscardInv ==
  ASSUME NEW p, ProcessInv(p)
  PROVE  /\ Discard(p) = [Bare(p) EXCEPT !.explain_pool = 0]
         /\ Discard(p) \in Process /\ PoolInv(Discard(p))
<1>1. 0 \in 0 .. MaxPools
  BY ModuleAssumption
<1>2. Discard(p) = [Bare(p) EXCEPT !.explain_pool = 0]
  BY DestroyBares DEF Discard
<1>3. QED
  BY <1>1, <1>2, DestroyBares DEF Bare, PoolInv, ProcessInv, Process

\* Each handler of the daemon leaves a process that keeps the invariant.
DaemonKept == ProcessInv(daemon') /\ daemon'.phase \in DaemonPhases

LEMMA InitKeeps ==
  ASSUME ModuleInv, explain_init
  PROVE  DaemonKept /\ made' \in 0 .. MaxPools
<1>1. made' \in 1 .. MaxPools /\ made' = made + 1
  BY ModuleAssumption DEF explain_init, ModuleInv, TypeOK
<1>2. daemon' = [daemon EXCEPT !.explain_pool = made', !.live = @ \cup {made'},
                               !.phase = "parsing"]
  BY <1>1 DEF explain_init, MakePool, ModuleInv, ProcessInv, Process
<1>3. daemon.live = {} /\ daemon.explainer = 0 /\ daemon.phase = "absent"
  BY DEF explain_init, ModuleInv, ProcessInv, PoolInv, EngineInv
<1>4. daemon' \in Process
  <2>1. made' \in 0 .. MaxPools /\ {} \cup {made'} \in SUBSET (1 .. MaxPools)
    BY <1>1, ModuleAssumption
  <2>2. QED
    BY <1>2, <1>3, <2>1 DEF ModuleInv, ProcessInv, Process
<1>5. PoolInv(daemon')
  BY <1>1, <1>2, <1>3 DEF PoolInv, ModuleInv, ProcessInv, Process
<1>6. EngineInv(daemon')
  BY <1>1, <1>2, <1>3 DEF EngineInv, ModuleInv, ProcessInv, Process
<1>7. ConfInv(daemon')
  BY <1>2, <1>3 DEF ConfInv, ModuleInv, ProcessInv, Process
<1>8. made' \in 0 .. MaxPools /\ daemon'.phase = "parsing"
  BY <1>1, <1>2, ModuleAssumption DEF ModuleInv, ProcessInv, Process
<1>9. QED
  BY <1>4, <1>5, <1>6, <1>7, <1>8 DEF DaemonKept, DaemonPhases, ProcessInv

\* A refused directive ends the daemon.
LEMMA RefuseKeeps ==
  ASSUME ModuleInv, NEW name, NEW server, NEW valid, Refuse(name, server, valid)
  PROVE  DaemonKept
<1>1. daemon' = [daemon EXCEPT !.phase = "over"]
  BY DEF Refuse
<1>2. daemon' \in Process /\ daemon'.phase = "over"
  BY <1>1 DEF ModuleInv, ProcessInv, Process
<1>3. PoolInv(daemon') /\ EngineInv(daemon')
  BY <1>1, <1>2 DEF PoolInv, EngineInv, ModuleInv, ProcessInv, Process
<1>4. daemon.explain_verbosity = "detailed"
  BY DEF ModuleInv, ProcessInv, ConfInv, DaemonPhases
<1>5. ConfInv(daemon')
  BY <1>1, <1>2, <1>4 DEF ConfInv, ModuleInv, ProcessInv, Process
<1>6. QED
  BY <1>2, <1>3, <1>5 DEF DaemonKept, ProcessInv, DaemonPhases

LEMMA EngineKeeps ==
  ASSUME ModuleInv, NEW server, NEW value \in {"on", "off", "bad"},
         set_explainengine(server, value)
  PROVE  DaemonKept
<1>1. CASE server # Main \/ value = "bad"
  BY <1>1, RefuseKeeps DEF set_explainengine
<1>2. CASE ~(server # Main \/ value = "bad")
  <2>1. daemon' = [daemon EXCEPT !.explain_engine = (value = "on"), !.says = value]
    BY <1>2 DEF set_explainengine, Record
  <2>2. daemon.phase = "parsing" /\ value \in {"on", "off"}
    BY <1>2 DEF set_explainengine
  <2>3. daemon' \in Process /\ daemon'.phase = "parsing"
    BY <2>1, <2>2 DEF ModuleInv, ProcessInv, Process
  <2>4. PoolInv(daemon')
    BY <2>1 DEF PoolInv, ModuleInv, ProcessInv, Process
  <2>5. EngineInv(daemon')
    BY <2>1, <2>2 DEF EngineInv, ModuleInv, ProcessInv, Process
  <2>6. ConfInv(daemon')
    BY <2>1, <2>2 DEF ConfInv, ModuleInv, ProcessInv, Process
  <2>7. QED
    BY <2>3, <2>4, <2>5, <2>6 DEF DaemonKept, ProcessInv, DaemonPhases
<1>3. QED
  BY <1>1, <1>2

LEMMA OptionsKeeps ==
  ASSUME ModuleInv, NEW server \in Servers, set_explainoptions(server)
  PROVE  DaemonKept
<1> DEFINE c == [daemon.conf EXCEPT ![server] =
                   [daemon.conf[server] EXCEPT !.ExplainOptions = "NULL"]]
<1>1. daemon' = [daemon EXCEPT !.phase = "over", !.conf = c]
  BY DEF set_explainoptions, ModuleInv, ProcessInv, Process
<1>2. c \in [Servers -> ServerConf]
  BY DEF ModuleInv, ProcessInv, Process, ServerConf
<1>3. daemon' \in Process /\ daemon'.phase = "over"
  BY <1>1, <1>2 DEF ModuleInv, ProcessInv, Process
<1>4. PoolInv(daemon') /\ EngineInv(daemon')
  BY <1>1, <1>3 DEF PoolInv, EngineInv, ModuleInv, ProcessInv, Process
<1>5. daemon.explain_verbosity = "detailed"
  BY DEF ModuleInv, ProcessInv, ConfInv, DaemonPhases
<1>6. ConfInv(daemon')
  BY <1>1, <1>3, <1>5 DEF ConfInv, ModuleInv, ProcessInv, Process
<1>7. QED
  BY <1>3, <1>4, <1>6 DEF DaemonKept, ProcessInv, DaemonPhases

LEMMA VerbosityKeeps ==
  ASSUME ModuleInv, NEW server \in Servers, NEW value,
         set_explainverbosity(server, value)
  PROVE  DaemonKept
<1> DEFINE c == [daemon.conf EXCEPT ![server] =
                   [daemon.conf[server] EXCEPT !.ExplainVerbosity = value]]
<1>1. CASE value \notin Verbosities
  BY <1>1, RefuseKeeps DEF set_explainverbosity
<1>2. CASE value \in Verbosities /\ daemon.conf[server].ExplainVerbosity # "unset"
  <2>1. daemon' = daemon
    BY <1>2 DEF set_explainverbosity, Record
  <2>2. QED
    BY <2>1 DEF ModuleInv, DaemonKept
<1>3. CASE value \in Verbosities /\ daemon.conf[server].ExplainVerbosity = "unset"
  <2>1. daemon' = [daemon EXCEPT !.conf = c]
    BY <1>3 DEF set_explainverbosity, Record, ModuleInv, ProcessInv, Process
  <2>2. daemon.phase = "parsing"
    BY DEF set_explainverbosity
  <2>3. c \in [Servers -> ServerConf]
    BY <1>3 DEF ModuleInv, ProcessInv, Process, ServerConf
  <2>4. daemon' \in Process /\ daemon'.phase = "parsing"
    BY <2>1, <2>2, <2>3 DEF ModuleInv, ProcessInv, Process
  <2>5. PoolInv(daemon') /\ EngineInv(daemon')
    BY <2>1, <2>2 DEF PoolInv, EngineInv, ModuleInv, ProcessInv, Process
  <2>6. \A s \in Servers : c[s].ExplainOptions = daemon.conf[s].ExplainOptions
    BY DEF ModuleInv, ProcessInv, Process, ServerConf
  <2>7. ConfInv(daemon')
    BY <2>1, <2>2, <2>6 DEF ConfInv, ModuleInv, ProcessInv, Process
  <2>8. QED
    BY <2>4, <2>5, <2>7 DEF DaemonKept, ProcessInv, DaemonPhases
<1>4. QED
  BY <1>1, <1>2, <1>3

\* After parsing the engine is on exactly if the explainer is registered.
LEMMA PostparseKeeps ==
  ASSUME ModuleInv, NEW ok \in BOOLEAN, explain_postparse_ev(ok)
  PROVE  DaemonKept
<1> DEFINE on == daemon.explain_engine /\ ok
<1>1. /\ daemon \in Process /\ daemon.phase = "parsing"
      /\ daemon.explainer = 0 /\ daemon.explain_pool # 0
  BY DEF explain_postparse_ev, ModuleInv, ProcessInv, EngineInv
<1>2. CASE on
  <2>1. Register(daemon, ok) = [daemon EXCEPT !.explainer = daemon.explain_pool]
    BY <1>1, <1>2 DEF Register
  <2>2. Register(daemon, ok) # daemon
    BY <1>1, <2>1 DEF Process
  <2>3. daemon' = [daemon EXCEPT !.explainer = daemon.explain_pool,
                                 !.phase = "serving", !.failed = FALSE,
                                 !.explain_engine = TRUE]
    BY <1>1, <1>2, <2>1, <2>2 DEF explain_postparse_ev, Process
  <2>4. daemon' \in Process /\ daemon'.phase = "serving"
    BY <1>1, <2>3 DEF Process
  <2>5. PoolInv(daemon') /\ EngineInv(daemon')
    BY <1>1, <1>2, <2>3 DEF PoolInv, EngineInv, ModuleInv, ProcessInv, Process
  <2>6. ConfInv(daemon')
    BY <1>1, <2>3 DEF ConfInv, ModuleInv, ProcessInv, Process
  <2>7. QED
    BY <2>4, <2>5, <2>6 DEF DaemonKept, ProcessInv, DaemonPhases
<1>3. CASE ~on
  <2>1. daemon.explain_engine => Register(daemon, ok) = daemon
    BY <1>3 DEF Register
  <2>2. daemon' = [daemon EXCEPT !.phase = "serving", !.explain_engine = FALSE,
                                 !.failed = daemon.explain_engine]
    BY <1>1, <2>1 DEF explain_postparse_ev, Process
  <2>3. daemon' \in Process /\ daemon'.phase = "serving"
    BY <1>1, <2>2 DEF Process
  <2>4. PoolInv(daemon') /\ EngineInv(daemon')
    BY <1>1, <2>2 DEF PoolInv, EngineInv, ModuleInv, ProcessInv, Process
  <2>5. ConfInv(daemon')
    BY <1>1, <2>2 DEF ConfInv, ModuleInv, ProcessInv, Process
  <2>6. QED
    BY <2>3, <2>4, <2>5 DEF DaemonKept, ProcessInv, DaemonPhases
<1>4. QED
  BY <1>2, <1>3

\* A restart leaves one new pool, no explainer and an engine that is on.
LEMMA RestartKeeps ==
  ASSUME ModuleInv, explain_restart_ev
  PROVE  DaemonKept /\ made' \in 0 .. MaxPools
<1> DEFINE b == Bare(daemon)
<1>1. daemon \in Process /\ DestroyPool(Unregister(daemon)) = b /\ b \in Process
  BY DestroyBares DEF ModuleInv, ProcessInv
<1>2. made' \in 0 .. MaxPools /\ made' # 0 /\ made' = made + 1
  BY ModuleAssumption DEF explain_restart_ev, ModuleInv, TypeOK
<1>3. b.live \cup {made'} = {made'} /\ {made'} \in SUBSET (1 .. MaxPools)
  BY <1>1, <1>2, ModuleAssumption DEF Bare, Process
<1>4. daemon' = [b EXCEPT !.explain_pool = made', !.live = {made'},
                          !.explain_engine = TRUE, !.phase = "parsing",
                          !.conf = NoConf, !.says = "unset", !.failed = FALSE]
  BY <1>1, <1>2, <1>3 DEF explain_restart_ev, MakePool, Process
<1>5. daemon' \in Process /\ daemon'.phase = "parsing"
  BY <1>1, <1>2, <1>3, <1>4, NoConfType DEF Process
<1>6. daemon.corrupt = FALSE /\ daemon.explain_verbosity = "detailed"
  BY <1>1 DEF explain_restart_ev, ModuleInv, ProcessInv, PoolInv, ConfInv, Process
<1>7. PoolInv(daemon') /\ EngineInv(daemon')
  BY <1>1, <1>2, <1>4, <1>6 DEF Bare, PoolInv, EngineInv, Process
<1>8. ConfInv(daemon')
  BY <1>1, <1>4, <1>6 DEF Bare, ConfInv, NoConf, Process
<1>9. QED
  BY <1>2, <1>5, <1>7, <1>8 DEF DaemonKept, ProcessInv, DaemonPhases

LEMMA ShutdownKeeps ==
  ASSUME ModuleInv, explain_shutdown_ev
  PROVE  DaemonKept
<1> DEFINE d == Discard(daemon)
<1>1. /\ d = [Bare(daemon) EXCEPT !.explain_pool = 0]
      /\ d \in Process /\ PoolInv(d)
  BY DiscardInv DEF ModuleInv
<1>2. daemon' = [d EXCEPT !.phase = "over"] /\ daemon.explain_verbosity = "detailed"
  BY DEF explain_shutdown_ev, ModuleInv, ProcessInv, ConfInv
<1>3. daemon' \in Process /\ daemon'.phase = "over" /\ PoolInv(daemon')
  BY <1>1, <1>2 DEF Process, PoolInv
<1>4. d.explain_verbosity = "detailed"
  BY <1>1, <1>2 DEF Bare, ModuleInv, ProcessInv, Process
<1>5. EngineInv(daemon') /\ ConfInv(daemon')
  BY <1>1, <1>2, <1>3, <1>4 DEF EngineInv, ConfInv, Process
<1>6. QED
  BY <1>3, <1>5 DEF DaemonKept, ProcessInv, DaemonPhases

LEMMA UnloadKeeps ==
  ASSUME ModuleInv, explain_mod_unload_ev
  PROVE  daemon' = Absent /\ DaemonKept
<1> DEFINE d == Discard(daemon)
<1>1. /\ d = [Bare(daemon) EXCEPT !.explain_pool = 0]
      /\ d \in Process /\ PoolInv(d)
  BY DiscardInv DEF ModuleInv
<1>2. d.live = {} /\ d.explainer = 0 /\ d.corrupt = FALSE
  BY <1>1 DEF PoolInv, Process
<1>3. daemon' = Absent
  BY <1>2 DEF explain_mod_unload_ev, Absent
<1>4. QED
  BY <1>3, AbsentInv DEF DaemonKept, DaemonPhases

(***************************************************************************)
(* Sessions.                                                               *)
(***************************************************************************)
SessionKept(s) ==
  ProcessInv(session'[s]) /\ session'[s].phase \in SessionPhases

LEMMA ForkKeeps ==
  ASSUME ModuleInv, NEW s \in Sessions, NEW server \in Servers, Fork(s, server)
  PROVE  SessionKept(s)
<1> DEFINE p == [daemon EXCEPT !.phase = "forked", !.server = server]
<1>1. session'[s] = p
  BY DEF Fork, ModuleInv, TypeOK
<1>2. daemon \in Process /\ daemon.phase = "serving"
  BY DEF Fork, ModuleInv, ProcessInv
<1>3. p \in Process /\ p.phase = "forked"
  BY <1>2 DEF Process
<1>4. PoolInv(p) /\ EngineInv(p)
  BY <1>2 DEF PoolInv, EngineInv, ModuleInv, ProcessInv, Process
<1>5. ConfInv(p)
  BY <1>2 DEF ConfInv, ModuleInv, ProcessInv, Process
<1>6. QED
  BY <1>1, <1>3, <1>4, <1>5 DEF SessionKept, ProcessInv, SessionPhases

LEMMA SessInitKeeps ==
  ASSUME ModuleInv, NEW s \in Sessions, explain_sess_init(s)
  PROVE  SessionKept(s) /\ session'[s].explainer = session[s].explainer
<1> DEFINE p == session[s]
           c == p.conf[p.server]
           v == IF c.ExplainVerbosity = "unset" THEN p.explain_verbosity
                ELSE c.ExplainVerbosity
<1>1. p \in Process /\ p.phase = "forked" /\ c \in ServerConf
      /\ c.ExplainOptions # "NULL" /\ p.explain_verbosity = "detailed"
  BY DEF explain_sess_init, ModuleInv, ProcessInv, ConfInv, Process
<1>2. CASE ~p.explain_engine
  <2>1. session'[s] = [p EXCEPT !.phase = "active"]
    BY <1>2 DEF explain_sess_init, ModuleInv, TypeOK
  <2>2. session'[s] \in Process /\ session'[s].phase = "active"
        /\ session'[s].explainer = p.explainer
    BY <1>1, <2>1 DEF Process
  <2>3. PoolInv(session'[s]) /\ EngineInv(session'[s])
    BY <1>1, <2>1 DEF PoolInv, EngineInv, ModuleInv, ProcessInv, Process
  <2>4. ConfInv(session'[s])
    BY <1>1, <1>2, <2>1 DEF ConfInv, ModuleInv, ProcessInv, Process
  <2>5. QED
    BY <2>2, <2>3, <2>4 DEF SessionKept, ProcessInv, SessionPhases
<1>3. CASE p.explain_engine
  <2>1. session'[s] = [p EXCEPT !.phase = "active", !.explain_verbosity = v]
    BY <1>1, <1>3 DEF explain_sess_init, ModuleInv, TypeOK, Process
  <2>2. v \in Verbosities
    BY <1>1 DEF ServerConf, Verbosities
  <2>3. session'[s] \in Process /\ session'[s].phase = "active"
        /\ session'[s].explainer = p.explainer
    BY <1>1, <2>1, <2>2 DEF Process
  <2>4. PoolInv(session'[s]) /\ EngineInv(session'[s])
    BY <1>1, <2>1 DEF PoolInv, EngineInv, ModuleInv, ProcessInv, Process
  <2>5. ConfInv(session'[s])
    BY <1>1, <2>1 DEF ConfInv, Configured, ModuleInv, ProcessInv, Process
  <2>6. QED
    BY <2>3, <2>4, <2>5 DEF SessionKept, ProcessInv, SessionPhases
<1>4. QED
  BY <1>2, <1>3

LEMMA ModuleInit == ASSUME Init PROVE ModuleInv
<1>1. daemon = Absent /\ \A s \in Sessions : session[s] = Absent
  BY DEF Init
<1>2. TypeOK
  <2>1. NoDirective \in [name : {"none", "ExplainEngine", "ExplainOptions",
                                 "ExplainVerbosity"},
                         server : Servers, valid : BOOLEAN]
    BY ModuleAssumption DEF NoDirective
  <2>2. Absent \in Process /\ 0 \in 0 .. MaxPools
    BY AbsentInv, ModuleAssumption DEF ProcessInv
  <2>3. QED
    BY <2>1, <2>2 DEF Init, TypeOK
<1>3. QED
  BY <1>1, <1>2, AbsentInv DEF ModuleInv, DaemonPhases, SessionPhases

\* A step of the daemon leaves the sessions alone, and the other way round.
LEMMA ModuleStep ==
  ASSUME ModuleInv, [Next]_vars
  PROVE  ModuleInv'
<1> DEFINE Rejected == rejected' \in
             [name : {"none", "ExplainEngine", "ExplainOptions", "ExplainVerbosity"},
              server : Servers, valid : BOOLEAN]
<1>1. CASE UNCHANGED vars
  BY <1>1 DEF ModuleInv, ProcessInv, TypeOK, vars
<1>2. ASSUME DaemonKept, UNCHANGED session, made' \in 0 .. MaxPools, Rejected
      PROVE  ModuleInv'
  BY <1>2 DEF DaemonKept, ModuleInv, TypeOK, ProcessInv
<1>3. made \in 0 .. MaxPools /\ (rejected' = rejected => Rejected)
  BY DEF ModuleInv, TypeOK
<1>4. ASSUME NEW name \in {"ExplainEngine", "ExplainVerbosity"}, NEW server \in Servers,
             NEW valid \in BOOLEAN, Refuse(name, server, valid)
      PROVE  ModuleInv'
  BY <1>2, <1>3, <1>4, RefuseKeeps DEF Refuse
<1>5. CASE explain_init
  BY <1>2, <1>3, <1>5, InitKeeps DEF explain_init
<1>6. ASSUME NEW server \in Servers, NEW value \in {"on", "off", "bad"},
             set_explainengine(server, value)
      PROVE  ModuleInv'
  <2>1. (value # "bad") \in BOOLEAN
    OBVIOUS
  <2>2. QED
    BY <1>2, <1>3, <1>4, <1>6, <2>1, EngineKeeps DEF set_explainengine, Record
<1>7. ASSUME NEW server \in Servers, set_explainoptions(server) PROVE ModuleInv'
  BY <1>2, <1>3, <1>7, OptionsKeeps DEF set_explainoptions
<1>8. ASSUME NEW server \in Servers, NEW value, set_explainverbosity(server, value)
      PROVE  ModuleInv'
  BY <1>2, <1>3, <1>4, <1>8, VerbosityKeeps DEF set_explainverbosity, Record
<1>9. ASSUME NEW ok \in BOOLEAN, explain_postparse_ev(ok) PROVE ModuleInv'
  BY <1>2, <1>3, <1>9, PostparseKeeps DEF explain_postparse_ev
<1>10. CASE explain_restart_ev
  BY <1>2, <1>3, <1>10, RestartKeeps DEF explain_restart_ev
<1>11. CASE explain_shutdown_ev
  BY <1>2, <1>3, <1>11, ShutdownKeeps DEF explain_shutdown_ev
<1>12. CASE explain_mod_unload_ev
  BY <1>2, <1>3, <1>12, UnloadKeeps DEF explain_mod_unload_ev
<1>13. ASSUME NEW s \in Sessions, SessionKept(s), UNCHANGED <<daemon, made, rejected>>,
              NEW p, session' = [session EXCEPT ![s] = p]
       PROVE  ModuleInv'
  <2>1. session'[s] = p /\ p \in Process
    BY <1>13 DEF SessionKept, ProcessInv, ModuleInv, TypeOK
  <2>2. \A t \in Sessions : ProcessInv(session'[t]) /\ session'[t].phase \in SessionPhases
    BY <1>13 DEF SessionKept, ModuleInv, TypeOK
  <2>3. TypeOK'
    BY <1>13, <2>1 DEF ModuleInv, TypeOK
  <2>4. QED
    BY <1>13, <2>2, <2>3 DEF ModuleInv
<1>14. ASSUME NEW s \in Sessions, NEW server \in Servers, Fork(s, server)
       PROVE  ModuleInv'
  BY <1>13, <1>14, ForkKeeps DEF Fork
<1>15. ASSUME NEW s \in Sessions, explain_sess_init(s) PROVE ModuleInv'
  BY <1>13, <1>15, SessInitKeeps DEF explain_sess_init
<1>16. ASSUME NEW s \in Sessions, Exit(s) PROVE ModuleInv'
  <2>1. session'[s] = Absent
    BY <1>16 DEF Exit, ModuleInv, TypeOK
  <2>2. SessionKept(s)
    BY <2>1, AbsentInv DEF SessionKept, SessionPhases
  <2>3. QED
    BY <1>13, <1>16, <2>2 DEF Exit
<1>17. QED
  BY <1>1, <1>5, <1>6, <1>7, <1>8, <1>9, <1>10, <1>11, <1>12, <1>14, <1>15, <1>16
  DEF Next, Configure

THEOREM ModuleInvariant == Spec => []ModuleInv
<1>1. Init => ModuleInv
  BY ModuleInit
<1>2. ModuleInv /\ [Next]_vars => ModuleInv'
  BY ModuleStep
<1>3. QED
  BY <1>1, <1>2, PTL DEF Spec

\* The variables keep their types, for any number of servers and sessions.
THEOREM TypeCorrect == Spec => []TypeOK
<1>1. ModuleInv => TypeOK
  BY DEF ModuleInv
<1>2. QED
  BY <1>1, ModuleInvariant, PTL

\* No process ever reaches into a pool that has been destroyed.
THEOREM NeverDangling == Spec => []NoDanglingExplainer
<1>1. ModuleInv => NoDanglingExplainer
  <2>1. SUFFICES ASSUME ModuleInv, NEW p \in Processes
                 PROVE  /\ p.live = {p.explain_pool} \ {0}
                        /\ p.explainer # 0 => p.explainer \in p.live
                        /\ ~p.corrupt
    BY <2>1 DEF NoDanglingExplainer
  <2>2. PoolInv(p)
    BY <2>1 DEF ModuleInv, ProcessInv, Processes
  <2>3. QED
    BY <2>2 DEF PoolInv
<1>2. QED
  BY <1>1, ModuleInvariant, PTL

\* A process that serves explains exactly if its configuration wants it and
\* the explainer could be registered.
THEOREM EngineConfigured == Spec => []EngineAsConfigured
<1>1. ModuleInv => EngineAsConfigured
  <2>1. SUFFICES ASSUME ModuleInv, NEW p \in Processes,
                        p.phase \in {"serving", "forked", "active"}
                 PROVE  /\ p.explain_engine <=> p.explainer # 0
                        /\ p.explain_engine <=> p.says # "off" /\ ~p.failed
    BY <2>1 DEF EngineAsConfigured
  <2>2. EngineInv(p)
    BY <2>1 DEF ModuleInv, ProcessInv, Processes
  <2>3. QED
    BY <2>1, <2>2 DEF EngineInv
<1>2. QED
  BY <1>1, ModuleInvariant, PTL

\* A session logs with the verbosity of its server, whatever the daemon does.
THEOREM VerbosityOfServer == Spec => []SessionVerbosity
<1>1. ModuleInv => SessionVerbosity
  BY DEF ModuleInv, ProcessInv, ConfInv, Configured, SessionVerbosity
<1>2. QED
  BY <1>1, ModuleInvariant, PTL

(***************************************************************************)
(* The module implements OfferedExplanations.                              *)
(***************************************************************************)

\* While the daemon parses there is no offer, and no directive makes one.
LEMMA DirectiveOffersNothing ==
  ASSUME ModuleInv, Configure
  PROVE  /\ daemon.explainer = 0 /\ daemon'.explainer = 0
         /\ UNCHANGED session
<1>1. daemon.phase = "parsing" /\ daemon \in Process
  BY DEF Configure, set_explainengine, set_explainoptions, set_explainverbosity,
         ModuleInv, ProcessInv
<1>2. daemon.explainer = 0
  BY <1>1 DEF ModuleInv, ProcessInv, EngineInv
<1>3. ASSUME NEW name, NEW server, NEW valid, Refuse(name, server, valid)
      PROVE  daemon'.explainer = 0 /\ UNCHANGED session
  BY <1>1, <1>2, <1>3 DEF Refuse, Process
<1>4. ASSUME NEW server \in Servers, NEW value, set_explainengine(server, value)
      PROVE  daemon'.explainer = 0 /\ UNCHANGED session
  BY <1>1, <1>2, <1>3, <1>4 DEF set_explainengine, Record, Process
<1>5. ASSUME NEW server \in Servers, set_explainoptions(server)
      PROVE  daemon'.explainer = 0 /\ UNCHANGED session
  BY <1>1, <1>2, <1>5 DEF set_explainoptions, Process
<1>6. ASSUME NEW server \in Servers, NEW value, set_explainverbosity(server, value)
      PROVE  daemon'.explainer = 0 /\ UNCHANGED session
  BY <1>1, <1>2, <1>3, <1>6 DEF set_explainverbosity, Record, Process
<1>7. QED
  BY <1>2, <1>4, <1>5, <1>6 DEF Configure

LEMMA OfferStep ==
  ASSUME ModuleInv, ModuleInv', [Next]_vars
  PROVE  [Offer!Next]_(Offer!offer)
<1> USE DEF Offer!offer
<1>1. CASE UNCHANGED vars
  BY <1>1 DEF vars
<1>2. ASSUME UNCHANGED session, daemon.explainer = 0, daemon'.explainer = 0
      PROVE  Offer!Configure
  BY <1>2 DEF Offer!Configure
<1>3. ASSUME UNCHANGED session, daemon'.explainer = 0
      PROVE  Offer!Configure \/ Offer!Close
  BY <1>2, <1>3 DEF Offer!Close
<1>4. CASE explain_init
  <2>1. daemon'.phase = "parsing"
    BY <1>4 DEF explain_init, MakePool, ModuleInv, ProcessInv, Process
  <2>2. daemon'.explainer = 0
    BY <2>1 DEF ModuleInv, ProcessInv, EngineInv
  <2>3. QED
    BY <1>3, <1>4, <2>2 DEF explain_init, Offer!Next
<1>5. CASE Configure
  BY <1>3, <1>5, DirectiveOffersNothing DEF Offer!Next
<1>6. ASSUME NEW ok \in BOOLEAN, explain_postparse_ev(ok)
      PROVE  Offer!Configure \/ Offer!Open
  <2>1. /\ daemon.phase = "parsing" /\ daemon \in Process
        /\ daemon.explainer = 0 /\ (daemon.explain_engine <=> daemon.says # "off")
    BY <1>6 DEF explain_postparse_ev, ModuleInv, ProcessInv, EngineInv
  <2>2. daemon'.phase = "serving" /\ daemon'.says = daemon.says /\ UNCHANGED session
    BY <1>6, <2>1 DEF explain_postparse_ev, Register, Process
  <2>3. CASE daemon'.explainer = 0
    BY <1>2, <2>1, <2>2, <2>3
  <2>4. CASE daemon'.explainer # 0
    <3>1. daemon'.says # "off"
      BY <2>2, <2>4 DEF ModuleInv, ProcessInv, EngineInv
    <3>2. QED
      BY <2>1, <2>2, <2>4, <3>1 DEF Offer!Open
  <2>5. QED
    BY <2>3, <2>4
<1>7. CASE explain_restart_ev
  <2>1. daemon'.explainer = 0
    <3>1. daemon'.phase = "parsing"
      BY <1>7, DestroyBares DEF explain_restart_ev, MakePool, ModuleInv, Process
    <3>2. QED
      BY <3>1 DEF ModuleInv, ProcessInv, EngineInv
  <2>2. QED
    BY <1>3, <1>7, <2>1 DEF explain_restart_ev, Offer!Next
<1>8. CASE explain_shutdown_ev
  <2>1. Discard(daemon) \in Process /\ Discard(daemon).explainer = 0
    <3>1. ProcessInv(daemon)
      BY DEF ModuleInv
    <3>2. Bare(daemon) \in Process /\ Bare(daemon).explainer = 0
      BY <3>1, DestroyBares DEF Bare, ProcessInv, Process
    <3>3. QED
      BY <3>1, <3>2, DiscardInv DEF Process
  <2>2. daemon'.explainer = 0 /\ UNCHANGED session
    BY <1>8, <2>1 DEF explain_shutdown_ev, Process
  <2>3. QED
    BY <1>3, <2>2 DEF Offer!Next
<1>9. CASE explain_mod_unload_ev
  BY <1>3, <1>9, UnloadKeeps, AbsentInv DEF explain_mod_unload_ev, Offer!Next
<1>10. ASSUME NEW s \in Sessions, NEW server \in Servers, Fork(s, server)
       PROVE  Offer!Fork(s)
  <2>1. daemon \in Process /\ session \in [Sessions -> Process]
    BY DEF ModuleInv, TypeOK
  <2>2. /\ session' = [session EXCEPT ![s] = [daemon EXCEPT !.phase = "forked",
                                                            !.server = server]]
        /\ session[s].phase = "absent" /\ UNCHANGED daemon
    BY <1>10 DEF Fork
  <2>3. session'[s].phase = "forked" /\ session'[s].explainer = daemon.explainer
    BY <2>1, <2>2 DEF Process
  <2>4. \A t \in Sessions \ {s} : session'[t] = session[t]
    BY <2>1, <2>2
  <2>5. QED
    BY <2>2, <2>3, <2>4 DEF Offer!Fork
<1>11. ASSUME NEW s \in Sessions, explain_sess_init(s)
       PROVE  UNCHANGED Offer!offer
  <2>1. session \in [Sessions -> Process] /\ session[s].phase = "forked"
    BY <1>11 DEF explain_sess_init, ModuleInv, TypeOK
  <2>2. session'[s].phase = "active" /\ session'[s].explainer = session[s].explainer
    BY <1>11, <2>1, SessInitKeeps DEF explain_sess_init, Process
  <2>3. (\A t \in Sessions \ {s} : session'[t] = session[t]) /\ UNCHANGED daemon
    BY <1>11, <2>1 DEF explain_sess_init
  <2>4. QED
    BY <2>1, <2>2, <2>3
<1>12. ASSUME NEW s \in Sessions, Exit(s) PROVE Offer!Exit(s)
  <2>1. session \in [Sessions -> Process]
    BY DEF ModuleInv, TypeOK
  <2>2. session'[s].phase = "absent" /\ session[s].phase = "active"
    BY <1>12, <2>1, AbsentInv DEF Exit
  <2>3. (\A t \in Sessions \ {s} : session'[t] = session[t]) /\ UNCHANGED daemon
    BY <1>12, <2>1 DEF Exit
  <2>4. QED
    BY <2>2, <2>3 DEF Offer!Exit
<1>13. QED
  BY <1>1, <1>4, <1>5, <1>6, <1>7, <1>8, <1>9, <1>10, <1>11, <1>12
  DEF Next, Offer!Next

\* mod_explain.c keeps the promise of OfferedExplanations.
THEOREM Implements == Spec => KeepsOffer
<1>1. Init => Offer!Init
  BY AbsentInv DEF Init, Offer!Init, Absent
<1>2. ModuleInv /\ ModuleInv' /\ [Next]_vars => [Offer!Next]_(Offer!offer)
  BY OfferStep
<1>3. QED
  BY <1>1, <1>2, ModuleInvariant, PTL DEF Spec, KeepsOffer, Offer!Spec
=============================================================================
