--------------------------- MODULE ToolRegistry ---------------------------
(* The tools a server process knows and what the policy lets them do:      *)
(* UnifiedToolRegistry of packages/policy/unified_registry.py, which       *)
(* merges what tool classes declare with configs/tools.yaml, the import of *)
(* the tool modules and the wiring in get_orchestrator of dependencies.py, *)
(* and check of policy_engine.py with the rules of risk_rules.py.          *)
(*                                                                         *)
(* get_orchestrator runs on the event loop without an await, so it is one  *)
(* step.  An import may raise anywhere in a module; Python then forgets    *)
(* the module, but the registry keeps the tools it had registered.         *)
EXTENDS Naturals, Sequences, FiniteSets, Functions

CONSTANTS
  Tool, Edition,
  Files,      \* the tool modules in the order of _auto_import, as sequences
  Decorated,  \* risk_level of each tool's decorator, or Unset
  OfClass,    \* risk_level of each tool's class
  Unset,
  YamlFiles,  \* contents configs/tools.yaml may have
  Policies,   \* contents configs/policy.yaml may have
  MaxEdits, MaxRestarts

Risk == 0 .. 3  \* low, medium, high, critical
File == 1 .. Len(Files)
Coded == UNION {Range(Files[i]) : i \in File}

\* What an entry of configs/tools.yaml says: it may omit the risk; to omit
\* the others is to say TRUE and every edition.
Written == [risk: Risk \union {Unset}, enabled: BOOLEAN, edition: SUBSET Edition]

VARIABLES
  yamlFile, policyFile,  \* the two files on disk
  yaml,      \* self._yaml_policy
  tools,     \* self._tools
  loaded,    \* the tool modules in sys.modules
  engine,    \* the policy of _orchestrator_instance, or None
  torn,      \* modules whose import failed after it had registered a tool
  answer,    \* what the last call of get_orchestrator did
  edits, restarts

vars == <<yamlFile, policyFile, yaml, tools, loaded, engine, torn, answer, edits,
          restarts>>

None == [forbidden |-> {}, highest |-> 0, approval |-> {}, is |-> FALSE]

-----------------------------------------------------------------------------
Given(value, default) == IF value = Unset THEN default ELSE value

\* _load_policy: what an entry omits gets its default here, before the merge.
Loaded(file) ==
  [t \in DOMAIN file |-> [file[t] EXCEPT !.risk = Given(@, 0)]]

CodeRisk(t) == Given(Decorated[t], OfClass[t])

(* Faulty variant: the code wins over the operator's file.                 *)
MergedCodeFirst(t, entries) ==
  [risk |-> CodeRisk(t), enabled |-> TRUE, edition |-> Edition, coded |-> TRUE]

\* _merge_policy: file, then decorator, then class.
Merged(t, entries) ==
  IF t \in DOMAIN entries
  THEN [risk |-> entries[t].risk, enabled |-> entries[t].enabled,
        edition |-> entries[t].edition, coded |-> TRUE]
  ELSE [risk |-> CodeRisk(t), enabled |-> TRUE, edition |-> Edition, coded |-> TRUE]

\* register, for the tools of a module that were reached.
Registered(known, new, entries) ==
  [t \in DOMAIN known \union new |->
     IF t \in new THEN Merged(t, entries) ELSE known[t]]

\* _register_yaml_placeholders, by finalize.
Finalized(known, entries) ==
  [t \in DOMAIN known \union DOMAIN entries |->
     IF t \in DOMAIN known THEN known[t]
     ELSE [risk |-> entries[t].risk, enabled |-> entries[t].enabled,
           edition |-> entries[t].edition, coded |-> FALSE]]

Nothing == [t \in {} |-> 0]

Init ==
  /\ yamlFile \in YamlFiles /\ policyFile \in Policies
  /\ yaml = Loaded(yamlFile)
  /\ tools = Nothing
  /\ loaded = {}
  /\ engine = None
  /\ torn = {}
  /\ answer = "none"
  /\ edits = 0
  /\ restarts = 0

-----------------------------------------------------------------------------
\* An operator edits a file.  Neither is read again by a running process.
Edit ==
  /\ edits < MaxEdits
  /\ edits' = edits + 1
  /\ \/ \E y \in YamlFiles : yamlFile' = y /\ UNCHANGED policyFile
     \/ \E p \in Policies : policyFile' = p /\ UNCHANGED yamlFile
  /\ UNCHANGED <<yaml, tools, loaded, engine, torn, answer, restarts>>

\* A new process: the registry is made when its module is first imported.
Restart ==
  /\ restarts < MaxRestarts
  /\ restarts' = restarts + 1
  /\ yaml' = Loaded(yamlFile)
  /\ tools' = Nothing
  /\ loaded' = {}
  /\ engine' = None
  /\ torn' = {}
  /\ answer' = "none"
  /\ UNCHANGED <<yamlFile, policyFile, edits>>

\* The tools of the modules that are still to be imported before module i.
Before(i) == UNION {Range(Files[j]) : j \in {k \in File : k < i /\ k \notin loaded}}

\* A module that is imported again after it was torn raises "already
\* registered" at its first tool.
Importable(i) == Range(Files[i]) \intersect DOMAIN tools = {}

\* Every module is imported, the registry finalized, the policy file read
\* (_load_config) and the orchestrator kept.
Build ==
  /\ engine = None
  /\ \A i \in File \ loaded : Importable(i)
  /\ tools' = Finalized(Registered(tools, Before(Len(Files) + 1), yaml), yaml)
  /\ loaded' = File
  /\ engine' = policyFile
  /\ answer' = "built"
  /\ UNCHANGED <<yamlFile, policyFile, yaml, torn, edits, restarts>>

\* The import of a module raises when it has registered `reached` tools; the
\* modules before it stay imported.
ImportFails(i, reached) ==
  /\ engine = None
  /\ i \in File \ loaded /\ reached < Len(Files[i])
  /\ \A j \in File \ loaded : j < i => Importable(j)
  /\ reached > 0 => Importable(i)
  /\ tools' = Registered(tools,
                         Before(i) \union {Files[i][k] : k \in 1 .. reached}, yaml)
  /\ loaded' = loaded \union {j \in File : j < i}
  /\ torn' = IF reached > 0 THEN torn \union {i} ELSE torn
  /\ answer' = "failed"
  /\ UNCHANGED <<yamlFile, policyFile, yaml, engine, edits, restarts>>

Next ==
  \/ Edit \/ Restart \/ Build
  \/ \E i \in File : \E reached \in 0 .. 2 : ImportFails(i, reached)

Spec == Init /\ [][Next]_vars

-----------------------------------------------------------------------------
\* The queries of the registry.
IsEnabled(t) == t \in DOMAIN tools /\ tools[t].enabled

IsAvailable(t, e) ==
  /\ IsEnabled(t)
  /\ e \in tools[t].edition

\* get_tools_summary: the tools a plan for edition e is made from.
Offered(e) == {t \in DOMAIN tools : IsAvailable(t, e)}

\* get_tool_instance.
HasInstance(t) == IsEnabled(t) /\ tools[t].coded

(* Faulty variant: an edition the tool is not for is let through.          *)
DecisionAnyEdition(t, e) ==
  IF ~IsEnabled(t) \/ t \in engine.forbidden \/ tools[t].risk > engine.highest
  THEN "denied"
  ELSE IF tools[t].risk \in engine.approval THEN "approval" ELSE "granted"

\* check, for arguments that check_fn and the path and URL rules accept.
Decision(t, e) ==
  IF \/ ~IsEnabled(t)
     \/ t \in engine.forbidden
     \/ ~IsAvailable(t, e)
     \/ tools[t].risk > engine.highest
  THEN "denied"
  ELSE IF tools[t].risk \in engine.approval THEN "approval" ELSE "granted"

-----------------------------------------------------------------------------
(* Properties                                                              *)

(* The registry, the files and the imports keep their ranges.              *)
TypeOK ==
  /\ yamlFile \in YamlFiles /\ policyFile \in Policies
  /\ DOMAIN yaml \subseteq Tool /\ DOMAIN tools \subseteq Tool
  /\ \A t \in DOMAIN tools :
       tools[t] \in [risk: Risk, enabled: BOOLEAN,
                     edition: SUBSET Edition, coded: BOOLEAN]
  /\ loaded \subseteq File /\ torn \subseteq File
  /\ engine \in Policies \union {None}
  /\ answer \in {"none", "built", "failed"}

(* What the policy grants without asking is, for each tool the file the    *)
(* process started with names, what that file allows: enabled, for this    *)
(* edition, and of a risk that needs no approval, whatever the order and   *)
(* the failures of the imports; a tool the file does not name keeps the    *)
(* risk of its code (_load_policy, _merge_policy, finalize, check).        *)
GrantedIsAllowed ==
  engine # None =>
    \A t \in Tool, e \in Edition :
      Decision(t, e) = "granted" =>
        /\ t \notin engine.forbidden
        /\ IF t \in DOMAIN yaml
           THEN /\ yaml[t].enabled /\ yaml[t].risk \notin engine.approval
                /\ yaml[t].risk <= engine.highest
                /\ e \in yaml[t].edition
           ELSE CodeRisk(t) \notin engine.approval /\ CodeRisk(t) <= engine.highest

(* An orchestrator is made only of a complete registry: every coded tool   *)
(* can be instantiated unless it is disabled, and what is offered to a     *)
(* planner can be, unless the file names a tool that has no code (register,*)
(* finalize, get_tools_summary, get_tool_instance).                        *)
BuiltIsComplete ==
  engine # None =>
    /\ Coded \union DOMAIN yaml = DOMAIN tools
    /\ \A t \in Coded : IsEnabled(t) => HasInstance(t)
    /\ \A e \in Edition : \A t \in Offered(e) : HasInstance(t) \/ t \notin Coded

(* A call of get_orchestrator that fails leaves the next one free to build *)
(* it, unless a module was torn: then its tools stay registered without    *)
(* it, and "already registered" fails every later call of the process.     *)
FailureIsPassing ==
  engine = None =>
    /\ (\A i \in File \ loaded : Importable(i)) <=> torn = {}
    /\ torn # {} => answer = "failed"
=============================================================================
