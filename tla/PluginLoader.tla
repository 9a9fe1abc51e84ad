---------------------------- MODULE PluginLoader ----------------------------
(* PluginLoader of packages/plugins/loader.py and PluginBase of sdk.py: a   *)
(* discovery loads every plugin of the directory again, while activations, *)
(* deactivations and hook emissions are coroutines suspended in a handler  *)
(* of a plugin.  reload is left out: its only caller, the route, drops the *)
(* coroutine without await and reports success.                            *)
EXTENDS Naturals, Sequences, FiniteSets, SequencesExt

CONSTANTS Plugin, Request, MaxInstances

Instance == 1 .. MaxInstances

VARIABLES
  listed,    \* self._plugins: the names in the order of their insertion
  loaded,    \* the instance each name stands for: 0 is none
  errors,    \* self._errors: the names with an error
  failed,    \* the names whose last load failed
  instance,  \* status of each instance, and whether its on_load took hold
  made,      \* instances made so far
  request,   \* what each admin request does
  emission,  \* the emission of a hook
  crossed,   \* instances activated and deactivated at the same time
  steady     \* instances listed and active since the emission began

vars == <<listed, loaded, errors, failed, instance, made, request,
          emission, crossed, steady>>

NoRequest == [pc |-> "idle", of |-> 0]
NoEmission == [pc |-> "idle", at |-> 0, size |-> 0, of |-> 0, told |-> {}]

Init ==
  /\ listed = <<>>
  /\ loaded = [n \in Plugin |-> 0]
  /\ errors = {} /\ failed = {}
  /\ instance = [i \in Instance |-> [status |-> "disabled", held |-> FALSE]]
  /\ made = 0
  /\ request = [r \in Request |-> NoRequest]
  /\ emission = NoEmission
  /\ crossed = {}
  /\ steady = {}

Active(n) == loaded[n] # 0 /\ instance[loaded[n]].status = "active"

\* load_all, with the plugins it finds good and bad (a manifest that cannot be
\* read, an entry point that is missing, raises or has no subclass).  Each good
\* one is loaded, also one that is active: its old instance is replaced without
\* on_unload, and keeps its place.  A bad one leaves the old instance and an
\* error.
LoadAll(good, bad) ==
  LET order == SetToSeq(good)
  IN /\ good \union bad # {} /\ good \intersect bad = {}
     /\ made + Len(order) <= MaxInstances
     /\ loaded' = [n \in Plugin |->
                     IF n \in good
                       THEN made + CHOOSE i \in 1 .. Len(order) : order[i] = n
                       ELSE loaded[n]]
     /\ listed' = listed \o SelectSeq(order, LAMBDA n : loaded[n] = 0)
     /\ made' = made + Len(order)
     /\ errors' = errors \union bad
     /\ failed' = (failed \ good) \union bad
     /\ steady' = steady \ {loaded[n] : n \in good}
     /\ UNCHANGED <<instance, request, emission, crossed>>

Busy(i) == {r \in Request : request[r].of = i /\ request[r].pc # "idle"}

\* activate: on_load sets the status before its handler is awaited.
Activate(r, n) ==
  /\ request[r].pc = "idle" /\ loaded[n] # 0
  /\ LET i == loaded[n]
     IN /\ request' = [request EXCEPT ![r] = [pc |-> "loading", of |-> i]]
        /\ instance' = [instance EXCEPT ![i] = [status |-> "loaded", held |-> TRUE]]
        /\ crossed' = IF Busy(i) # {} THEN crossed \union {i} ELSE crossed
        /\ steady' = steady \ {i}
  /\ UNCHANGED <<listed, loaded, errors, failed, made, emission>>

\* The handler returns, or raises and leaves the plugin LOADED.
Activated(r) ==
  /\ request[r].pc = "loading"
  /\ request' = [request EXCEPT ![r] = NoRequest]
  /\ \/ instance' = [instance EXCEPT ![request[r].of].status = "active"]
     \/ UNCHANGED instance
  /\ UNCHANGED <<listed, loaded, errors, failed, made, emission, crossed,
                 steady>>

\* deactivate: the status is set after the handler of on_unload.
Deactivate(r, n) ==
  /\ request[r].pc = "idle" /\ loaded[n] # 0
  /\ request' = [request EXCEPT ![r] = [pc |-> "unloading", of |-> loaded[n]]]
  /\ crossed' = IF Busy(loaded[n]) # {} THEN crossed \union {loaded[n]}
                ELSE crossed
  /\ UNCHANGED <<listed, loaded, errors, failed, instance, made, emission,
                 steady>>

Deactivated(r) ==
  /\ request[r].pc = "unloading"
  /\ LET i == request[r].of
     IN \/ /\ instance' = [instance EXCEPT
                             ![i] = [status |-> "disabled", held |-> FALSE]]
           /\ steady' = steady \ {i}
        \/ UNCHANGED <<instance, steady>>
  /\ request' = [request EXCEPT ![r] = NoRequest]
  /\ UNCHANGED <<listed, loaded, errors, failed, made, emission, crossed>>

(* _emit_plugin_hook and emit: the dictionary is walked with the handlers  *)
(* awaited in between; one emission is followed.                           *)
Emit ==
  /\ emission.pc = "idle"
  /\ emission' = [NoEmission EXCEPT !.pc = "walking", !.size = Len(listed)]
  /\ steady' = {loaded[n] : n \in {m \in Plugin : Active(m)}}
  /\ UNCHANGED <<listed, loaded, errors, failed, instance, made, request,
                 crossed>>

\* The next plugin: its handler is awaited if it is active.  A dictionary that
\* has grown raises RuntimeError out of the walk.
Hook ==
  /\ emission.pc = "walking" /\ emission.of = 0
  /\ emission' =
       IF Len(listed) # emission.size THEN [emission EXCEPT !.pc = "raised"]
       ELSE IF emission.at = Len(listed) THEN [emission EXCEPT !.pc = "done"]
       ELSE LET i == loaded[listed[emission.at + 1]]
            IN IF instance[i].status = "active"
                 THEN [emission EXCEPT !.at = @ + 1, !.of = i,
                                       !.told = @ \union {i}]
                 ELSE [emission EXCEPT !.at = @ + 1]
  /\ UNCHANGED <<listed, loaded, errors, failed, instance, made, request,
                 crossed, steady>>

\* The handler of a hook returns or raises: the walk goes on.
Hooked ==
  /\ emission.of # 0
  /\ emission' = [emission EXCEPT !.of = 0]
  /\ UNCHANGED <<listed, loaded, errors, failed, instance, made, request,
                 crossed, steady>>

Next ==
  \/ \E good, bad \in SUBSET Plugin : LoadAll(good, bad)
  \/ \E r \in Request, n \in Plugin : Activate(r, n) \/ Deactivate(r, n)
  \/ \E r \in Request : Activated(r) \/ Deactivated(r)
  \/ Emit \/ Hook \/ Hooked

Spec == Init /\ [][Next]_vars

-----------------------------------------------------------------------------
(* list_plugins: the status and the error shown for a name.                *)
Shown(n) ==
  IF loaded[n] # 0
    THEN [status |-> instance[loaded[n]].status, error |-> n \in errors]
    ELSE [status |-> "error", error |-> TRUE]

-----------------------------------------------------------------------------
(* Properties                                                              *)

TypeOK ==
  /\ listed \in Seq(Plugin) /\ IsInjective(listed)
  /\ loaded \in [Plugin -> 0 .. MaxInstances]
  /\ errors \subseteq Plugin /\ failed \subseteq Plugin
  /\ instance \in [Instance -> [status : {"disabled", "loaded", "active"},
                                held : BOOLEAN]]
  /\ made \in 0 .. MaxInstances
  /\ \A r \in Request : request[r].pc \in {"idle", "loading", "unloading"}
  /\ emission.pc \in {"idle", "walking", "done", "raised"}
  /\ crossed \subseteq Instance /\ steady \subseteq Instance

(* A hook has reached every plugin that was active from the beginning of   *)
(* the emission to its end; only a dictionary that grows in between ends   *)
(* the walk before (emit of loader.py, _emit_plugin_hook).                 *)
HookReachesActive == emission.pc = "done" => steady \subseteq emission.told

(* An active instance holds what its on_load took, unless activation and   *)
(* deactivation of it overlapped (activate, deactivate, PluginBase).       *)
ActiveIsHeld ==
  \A i \in Instance \ crossed :
    instance[i].status = "active" => instance[i].held

(* The list shows an error for every plugin whose last load failed, and    *)
(* none as failed that a later discovery has loaded; it may go on showing  *)
(* the error of a load long repaired (load_plugin, list_plugins).          *)
FailuresAreShown ==
  /\ \A n \in failed : Shown(n).error
  /\ \A n \in Plugin :
       n \in errors \ failed => Shown(n).status # "error"
=============================================================================
