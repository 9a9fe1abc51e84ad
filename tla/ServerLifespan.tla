--------------------------- MODULE ServerLifespan ---------------------------
(* Start and stop of the API server (lifespan of main.py), once in each    *)
(* worker process: deployment.md asks for several over one database.  A    *)
(* step that fails is logged and the server goes on, so a worker may serve *)
(* with less than it should have.  The lists of what exists are read       *)
(* before the rows are written, in a transaction whose lock is taken by    *)
(* the first write.                                                        *)
EXTENDS Naturals, FiniteSets, Sequences

CONSTANTS Worker, Template, Profiles, MaxCrashes

VARIABLES
  secret,    \* whether SECRET_KEY is still the default, in production
  profile,   \* ZCODE_API_PROFILE
  redis,     \* whether configs/cache.yaml names the redis backend
  worker,    \* of each worker: where it is, and what it has read
  builtins,  \* committed rows of each builtin template
  roles,     \* whether the default roles and permissions are committed
  shared,    \* of each worker: the stores it has moved to Redis
  released,  \* of each worker: what its shutdown has released
  failures,  \* of each worker that starts or serves: the steps that failed
  together,  \* two workers wrote templates from lists read before either
  crashes

vars == <<secret, profile, redis, worker, builtins, roles, shared, released,
          failures, together, crashes>>

Off == [pc |-> "off", missing |-> {}, empty |-> FALSE]

\* What the shutdown goes through, in this order.
Resources ==
  <<"providers", "scheduler", "mcp", "browser", "vision", "sso", "search",
    "messaging", "database">>

\* The stores that Redis may hold, in the order they are configured.
Stores == <<"nonces", "states", "permissions">>

FirstOf(s, n) == {s[i] : i \in 1 .. n}

Init ==
  /\ secret \in {"default", "set"} /\ profile \in Profiles /\ redis \in BOOLEAN
  /\ worker = [w \in Worker |-> Off]
  /\ builtins = [t \in Template |-> 0]
  /\ roles = FALSE
  /\ shared = [w \in Worker |-> {}]
  /\ released = [w \in Worker |-> {}]
  /\ failures = [w \in Worker |-> {}]
  /\ together = FALSE
  /\ crashes = 0

config == <<secret, profile, redis>>

At(w, pc) == worker[w].pc = pc
GoesTo(w, pc) == worker' = [worker EXCEPT ![w].pc = pc]
Fails(w, step) == failures' = [failures EXCEPT ![w] = @ \union {step}]

-----------------------------------------------------------------------------
(* Start.                                                                  *)

\* A default key in production refuses to start.
Start(w) ==
  /\ At(w, "off")
  /\ worker' = [worker EXCEPT ![w] =
                  [Off EXCEPT !.pc = IF secret = "default" THEN "refused"
                                     ELSE IF profile = "full" THEN "templates"
                                     ELSE "roles"]]
  /\ UNCHANGED <<config, builtins, roles, shared, released, failures, together,
                 crashes>>

\* seed_builtin_templates reads the names that exist.
ReadTemplates(w) ==
  /\ At(w, "templates")
  /\ worker' = [worker EXCEPT
                  ![w] = [@ EXCEPT !.pc = "write",
                                   !.missing = {t \in Template : builtins[t] = 0}]]
  /\ UNCHANGED <<config, builtins, roles, shared, released, failures, together,
                 crashes>>

\* The rows are written and committed; or it fails, and so do the roles, which
\* are seeded inside the same try.
WriteTemplates(w) ==
  /\ At(w, "write")
  /\ LET missing == worker[w].missing
     IN \/ /\ builtins' = [t \in Template |->
                             IF t \in missing THEN builtins[t] + 1 ELSE builtins[t]]
           /\ together' = (together \/ \E t \in missing : builtins[t] > 0)
           /\ GoesTo(w, "roles")
           /\ UNCHANGED failures
        \/ /\ GoesTo(w, "stores") /\ Fails(w, "templates")
           /\ UNCHANGED <<builtins, together>>
  /\ UNCHANGED <<config, roles, shared, released, crashes>>

\* seed_if_empty counts the roles.
CountRoles(w) ==
  /\ At(w, "roles")
  /\ worker' = [worker EXCEPT ![w] = [@ EXCEPT !.pc = "seed", !.empty = ~roles]]
  /\ UNCHANGED <<config, builtins, roles, shared, released, failures, together,
                 crashes>>

(* Faulty variant: one row of the roles is taken for all of them.          *)
SeedRolesHalf(w) ==
  /\ At(w, "seed") /\ GoesTo(w, "stores")
  /\ UNCHANGED <<config, builtins, roles, shared, released, failures, together,
                 crashes>>

\* seed_default_roles_and_permissions in one transaction, whose unique names
\* fail it when another worker has seeded since the count.
SeedRoles(w) ==
  /\ At(w, "seed") /\ GoesTo(w, "stores")
  /\ \/ ~worker[w].empty /\ UNCHANGED <<roles, failures>>
     \/ worker[w].empty /\ ~roles /\ roles' = TRUE /\ UNCHANGED failures
     \/ worker[w].empty /\ Fails(w, "roles") /\ UNCHANGED roles
  /\ UNCHANGED <<config, builtins, shared, released, together, crashes>>

\* The Redis backends are configured one after another; the first that fails
\* leaves those before it configured and the rest in memory.
ConfigureStores(w) ==
  /\ At(w, "stores") /\ GoesTo(w, "serving")
  /\ \/ ~redis /\ UNCHANGED <<shared, failures>>
     \/ /\ redis
        /\ \E n \in 0 .. Len(Stores) :
             /\ shared' = [shared EXCEPT ![w] = FirstOf(Stores, n)]
             /\ IF n = Len(Stores) THEN UNCHANGED failures ELSE Fails(w, "stores")
  /\ UNCHANGED <<config, builtins, roles, released, together, crashes>>

-----------------------------------------------------------------------------
(* Stop.                                                                   *)

BeginShutdown(w) ==
  /\ At(w, "serving") /\ GoesTo(w, "closing")
  /\ failures' = [failures EXCEPT ![w] = {}]
  /\ UNCHANGED <<config, builtins, roles, shared, released, together, crashes>>

\* The next resource is released; a release that fails is logged and passed
\* over, so that each is reached.
Release(w) ==
  LET n == Cardinality(released[w])
  IN /\ At(w, "closing") /\ n < Len(Resources)
     /\ released' = [released EXCEPT ![w] = @ \union {Resources[n + 1]}]
     /\ IF n + 1 = Len(Resources) THEN GoesTo(w, "down") ELSE UNCHANGED worker
     /\ UNCHANGED <<config, builtins, roles, shared, failures, together, crashes>>

\* A worker dies anywhere, and its uncommitted rows with it; or one that is
\* down is started again.
Crash(w) ==
  /\ ~At(w, "off") /\ ~At(w, "refused")
  /\ At(w, "down") \/ crashes < MaxCrashes
  /\ worker' = [worker EXCEPT ![w] = Off]
  /\ shared' = [shared EXCEPT ![w] = {}]
  /\ released' = [released EXCEPT ![w] = {}]
  /\ failures' = [failures EXCEPT ![w] = {}]
  /\ crashes' = IF At(w, "down") THEN crashes ELSE crashes + 1
  /\ UNCHANGED <<config, builtins, roles, together>>

Next ==
  \E w \in Worker :
    \/ Start(w) \/ ReadTemplates(w) \/ WriteTemplates(w) \/ CountRoles(w)
    \/ SeedRoles(w) \/ ConfigureStores(w) \/ BeginShutdown(w) \/ Release(w)
    \/ Crash(w)

Spec == Init /\ [][Next]_vars

-----------------------------------------------------------------------------
(* Properties                                                              *)

TypeOK ==
  /\ \A w \in Worker :
       /\ worker[w].pc \in {"off", "refused", "templates", "write", "roles",
                            "seed", "stores", "serving", "closing", "down"}
       /\ worker[w].missing \subseteq Template
       /\ shared[w] \subseteq FirstOf(Stores, Len(Stores))
       /\ released[w] \subseteq FirstOf(Resources, Len(Resources))
       /\ failures[w] \subseteq {"templates", "roles", "stores"}
  /\ builtins \in [Template -> 0 .. Cardinality(Worker)]
  /\ roles \in BOOLEAN /\ together \in BOOLEAN
  /\ crashes \in 0 .. MaxCrashes

(* A worker that serves without a failed step has a database with all the  *)
(* builtin templates and with roles, however starts, crashes and restarts  *)
(* of the workers interleave; a failed write of the templates leaves out   *)
(* the roles as well (lifespan, seed_if_empty).                            *)
ServesSeeded ==
  \A w \in Worker :
    At(w, "serving") =>
      /\ failures[w] \intersect {"templates", "roles"} = {} => roles
      /\ profile = "full" /\ "templates" \notin failures[w] =>
           \A t \in Template : builtins[t] > 0

(* A builtin template exists once, unless two workers have listed the      *)
(* templates before either wrote them: nothing but the list keeps them     *)
(* apart (seed_builtin_templates, TaskTemplate).                           *)
BuiltinsOnce == ~together => \A t \in Template : builtins[t] <= 1
=============================================================================
